------------------------------ MODULE Registry -------------------------------
(***************************************************************************)
(* What the registry database promises, whatever process writes to it: the *)
(* only way it changes is that ONE complete entity is stored under its own *)
(* id, its first sighting is never forgotten, no row disappears, and two   *)
(* rows never share a slug.  Pipeline implements this specification.       *)
(***************************************************************************)
CONSTANTS Ids, NoRow, Entities

VARIABLE table

RegistryInit == table = [i \in Ids |-> NoRow]

\* One entity is stored under id i, over what was known of it.
Store(i) ==
    /\ table' \in [Ids -> Entities \cup {NoRow}]
    /\ table'[i] \in Entities
    /\ table'[i].src.id = i
    /\ table[i] # NoRow => table'[i].firstSeen = table[i].firstSeen
    /\ \A j \in Ids \ {i} :
         /\ table'[j] = table[j]
         /\ table[j] # NoRow => table[j].src.slug # table'[i].src.slug

RegistryNext == \E i \in Ids : Store(i)

RegistrySpec == RegistryInit /\ [][RegistryNext]_table
=============================================================================
