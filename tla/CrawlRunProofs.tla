---------------------------- MODULE CrawlRunProofs ----------------------------
(***************************************************************************)
(* Theorems about CrawlRun and its store for any sources, candidates,      *)
(* workers, parts and models, and any bound on the clock.                  *)
(***************************************************************************)
EXTENDS CrawlRun, FiniteSetTheorems, SequenceTheorems, TLAPS

-----------------------------------------------------------------------------
(* The statements of SaveServer. *)

Tables == {"mcp_servers", "parts", "sources", "server_sources", "history", "server_snapshots"}
Statement ==
    {st \in [table : Tables, key : Parts \cup Refs \cup Tables] :
        /\ st.table = "parts" => st.key \in Parts
        /\ st.table \in {"sources", "server_sources"} => st.key \in Refs}

PartOf(p) == [table |-> "parts", key |-> p]
LinkOf(r) == [table |-> "server_sources", key |-> r]

\* st is still to be executed.
Left(left, st) == \E j \in 1..Len(left) : left[j] = st

LEMMA ListedIsBijection ==
    ASSUME NEW S, IsFiniteSet(S)
    PROVE  /\ Cardinality(S) \in Nat
           /\ Listed(S) \in [1..Cardinality(S) -> S]
           /\ \A x \in S : \E k \in 1..Cardinality(S) : Listed(S)[k] = x
<1> DEFINE n == Cardinality(S)
           P(q) == \A j, k \in DOMAIN q : q[j] = q[k] => j = k
<1>1. n \in Nat /\ ExistsBijection(1..n, S)
  BY FS_CardinalityType
<1>2. PICK b : b \in Bijection(1..n, S)
  BY <1>1 DEF ExistsBijection
<1>3. b \in [1..n -> S] /\ P(b)
  BY <1>2 DEF Bijection, Injection, IsInjective
<1>4. Listed(S) \in [1..n -> S] /\ P(Listed(S))
  BY <1>3 DEF Listed
<1>5. Listed(S) \in Injection(1..n, S)
  BY <1>4 DEF Injection, IsInjective
<1>6. IsFiniteSet(1..n) /\ Cardinality(1..n) = n
  BY <1>1, FS_Interval
<1>7. Listed(S) \in Surjection(1..n, S)
  BY <1>5, <1>6, FS_Injection
<1>8. \A x \in S : \E k \in 1..n : Listed(S)[k] = x
  BY <1>7 DEF Surjection
<1> QED BY <1>1, <1>4, <1>8

LEMMA FunctionIsSeq ==
    ASSUME NEW n \in Nat, NEW X, NEW q \in [1..n -> X]
    PROVE  q \in Seq(X) /\ Len(q) = n
<1>1. q \in Seq(X)
  BY SeqDef
<1>2. DOMAIN q = 1..n /\ DOMAIN q = 1..Len(q) /\ Len(q) \in Nat
  BY <1>1, LenProperties
<1> QED BY <1>1, <1>2

LEMMA EachLists ==
    ASSUME NEW S \in SUBSET Parts
    PROVE  /\ Each("parts", S) \in Seq(Statement)
           /\ \A j \in 1..Len(Each("parts", S)) : Each("parts", S)[j].table = "parts"
           /\ \A p \in S : Left(Each("parts", S), PartOf(p))
<1> DEFINE n == Cardinality(S)
           q == Each("parts", S)
<1>1. IsFiniteSet(S)
  BY StoreAssumption, FS_Subset
<1>2. n \in Nat /\ Listed(S) \in [1..n -> S] /\ \A x \in S : \E k \in 1..n : Listed(S)[k] = x
  BY <1>1, ListedIsBijection
<1>3. q = [k \in 1..n |-> [table |-> "parts", key |-> Listed(S)[k]]]
  BY DEF Each
<1>4. \A k \in 1..n : q[k] \in Statement /\ q[k].table = "parts" /\ q[k] = PartOf(Listed(S)[k])
  BY <1>2, <1>3 DEF Statement, Tables, PartOf
<1>5. q \in [1..n -> Statement]
  BY <1>3, <1>4
<1>6. q \in Seq(Statement) /\ Len(q) = n
  BY <1>2, <1>5, FunctionIsSeq
<1>7. ASSUME NEW p \in S PROVE Left(q, PartOf(p))
  BY <1>2, <1>4, <1>6 DEF Left
<1> QED BY <1>4, <1>6, <1>7

LEMMA SourcesList ==
    ASSUME NEW S \in SUBSET Refs
    PROVE  /\ SourceStatements(S) \in Seq(Statement)
           /\ \A j \in 1..Len(SourceStatements(S)) :
                 SourceStatements(S)[j].table \in {"sources", "server_sources"}
           /\ \A r \in S : Left(SourceStatements(S), LinkOf(r))
<1> DEFINE n == Cardinality(S)
           q == SourceStatements(S)
<1>1. IsFiniteSet(S)
  BY StoreAssumption, FS_Subset
<1>2. n \in Nat /\ Listed(S) \in [1..n -> S] /\ \A x \in S : \E k \in 1..n : Listed(S)[k] = x
  BY <1>1, ListedIsBijection
<1>3. q = [k \in 1..(2 * n) |->
              [table |-> IF k % 2 = 1 THEN "sources" ELSE "server_sources",
               key |-> Listed(S)[(k + 1) \div 2]]]
  BY DEF SourceStatements
<1>4. \A k \in 1..(2 * n) : (k + 1) \div 2 \in 1..n
  BY <1>2
<1>5. \A k \in 1..(2 * n) : Listed(S)[(k + 1) \div 2] \in Refs
  BY <1>2, <1>4
<1>6. \A k \in 1..(2 * n) : q[k] \in Statement /\ q[k].table \in {"sources", "server_sources"}
  BY <1>3, <1>5 DEF Statement, Tables
<1>7. q \in Seq(Statement) /\ Len(q) = 2 * n
  <2>1. q \in [1..(2 * n) -> Statement] /\ 2 * n \in Nat
    BY <1>2, <1>3, <1>6
  <2> QED BY <2>1, FunctionIsSeq
<1>8. ASSUME NEW r \in S PROVE Left(q, LinkOf(r))
  <2>1. PICK k \in 1..n : Listed(S)[k] = r
    BY <1>2
  <2>2. 2 * k \in 1..(2 * n) /\ (2 * k) % 2 = 0 /\ (2 * k + 1) \div 2 = k
    BY <1>2
  <2>3. q[2 * k] = LinkOf(r)
    BY <1>3, <2>1, <2>2 DEF LinkOf
  <2> QED BY <1>7, <2>2, <2>3 DEF Left
<1> QED BY <1>6, <1>7, <1>8

LEMMA ConcatKeepsLeft ==
    ASSUME NEW a \in Seq(Statement), NEW b \in Seq(Statement), NEW st
    PROVE  /\ Left(a, st) => Left(a \o b, st)
           /\ Left(b, st) => Left(a \o b, st)
<1>1. /\ Len(a) \in Nat /\ Len(b) \in Nat /\ Len(a \o b) = Len(a) + Len(b)
      /\ \A i \in 1..(Len(a) + Len(b)) : (a \o b)[i] = IF i <= Len(a) THEN a[i] ELSE b[i - Len(a)]
  BY ConcatProperties, LenProperties
<1>2. ASSUME NEW j \in 1..Len(a) PROVE j \in 1..Len(a \o b) /\ (a \o b)[j] = a[j]
  BY <1>1
<1>3. ASSUME NEW j \in 1..Len(b)
      PROVE  j + Len(a) \in 1..Len(a \o b) /\ (a \o b)[j + Len(a)] = b[j]
  <2>1. j + Len(a) \in 1..(Len(a) + Len(b)) /\ ~(j + Len(a) <= Len(a)) /\ (j + Len(a)) - Len(a) = j
    BY <1>1
  <2> QED BY <1>1, <2>1
<1> QED BY <1>2, <1>3 DEF Left

\* The row of the server is the first statement and only the first, the snapshot
\* the last and only the last.
RowFirst(left) == \A j \in 2..Len(left) : left[j].table # "mcp_servers"
SnapshotLast(left) ==
    \A j \in 1..Len(left) : left[j].table = "server_snapshots" <=> j = Len(left)

LEMMA ConcatKeepsOrder ==
    ASSUME NEW a \in Seq(Statement), NEW b \in Seq(Statement),
           a # <<>>, RowFirst(a), \A j \in 1..Len(a) : a[j].table # "server_snapshots",
           \A j \in 1..Len(b) : b[j].table # "mcp_servers"
    PROVE  /\ a \o b \in Seq(Statement) /\ a \o b # <<>> /\ RowFirst(a \o b)
           /\ (a \o b)[1] = a[1] /\ Len(a \o b) = Len(a) + Len(b)
           /\ (\A j \in 1..Len(b) : b[j].table # "server_snapshots")
                => \A j \in 1..Len(a \o b) : (a \o b)[j].table # "server_snapshots"
           /\ Len(b) = 1 /\ b[1].table = "server_snapshots" => SnapshotLast(a \o b)
<1>1. /\ a \o b \in Seq(Statement)
      /\ Len(a) \in Nat \ {0} /\ Len(b) \in Nat /\ Len(a \o b) = Len(a) + Len(b)
      /\ \A i \in 1..(Len(a) + Len(b)) : (a \o b)[i] = IF i <= Len(a) THEN a[i] ELSE b[i - Len(a)]
  BY ConcatProperties, LenProperties, EmptySeq
<1>2. \A i \in 1..(Len(a) + Len(b)) :
         \/ i \in 1..Len(a) /\ (a \o b)[i] = a[i]
         \/ i > Len(a) /\ i - Len(a) \in 1..Len(b) /\ (a \o b)[i] = b[i - Len(a)]
  BY <1>1
<1>3. RowFirst(a \o b)
  BY <1>1, <1>2 DEF RowFirst
<1>4. a \o b # <<>> /\ (a \o b)[1] = a[1]
  BY <1>1, EmptySeq
<1>5. (\A j \in 1..Len(b) : b[j].table # "server_snapshots")
        => \A j \in 1..Len(a \o b) : (a \o b)[j].table # "server_snapshots"
  BY <1>1, <1>2
<1>6. Len(b) = 1 /\ b[1].table = "server_snapshots" => SnapshotLast(a \o b)
  BY <1>1, <1>2 DEF SnapshotLast
<1> QED BY <1>1, <1>3, <1>4, <1>5, <1>6

\* What SaveServer is about to execute when it begins.
LEMMA SaveStatementsAreOrdered ==
    ASSUME NEW s, s.parts \subseteq Parts, s.refs \subseteq Refs
    PROVE  LET left == SaveStatements(s) IN
           /\ left \in Seq(Statement) /\ Len(left) > 1
           /\ left[1].table = "mcp_servers" /\ RowFirst(left) /\ SnapshotLast(left)
           /\ \A p \in s.parts : Left(left, PartOf(p))
           /\ \A r \in s.refs : Left(left, LinkOf(r))
<1> DEFINE row == One("mcp_servers")
           parts == Each("parts", s.parts)
           sources == SourceStatements(s.refs)
           a == row \o parts
           b == a \o sources
           c == b \o One("history")
           d == c \o One("server_snapshots")
<1>1. \A t \in {"mcp_servers", "history", "server_snapshots"} :
         One(t) \in Seq(Statement) /\ Len(One(t)) = 1 /\ One(t)[1].table = t
  BY DEF One, Statement, Tables
<1>2. /\ parts \in Seq(Statement) /\ \A j \in 1..Len(parts) : parts[j].table = "parts"
      /\ \A p \in s.parts : Left(parts, PartOf(p))
  BY EachLists
<1>3. /\ sources \in Seq(Statement)
      /\ \A j \in 1..Len(sources) : sources[j].table \in {"sources", "server_sources"}
      /\ \A r \in s.refs : Left(sources, LinkOf(r))
  BY SourcesList
<1>4. row # <<>> /\ RowFirst(row) /\ \A j \in 1..Len(row) : row[j].table # "server_snapshots"
  BY <1>1, EmptySeq DEF RowFirst
<1> HIDE DEF row, parts, sources
<1>5. /\ a \in Seq(Statement) /\ a # <<>> /\ RowFirst(a) /\ a[1] = row[1]
      /\ \A j \in 1..Len(a) : a[j].table # "server_snapshots"
      /\ \A p \in s.parts : Left(a, PartOf(p))
  <2>1. \A j \in 1..Len(parts) : parts[j].table # "mcp_servers" /\ parts[j].table # "server_snapshots"
    BY <1>2
  <2>2. row \in Seq(Statement)
    BY <1>1 DEF row
  <2> QED BY <1>2, <1>4, <2>1, <2>2, ConcatKeepsOrder, ConcatKeepsLeft
<1> HIDE DEF a
<1>6. /\ b \in Seq(Statement) /\ b # <<>> /\ RowFirst(b) /\ b[1] = row[1]
      /\ \A j \in 1..Len(b) : b[j].table # "server_snapshots"
      /\ \A p \in s.parts : Left(b, PartOf(p))
      /\ \A r \in s.refs : Left(b, LinkOf(r))
  <2>1. \A j \in 1..Len(sources) : sources[j].table # "mcp_servers" /\ sources[j].table # "server_snapshots"
    BY <1>3
  <2> QED BY <1>3, <1>5, <2>1, ConcatKeepsOrder, ConcatKeepsLeft
<1> HIDE DEF b
<1>7. /\ c \in Seq(Statement) /\ c # <<>> /\ RowFirst(c) /\ c[1] = row[1]
      /\ \A j \in 1..Len(c) : c[j].table # "server_snapshots"
      /\ \A p \in s.parts : Left(c, PartOf(p))
      /\ \A r \in s.refs : Left(c, LinkOf(r))
  <2>1. \A j \in 1..Len(One("history")) :
           One("history")[j].table # "mcp_servers" /\ One("history")[j].table # "server_snapshots"
    BY <1>1
  <2> QED BY <1>1, <1>6, <2>1, ConcatKeepsOrder, ConcatKeepsLeft
<1> HIDE DEF c
<1>8. /\ d \in Seq(Statement) /\ RowFirst(d) /\ SnapshotLast(d) /\ d[1] = row[1]
      /\ Len(d) = Len(c) + 1
      /\ \A p \in s.parts : Left(d, PartOf(p))
      /\ \A r \in s.refs : Left(d, LinkOf(r))
  <2>1. \A j \in 1..Len(One("server_snapshots")) : One("server_snapshots")[j].table # "mcp_servers"
    BY <1>1
  <2> QED BY <1>1, <1>7, <2>1, ConcatKeepsOrder, ConcatKeepsLeft
<1>9. Len(d) > 1
  <2>1. Len(c) \in Nat \ {0}
    BY <1>7, EmptySeq
  <2> QED BY <1>8, <2>1
<1>10. row[1].table = "mcp_servers"
  BY <1>1 DEF row
<1>11. SaveStatements(s) = d
  BY DEF SaveStatements, row, parts, sources, a, b, c
<1> QED BY <1>8, <1>9, <1>10, <1>11

-----------------------------------------------------------------------------
(* The inductive invariant. *)

Outcomes == {"valid", "auth", "error"}
Save == [srv : ServerSet, left : Seq(Statement) \ {<<>>}]

\* The tables, as TablesType has them.
TablesSet ==
    [servers : [ServerIds -> StoredRow(Slugs) \cup {NoServer}],
     parts : [ServerIds -> [Parts -> Nat]],
     sources : [Refs -> Nat],
     links : [ServerIds -> SUBSET (Refs \X Nat)],
     snapshots : SUBSET Snapshot]

\* The types, with what the sequences hold and what is counted being finite.
ClockType ==
    /\ now \in 1..MaxTime /\ proc \in {"down", "once", "periodic"} /\ ctxDone \in BOOLEAN
    /\ pc \in {"idle", "discover", "llm", "verify", "persist"}
    /\ crawl \in 0..MaxTime /\ run \in [Counters -> Nat]
    /\ crawlRuns \in [1..MaxTime -> [started : BOOLEAN, finished : BOOLEAN, of : SUBSET Sources,
                                     counts : [Counters -> Nat]]]
GatherType ==
    /\ discover \in [Sources -> [next : Nat, over : BOOLEAN]]
    /\ fetching \subseteq Records /\ got \subseteq Records /\ IsFiniteSet(got)
ServersType ==
    /\ servers \subseteq ServerSet /\ todo \subseteq ServerSet
    /\ waiting \subseteq ServerSet /\ checking \subseteq ServerSet
    /\ pc = "llm" => IsFiniteSet(servers)
LLMType == auth \in Nat /\ open \in BOOLEAN /\ asked \in Seq(Outcomes)
SaveType == saving \in Save \cup {NoSave} /\ v1 \in TablesSet

TypeInv == ClockType /\ GatherType /\ ServersType /\ LLMType /\ SaveType

\* What belongs to one stage is empty in the others.
PlaceInv ==
    /\ pc \notin {"idle", "discover"} => fetching = {}
    /\ pc # "verify" => waiting = {} /\ checking = {}
    /\ pc # "persist" => saving = NoSave
    /\ pc # "llm" => asked = <<>> /\ auth = 0 /\ ~open

\* Nothing in the tables comes from after the crawl that is running.
TimeInv ==
    /\ pc # "idle" => crawl = now
    /\ \A i \in ServerIds : v1.servers[i] # NoServer => v1.servers[i].crawl <= now
    /\ \A i \in ServerIds, p \in Parts : v1.parts[i][p] <= now
    /\ \A n \in v1.snapshots : n.crawl <= now

\* A server that was not checked has a goroutine, or waits for one, or the
\* context is cancelled.
Pending == todo \cup waiting \cup checking
CheckInv ==
    /\ pc = "verify" => \A s \in servers : s.check = "real" \/ s \in Pending \/ ctxDone
    /\ pc = "persist" => /\ todo \subseteq servers
                         /\ saving # NoSave => saving.srv \in servers
                         /\ \A s \in servers : s.check = "real" \/ ctxDone
    /\ StoredIsChecked

\* auth counts the authentication errors at the end of what was asked, and
\* there was no longer row of them before.
CircuitInv ==
    LET n == Len(asked) IN
    /\ auth <= n
    /\ \A j \in (n - auth + 1)..n : asked[j] = "auth"
    /\ auth < n => asked[n - auth] # "auth"
    /\ pc = "llm" => (open <=> auth >= AuthLimit)
    /\ \A k \in 1..n : AuthRun(k) => k + AuthLimit - 1 = n

\* What the save at hand has not left to do, it has done in this crawl.
Linked(t, i) == {l[1] : l \in t.links[i]}
SaveInv ==
    saving # NoSave =>
        LET s == saving.srv
            left == saving.left IN
        /\ RowFirst(left) /\ SnapshotLast(left)
        /\ \/ left[1].table = "mcp_servers"
           \/ v1.servers[s.id] # NoServer /\ v1.servers[s.id].crawl = crawl
        /\ \A p \in s.parts : Left(left, PartOf(p)) \/ v1.parts[s.id][p] = crawl
        /\ \A r \in s.refs : Left(left, LinkOf(r)) \/ r \in Linked(v1, s.id)

StoreInv == SaveInv /\ SnapshotsAreComplete /\ PartsFollowRows

\* After the duplicates are merged, ids tell servers apart, and each server has
\* at most one goroutine.
IdsDiffer == \A s, t \in servers : s.id = t.id => s = t
PendingInv ==
    /\ pc \in {"verify", "persist"} => IdsDiffer /\ IsFiniteSet(servers) /\ Pending \subseteq servers
    /\ pc = "verify" => todo \cap waiting = {} /\ todo \cap checking = {} /\ waiting \cap checking = {}
    /\ pc = "persist" /\ saving # NoSave => saving.srv \in servers \ todo

\* The crawl that is running has a row that says so, and each crawl that wrote a
\* snapshot has one.
RunsInv ==
    /\ pc # "idle" => crawl \in 1..MaxTime /\ crawlRuns[crawl].started /\ ~crawlRuns[crawl].finished
    /\ \A n \in v1.snapshots : n.crawl \in 1..MaxTime /\ crawlRuns[n.crawl].started

\* Each server is counted, or still to be saved, or being saved.
SnapshotsOf(t) == {n \in v1.snapshots : n.crawl = t}
InHand == IF saving = NoSave THEN 0 ELSE 1
CountInv ==
    /\ pc \in {"idle", "discover"} => run = ZeroRun
    /\ pc \notin {"idle", "discover"} => run["norm"] - run["dup"] = Cardinality(servers)
    /\ pc \notin {"idle", "persist"} =>
          run["verified"] = 0 /\ run["saveErrors"] = 0 /\ SnapshotsOf(crawl) = {}
    /\ pc = "persist" =>
          /\ IsFiniteSet(SnapshotsOf(crawl)) /\ run["verified"] = Cardinality(SnapshotsOf(crawl))
          /\ run["verified"] + run["saveErrors"] + Cardinality(todo) + InHand = Cardinality(servers)
          /\ \A n \in SnapshotsOf(crawl), s \in servers :
                n.id = s.id => s \notin todo /\ (saving # NoSave => s # saving.srv)
    /\ FinishedRunsAddUp

Inv == /\ TypeInv /\ PlaceInv /\ TimeInv /\ CheckInv /\ CircuitInv /\ StoreInv
       /\ PendingInv /\ RunsInv /\ CountInv

-----------------------------------------------------------------------------
(* Facts about the constants and the operators. *)

LEMMA CandidateFacts ==
    ASSUME NEW s \in Sources
    PROVE  /\ Len(Candidates[s]) \in Nat
           /\ \A k \in 1..Len(Candidates[s]) : Candidates[s][k] \in Candidate(s)
           /\ Candidate(s) \subseteq Records
<1>1. Candidates[s] \in Seq(Candidate(s))
  BY CrawlAssumption
<1>2. Len(Candidates[s]) \in Nat /\ \A k \in 1..Len(Candidates[s]) : Candidates[s][k] \in Candidate(s)
  BY <1>1, LenProperties DEF Candidate
<1>3. Candidate(s) \subseteq Records
  BY DEF Records
<1> QED BY <1>2, <1>3

LEMMA RecordFacts ==
    ASSUME NEW r \in Records
    PROVE  r.canon \in ServerIds /\ r.parts \subseteq Parts /\ r \in Refs /\ r.slug \in Slugs
BY CrawlAssumption DEF Slugs

LEMMA NormalizedFacts ==
    ASSUME NEW ok \in SUBSET Records, IsFiniteSet(ok)
    PROVE  /\ Normalized(ok) \subseteq ServerSet
           /\ IsFiniteSet(Normalized(ok))
           /\ Cardinality(Normalized(ok)) = Cardinality(ok)
           /\ \A s \in Normalized(ok) : s.check = "none" /\ s.id = s.rec.canon
<1> DEFINE Of(r) == [rec |-> r, id |-> r.canon, slug |-> r.slug, parts |-> r.parts,
                     refs |-> {r}, check |-> "none"]
           f == [r \in ok |-> Of(r)]
<1>1. \A r \in ok : Of(r) \in ServerSet
  BY RecordFacts DEF ServerSet, Checks
<1>2. Normalized(ok) = {Of(r) : r \in ok}
  BY DEF Normalized
<1>3. f \in [ok -> Normalized(ok)] /\ \A t \in Normalized(ok) : \E r \in ok : f[r] = t
  BY <1>2
<1>4. f \in Surjection(ok, Normalized(ok))
  BY <1>3 DEF Surjection
<1>5. \A a, b \in ok : f[a] = f[b] => a = b
  OBVIOUS
<1>6. f \in Injection(ok, Normalized(ok))
  BY <1>3, <1>5 DEF Injection, IsInjective
<1>7. IsFiniteSet(Normalized(ok)) /\ Cardinality(Normalized(ok)) = Cardinality(ok)
  BY <1>4, <1>6, FS_Surjection
<1> QED BY <1>1, <1>2, <1>7

LEMMA GroupFacts ==
    ASSUME ServersType, IsFiniteSet(servers)
    PROVE  /\ IsFiniteSet(Groups) /\ Removed \in Nat
           /\ Cardinality(servers) \in Nat /\ Cardinality(Groups) \in Nat
           /\ \A g \in Groups : g \subseteq servers
           /\ \A g \in Groups : \A s, t \in g : s.id = t.id
           /\ \A g, h \in Groups : \A s \in g, t \in h : s.id = t.id => g = h
<1> DEFINE Of(i) == {s \in servers : s.id = i}
           f == [t \in servers |-> Of(t.id)]
<1>1. Groups = {Of(i) : i \in {s.id : s \in servers}}
  BY DEF Groups
<1>2. f \in [servers -> Groups] /\ \A g \in Groups : \E t \in servers : f[t] = g
  BY <1>1
<1>3. f \in Surjection(servers, Groups)
  BY <1>2 DEF Surjection
<1>4. IsFiniteSet(Groups) /\ Cardinality(Groups) <= Cardinality(servers)
  BY <1>3, FS_Surjection
<1>5. Cardinality(servers) \in Nat /\ Cardinality(Groups) \in Nat
  BY <1>4, FS_CardinalityType
<1>6. Removed \in Nat
  BY <1>4, <1>5 DEF Removed
<1>7. \A g \in Groups : \E i : g = Of(i)
  BY <1>1
<1>8. \A g \in Groups : g \subseteq servers
  BY <1>7
<1>9. \A g \in Groups : \A s, t \in g : s.id = t.id
  BY <1>7
<1>10. \A g, h \in Groups : \A s \in g, t \in h : s.id = t.id => g = h
  <2> TAKE g, h \in Groups
  <2>1. \A s \in g : g = Of(s.id)
    BY <1>7
  <2>2. \A t \in h : h = Of(t.id)
    BY <1>7
  <2> QED BY <2>1, <2>2
<1> QED BY <1>4, <1>5, <1>6, <1>8, <1>9, <1>10

\* The survivors of a deduplication.
LEMMA MergeFacts ==
    ASSUME ServersType, NEW base \in [Groups -> servers],
           \A g \in Groups : IsSurvivor(base[g], g)
    PROVE  \A g \in Groups : /\ MergeGroup(base[g], g) \in ServerSet
                             /\ MergeGroup(base[g], g).id = base[g].id
                             /\ base[g] \in g
<1> TAKE g \in Groups
<1>1. base[g] \in ServerSet /\ g \subseteq ServerSet
  BY DEF ServersType, Groups
<1>2. UNION {s.parts : s \in g} \subseteq Parts /\ UNION {s.refs : s \in g} \subseteq Refs
  BY <1>1 DEF ServerSet
<1>3. MergeGroup(base[g], g) \in ServerSet /\ MergeGroup(base[g], g).id = base[g].id
  BY <1>1, <1>2 DEF MergeGroup, ServerSet
<1> QED BY <1>3 DEF IsSurvivor

LEMMA MergedFacts ==
    ASSUME ServersType, IsFiniteSet(servers), NEW base \in [Groups -> servers],
           \A g \in Groups : IsSurvivor(base[g], g),
           NEW merged, merged = {MergeGroup(base[g], g) : g \in Groups}
    PROVE  /\ IsFiniteSet(merged) /\ Cardinality(merged) = Cardinality(Groups)
           /\ \A s, t \in merged : s.id = t.id => s = t
<1> DEFINE f == [g \in Groups |-> MergeGroup(base[g], g)]
<1>1. \A g \in Groups : f[g].id = base[g].id /\ base[g] \in g
  BY MergeFacts
<1>2. \A g, h \in Groups : f[g].id = f[h].id => g = h
  BY <1>1, GroupFacts
<1>3. f \in [Groups -> merged] /\ \A t \in merged : \E g \in Groups : f[g] = t
  OBVIOUS
<1>4. f \in Surjection(Groups, merged)
  BY <1>3 DEF Surjection
<1> HIDE DEF f
<1>5. f \in Injection(Groups, merged)
  BY <1>2, <1>3 DEF Injection, IsInjective
<1>6. IsFiniteSet(Groups)
  BY GroupFacts
<1>7. IsFiniteSet(merged) /\ Cardinality(merged) = Cardinality(Groups)
  BY <1>4, <1>5, <1>6, FS_Surjection
<1>8. ASSUME NEW s \in merged, NEW t \in merged, s.id = t.id PROVE s = t
  <2>1. PICK g \in Groups : f[g] = s
    BY <1>3
  <2>2. PICK h \in Groups : f[h] = t
    BY <1>3
  <2>3. g = h
    BY <1>2, <1>8, <2>1, <2>2
  <2> QED BY <2>1, <2>2, <2>3
<1> QED BY <1>7, <1>8

RowOf(s, c) == [slug |-> s.slug, check |-> s.check, crawl |-> c]
SnapshotOf(s, c) == [id |-> s.id, crawl |-> c, parts |-> s.parts, refs |-> s.refs]

\* What one statement changes, table by table.
LEMMA ExecFacts ==
    ASSUME NEW s \in ServerSet, NEW st \in Statement, NEW c \in Nat, NEW t \in TablesSet,
           NEW u, u = ExecStatement(st, s, c, t)
    PROVE  /\ u \in TablesSet
           /\ u.servers = IF st.table = "mcp_servers"
                            THEN [t.servers EXCEPT ![s.id] = RowOf(s, c)] ELSE t.servers
           /\ u.parts = IF st.table = "parts"
                            THEN [t.parts EXCEPT ![s.id][st.key] = c] ELSE t.parts
           /\ \A i \in ServerIds : t.links[i] \subseteq u.links[i]
           /\ st.table = "server_sources" => st.key \in Linked(u, s.id)
           /\ u.snapshots = t.snapshots \cup
                  IF st.table = "server_snapshots" THEN {SnapshotOf(s, c)} ELSE {}
<1>1. /\ s.id \in ServerIds /\ s.slug \in Slugs /\ s.check \in Checks
      /\ s.parts \subseteq Parts /\ s.refs \subseteq Refs
  BY DEF ServerSet
<1>2. CASE st.table = "mcp_servers"
  <2>1. u = [t EXCEPT !.servers[s.id] = RowOf(s, c)]
    BY <1>2 DEF ExecStatement, RowOf
  <2>2. RowOf(s, c) \in StoredRow(Slugs)
    BY <1>1 DEF RowOf, StoredRow
  <2>3. /\ u.servers = [t.servers EXCEPT ![s.id] = RowOf(s, c)] /\ u.parts = t.parts
        /\ u.sources = t.sources /\ u.links = t.links /\ u.snapshots = t.snapshots
    BY <2>1 DEF TablesSet
  <2>4. u \in TablesSet
    BY <1>1, <2>1, <2>2 DEF TablesSet
  <2> QED BY <1>2, <2>3, <2>4
<1>3. CASE st.table = "parts"
  <2>1. u = [t EXCEPT !.parts[s.id][st.key] = c]
    BY <1>3 DEF ExecStatement
  <2>2. /\ u.parts = [t.parts EXCEPT ![s.id][st.key] = c] /\ u.servers = t.servers
        /\ u.sources = t.sources /\ u.links = t.links /\ u.snapshots = t.snapshots
    BY <2>1 DEF TablesSet
  <2> DEFINE f == [t.parts EXCEPT ![s.id][st.key] = c]
  <2>3. f \in [ServerIds -> [Parts -> Nat]]
    BY <1>1 DEF TablesSet
  <2>4. u = [t EXCEPT !.parts = f]
    BY <2>1 DEF TablesSet
  <2> HIDE DEF f
  <2>5. u \in TablesSet
    BY <2>3, <2>4 DEF TablesSet
  <2> QED BY <1>3, <2>2, <2>5
<1>4. CASE st.table = "sources"
  <2>1. u = [t EXCEPT !.sources[st.key] = @ + 1] /\ st.key \in Refs
    BY <1>4 DEF ExecStatement, Statement
  <2>2. /\ u.servers = t.servers /\ u.parts = t.parts /\ u.links = t.links
        /\ u.snapshots = t.snapshots
    BY <2>1 DEF TablesSet
  <2> DEFINE f == [t.sources EXCEPT ![st.key] = @ + 1]
  <2>3. f \in [Refs -> Nat]
    BY <2>1 DEF TablesSet
  <2>4. u = [t EXCEPT !.sources = f]
    BY <2>1 DEF TablesSet
  <2> HIDE DEF f
  <2>5. u \in TablesSet
    BY <2>3, <2>4 DEF TablesSet
  <2> QED BY <1>4, <2>2, <2>5
<1>5. CASE st.table = "server_sources"
  <2> DEFINE l == <<st.key, t.sources[st.key]>>
  <2>1. u = [t EXCEPT !.links[s.id] = @ \cup {l}] /\ st.key \in Refs
    BY <1>5 DEF ExecStatement, Statement
  <2>2. l \in Refs \X Nat
    BY <2>1 DEF TablesSet
  <2> HIDE DEF l
  <2>3. /\ u.servers = t.servers /\ u.parts = t.parts /\ u.snapshots = t.snapshots
        /\ u.links = [t.links EXCEPT ![s.id] = @ \cup {l}]
    BY <2>1 DEF TablesSet
  <2> DEFINE f == [t.links EXCEPT ![s.id] = @ \cup {l}]
  <2>7. f \in [ServerIds -> SUBSET (Refs \X Nat)]
    BY <1>1, <2>2 DEF TablesSet
  <2>8. u = [t EXCEPT !.links = f]
    BY <2>1 DEF TablesSet
  <2> HIDE DEF f
  <2>4. u \in TablesSet
    BY <2>7, <2>8 DEF TablesSet
  <2>5. l \in u.links[s.id] /\ \A i \in ServerIds : t.links[i] \subseteq u.links[i]
    BY <1>1, <2>3 DEF TablesSet
  <2>6. st.key \in Linked(u, s.id)
    BY <2>5 DEF Linked, l
  <2> QED BY <1>5, <2>3, <2>4, <2>5, <2>6
<1>6. CASE st.table = "history"
  <2>1. u = t
    BY <1>6 DEF ExecStatement
  <2> QED BY <1>6, <2>1
<1>7. CASE st.table = "server_snapshots"
  <2>1. u = [t EXCEPT !.snapshots = @ \cup {SnapshotOf(s, c)}]
    BY <1>7 DEF ExecStatement, SnapshotOf
  <2>2. SnapshotOf(s, c) \in Snapshot
    BY <1>1 DEF SnapshotOf, Snapshot
  <2>3. /\ u.servers = t.servers /\ u.parts = t.parts /\ u.links = t.links
        /\ u.snapshots = t.snapshots \cup {SnapshotOf(s, c)}
    BY <2>1 DEF TablesSet
  <2>4. u \in TablesSet
    BY <2>1, <2>2 DEF TablesSet
  <2> QED BY <1>7, <2>3, <2>4
<1> QED BY <1>2, <1>3, <1>4, <1>5, <1>6, <1>7 DEF Statement, Tables

-----------------------------------------------------------------------------
(* The types. *)

LEMMA TypesImplyTypeOK == TypeInv => TypeOK
<1> SUFFICES ASSUME TypeInv PROVE TypeOK
  OBVIOUS
<1>1. saving = NoSave \/ (saving.srv \in ServerSet /\ Len(saving.left) > 0)
  <2>1. CASE saving \in Save
    <3>1. saving.left \in Seq(Statement) /\ saving.left # <<>> /\ saving.srv \in ServerSet
      BY <2>1 DEF Save
    <3>2. Len(saving.left) \in Nat \ {0}
      BY <3>1, EmptySeq
    <3> QED BY <3>1, <3>2
  <2> QED BY <2>1 DEF TypeInv, SaveType
<1>2. TablesType(Slugs)
  BY DEF TypeInv, SaveType, TablesType, TablesSet
<1> QED BY <1>1, <1>2 DEF TypeInv, ClockType, GatherType, ServersType, LLMType, TypeOK

\* Ending a crawl, whatever else it does.
LEMMA ForgetType ==
    ASSUME TypeInv, Forget, v1' = v1
    PROVE  GatherType' /\ ServersType' /\ LLMType' /\ SaveType' /\ pc' = "idle" /\ crawl' = 0
           /\ run' = ZeroRun
<1>1. IsFiniteSet({})
  BY FS_EmptySet
<1>2. <<>> \in Seq(Outcomes)
  BY EmptySeq
<1> QED BY <1>1, <1>2 DEF Forget, TypeInv, GatherType, ServersType, LLMType, SaveType, NotStarted

LEMMA ClockFacts ==
    /\ ZeroRun \in [Counters -> Nat] /\ {0, 1} \subseteq Nat
    /\ \A sel \in SUBSET Sources :
          RunOf(sel) \in [started : BOOLEAN, finished : BOOLEAN, of : SUBSET Sources,
                          counts : [Counters -> Nat]]
BY DEF ZeroRun, RunOf

LEMMA TypeInit == Init => TypeInv
<1> SUFFICES ASSUME Init PROVE TypeInv
  OBVIOUS
<1>1. ClockType
  <2>1. NoRun \in [started : BOOLEAN, finished : BOOLEAN, of : SUBSET Sources, counts : [Counters -> Nat]]
    BY ClockFacts DEF NoRun, RunOf, ZeroRun
  <2>2. 1 \in 1..MaxTime /\ 0 \in 0..MaxTime
    BY CrawlAssumption
  <2> QED BY <2>1, <2>2, ClockFacts DEF Init, ClockType
<1>2. GatherType /\ ServersType /\ LLMType
  <2>1. IsFiniteSet({}) /\ <<>> \in Seq(Outcomes)
    BY FS_EmptySet, EmptySeq
  <2> QED BY <2>1 DEF Init, GatherType, ServersType, LLMType, NotStarted
<1>3. SaveType
  BY DEF Init, SaveType, EmptyTables, TablesSet
<1> QED BY <1>1, <1>2, <1>3 DEF TypeInv

LEMMA TypeNext ==
    ASSUME TypeInv, Next
    PROVE  TypeInv'
<1> USE DEF TypeInv
<1>1. CASE Tick \/ StartPeriodic \/ StopPeriodic \/ Signal
  <2>1. ClockType'
    <3>1. CASE Tick
      BY <3>1, CrawlAssumption DEF Tick, memory, ClockType
    <3>2. CASE StartPeriodic
      BY <3>2 DEF StartPeriodic, memory, ClockType
    <3>3. CASE StopPeriodic
      BY <3>3 DEF StopPeriodic, memory, ClockType
    <3>4. CASE Signal
      BY <3>4 DEF Signal, memory, ClockType
    <3> QED BY <1>1, <3>1, <3>2, <3>3, <3>4
  <2>2. UNCHANGED <<pc, memory, v1>>
    BY <1>1 DEF Tick, StartPeriodic, StopPeriodic, Signal
  <2> QED BY <2>1, <2>2 DEF memory, GatherType, ServersType, LLMType, SaveType
<1>2. ASSUME NEW sel \in SUBSET Sources, Begin(sel), UNCHANGED ctxDone,
             proc' \in {"down", "once", "periodic"}
      PROVE  TypeInv'
  <2>1. ClockType'
    BY <1>2, ClockFacts DEF Begin, ClockType
  <2>2. GatherType' /\ ServersType' /\ LLMType' /\ SaveType'
    BY <1>2 DEF Begin, GatherType, ServersType, LLMType, SaveType
  <2> QED BY <2>1, <2>2
<1>3. CASE RunAll
  BY <1>2, <1>3 DEF RunAll, ClockType
<1>4. CASE \E s \in Sources : RunIncremental(s)
  BY <1>2, <1>4 DEF RunIncremental
<1>5. ASSUME Return PROVE TypeInv'
  <2>1. Forget /\ v1' = v1 /\ ctxDone' \in BOOLEAN
    BY <1>5 DEF Return
  <2>2. ClockType'
    BY <1>5, <2>1, ForgetType, ClockFacts, CrawlAssumption DEF Return, ClockType
  <2> QED BY <2>1, <2>2, ForgetType
<1>6. CASE Crash \/ NormalizeCancelled
  <2>1. CASE Crash
    <3>1. Forget /\ v1' = v1
      BY <2>1 DEF Crash
    <3>2. ClockType'
      <4>1. pc' = "idle" /\ crawl' = 0 /\ run' \in [Counters -> Nat]
        BY <3>1, ForgetType, ClockFacts
      <4>2. proc' = "down" /\ ctxDone' = FALSE /\ UNCHANGED <<now, crawlRuns>>
        BY <2>1 DEF Crash
      <4>3. 0 \in 0..MaxTime
        BY CrawlAssumption
      <4> QED BY <4>1, <4>2, <4>3 DEF ClockType
    <3> QED BY <3>1, <3>2, ForgetType
  <2> QED BY <1>5, <1>6, <2>1 DEF NormalizeCancelled
<1>7. CASE Finish
  <2>1. CASE Forget /\ v1' = v1 /\ UNCHANGED <<now, ctxDone>> /\ proc' = (IF proc = "once" THEN "down" ELSE proc)
             /\ crawlRuns' = [crawlRuns EXCEPT ![crawl] = [@ EXCEPT !.finished = TRUE, !.counts = run]]
    <3>1. crawlRuns' \in [1..MaxTime -> [started : BOOLEAN, finished : BOOLEAN, of : SUBSET Sources,
                                         counts : [Counters -> Nat]]]
      BY <2>1 DEF ClockType
    <3>2. pc' = "idle" /\ crawl' = 0 /\ run' \in [Counters -> Nat]
      BY <2>1, ForgetType, ClockFacts
    <3>3. ClockType'
      BY <2>1, <3>1, <3>2, CrawlAssumption DEF ClockType
    <3> QED BY <2>1, <3>3, ForgetType
  <2> QED BY <1>5, <1>7, <2>1 DEF Finish
<1>8. ASSUME NEW s \in Sources, DiscoverStart(s) \/ Launch(s) \/ DiscoverEnd(s)
      PROVE  TypeInv'
  <2>1. CASE DiscoverStart(s) \/ DiscoverEnd(s)
    <3>1. discover' \in [Sources -> [next : Nat, over : BOOLEAN]]
      <4>1. \/ discover' = [discover EXCEPT ![s].next = 2]
            \/ discover' = [discover EXCEPT ![s].over = TRUE]
        BY <2>1 DEF DiscoverStart, DiscoverEnd
      <4>2. discover \in [Sources -> [next : Nat, over : BOOLEAN]]
        BY DEF GatherType
      <4>3. [discover EXCEPT ![s].next = 2] \in [Sources -> [next : Nat, over : BOOLEAN]]
        BY <4>2
      <4>4. [discover EXCEPT ![s].over = TRUE] \in [Sources -> [next : Nat, over : BOOLEAN]]
        BY <4>2
      <4> QED BY <4>1, <4>3, <4>4
    <3> QED BY <2>1, <3>1 DEF DiscoverStart, DiscoverEnd, ClockType, GatherType, ServersType, LLMType, SaveType
  <2>2. CASE Launch(s)
    <3> DEFINE k == discover[s].next - 1
    <3>1. k \in 1..Len(Candidates[s])
      BY <2>2, CandidateFacts, CrawlAssumption DEF Launch, Considered, GatherType
    <3>2. Candidates[s][k] \in Records
      BY <3>1, CandidateFacts
    <3>3. GatherType'
      BY <2>2, <3>2 DEF Launch, GatherType
    <3> QED BY <2>2, <3>3 DEF Launch, ClockType, ServersType, LLMType, SaveType
  <2> QED BY <1>8, <2>1, <2>2
<1>9. ASSUME NEW r \in fetching, Fetch(r) PROVE TypeInv'
  <2>1. IsFiniteSet(got \cup {r}) /\ got \cup {r} \subseteq Records
    BY FS_AddElement DEF GatherType
  <2>2. GatherType'
    BY <1>9, <2>1 DEF Fetch, GatherType
  <2> QED BY <1>9, <2>2 DEF Fetch, ClockType, ServersType, LLMType, SaveType
<1>10. CASE RunNormalize
  <2>1. PICK ok \in SUBSET got : servers' = Normalized(ok) /\ Count("norm", Cardinality(ok))
    BY <1>10 DEF RunNormalize
  <2>2. IsFiniteSet(ok) /\ ok \in SUBSET Records
    BY FS_Subset DEF GatherType
  <2>3. servers' \subseteq ServerSet /\ IsFiniteSet(servers') /\ Cardinality(ok) \in Nat
    BY <2>1, <2>2, NormalizedFacts, FS_CardinalityType
  <2>4. ClockType'
    BY <1>10, <2>1, <2>3 DEF RunNormalize, Count, ClockType, Counters
  <2>5. GatherType'
    BY <1>10, FS_EmptySet DEF RunNormalize, GatherType, NotStarted
  <2>6. ServersType'
    BY <1>10, <2>3 DEF RunNormalize, ServersType
  <2> QED BY <1>10, <2>4, <2>5, <2>6 DEF RunNormalize, LLMType, SaveType
<1>11. CASE AskLLM
  <2>1. PICK s \in todo, answers \in [1..LLMModels -> ModelAnswers] :
           \E outcome \in Classify(answers) :
             asked' = Append(asked, outcome) /\ auth' = AuthAfter(outcome)
             /\ open' = (AuthAfter(outcome) >= AuthLimit) /\ todo' = todo \ {s}
    BY <1>11 DEF AskLLM
  <2>2. Classify(answers) \subseteq Outcomes
    BY DEF Classify, Outcomes
  <2>3. LLMType'
    BY <2>1, <2>2, AppendProperties DEF LLMType, AuthAfter
  <2> QED BY <1>11, <2>1, <2>3 DEF AskLLM, ClockType, GatherType, ServersType, SaveType
<1>12. CASE Deduplicate
  <2>1. PICK base \in [Groups -> servers] :
           (\A g \in Groups : IsSurvivor(base[g], g)) /\ servers' = {MergeGroup(base[g], g) : g \in Groups}
    BY <1>12 DEF Deduplicate
  <2>2. servers' \subseteq ServerSet
    BY <2>1, MergeFacts
  <2>3. Removed \in Nat
    BY <1>12, GroupFacts DEF Deduplicate, ServersType
  <2>4. ClockType'
    BY <1>12, <2>3 DEF Deduplicate, Count, ClockType, Counters
  <2>5. LLMType'
    BY <1>12, EmptySeq DEF Deduplicate, LLMType
  <2> QED BY <1>12, <2>2, <2>4, <2>5 DEF Deduplicate, GatherType, ServersType, SaveType
<1>13. CASE LaunchCheck \/ StopLaunching \/ VerifyEnd
  BY <1>13 DEF LaunchCheck, StopLaunching, VerifyEnd, ClockType, GatherType, ServersType, LLMType, SaveType
<1>14. ASSUME NEW s \in waiting, EnterCheck(s) \/ GiveUpCheck(s) PROVE TypeInv'
  BY <1>14 DEF EnterCheck, GiveUpCheck, ClockType, GatherType, ServersType, LLMType, SaveType
<1>15. ASSUME NEW s \in checking, EndCheck(s) PROVE TypeInv'
  <2>1. \A c \in {"real", "cut"} : [s EXCEPT !.check = c] \in ServerSet
    BY DEF ServersType, ServerSet, Checks
  <2>2. \A t : IsFiniteSet(servers) => IsFiniteSet((servers \ {s}) \cup {t})
    BY FS_AddElement, FS_RemoveElement
  <2> QED BY <1>15, <2>1, <2>2 DEF EndCheck, ClockType, GatherType, ServersType, LLMType, SaveType
<1>16. CASE SaveBegin
  <2>1. PICK s \in todo : todo' = todo \ {s} /\ saving' = [srv |-> s, left |-> SaveStatements(s)]
    BY <1>16 DEF SaveBegin
  <2>2. s \in ServerSet /\ s.parts \subseteq Parts /\ s.refs \subseteq Refs
    BY <2>1 DEF ServersType, ServerSet
  <2>3. SaveStatements(s) \in Seq(Statement) \ {<<>>}
    BY <2>2, SaveStatementsAreOrdered, EmptySeq
  <2>4. saving' \in Save
    BY <2>1, <2>2, <2>3 DEF Save
  <2> QED BY <1>16, <2>1, <2>4 DEF SaveBegin, ClockType, GatherType, ServersType, LLMType, SaveType
<1>17. CASE SaveStatement
  <2>1. saving \in Save /\ saving.left \in Seq(Statement) /\ saving.left # <<>> /\ saving.srv \in ServerSet
    BY <1>17 DEF SaveStatement, SaveType, Save
  <2>2. /\ Head(saving.left) \in Statement /\ Tail(saving.left) \in Seq(Statement)
        /\ Len(saving.left) \in Nat \ {0} /\ Len(Tail(saving.left)) = Len(saving.left) - 1
    BY <2>1, HeadTailProperties, EmptySeq
  <2>3. v1' = ExecStatement(Head(saving.left), saving.srv, crawl, v1)
    BY <1>17 DEF SaveStatement
  <2>4. v1' \in TablesSet
    <3>1. crawl \in Nat
      BY DEF ClockType
    <3> QED BY <2>1, <2>2, <2>3, <3>1, ExecFacts DEF SaveType
  <2>5. CASE Len(saving.left) = 1
    <3>1. saving' = NoSave /\ Count("verified", 1)
      BY <1>17, <2>5 DEF SaveStatement
    <3>2. run' \in [Counters -> Nat]
      BY <3>1 DEF Count, ClockType, Counters
    <3> QED BY <1>17, <2>4, <3>1, <3>2 DEF SaveStatement, ClockType, GatherType, ServersType, LLMType, SaveType
  <2>6. CASE Len(saving.left) # 1
    <3>1. saving' = [saving EXCEPT !.left = Tail(@)] /\ run' = run
      BY <1>17, <2>6 DEF SaveStatement
    <3>2. Tail(saving.left) # <<>>
      <4>1. Len(Tail(saving.left)) # 0
        BY <2>2, <2>6
      <4> QED BY <4>1, <2>2, EmptySeq
    <3>3. saving' \in Save
      BY <2>1, <2>2, <3>1, <3>2 DEF Save
    <3> QED BY <1>17, <2>4, <3>1, <3>3 DEF SaveStatement, ClockType, GatherType, ServersType, LLMType, SaveType
  <2> QED BY <2>5, <2>6
<1>18. CASE SaveFails
  BY <1>18 DEF SaveFails, Count, Counters, ClockType, GatherType, ServersType, LLMType, SaveType
<1> QED BY <1>1, <1>3, <1>4, <1>6, <1>7, <1>8, <1>9, <1>10, <1>11, <1>12, <1>13, <1>14, <1>15,
           <1>16, <1>17, <1>18 DEF Next, CrawlStep

-----------------------------------------------------------------------------
(* What the steps do, sorted by what they can disturb. *)

\* Nothing of the crawl changes; the context may be cancelled, and outside of a
\* crawl also renewed.
Outside ==
    /\ UNCHANGED <<pc, crawl, run, discover, fetching, got, servers, todo, auth, open, waiting,
                   checking, saving, asked, crawlRuns, v1>>
    /\ ctxDone => ctxDone' \/ pc = "idle"
    /\ now' = now \/ (pc = "idle" /\ now' = now + 1)
Begun == /\ pc = "idle" /\ ~crawlRuns[now].started /\ ctxDone' = ctxDone
         /\ \E sel \in SUBSET Sources : Begin(sel)
Filed == /\ pc = "persist" /\ todo = {} /\ saving = NoSave
         /\ crawlRuns' = [crawlRuns EXCEPT ![crawl] = [@ EXCEPT !.finished = TRUE, !.counts = run]]
Ended == Forget /\ UNCHANGED <<now, v1>> /\ (crawlRuns' = crawlRuns \/ Filed)
Fetches == /\ UNCHANGED <<now, ctxDone, pc, crawl, run, servers, todo, auth, open, waiting, checking,
                          saving, asked, crawlRuns, v1>>
           /\ pc = "discover" \/ fetching' \subseteq fetching
CheckMoves == LaunchCheck \/ StopLaunching \/ \E s \in waiting : EnterCheck(s) \/ GiveUpCheck(s)

LEMMA StepKinds ==
    ASSUME Next
    PROVE  \/ Outside \/ Begun \/ Ended \/ Fetches \/ RunNormalize \/ AskLLM \/ Deduplicate
           \/ CheckMoves \/ (\E s \in checking : EndCheck(s)) \/ VerifyEnd
           \/ SaveBegin \/ SaveStatement \/ SaveFails
<1>1. CASE Tick \/ StartPeriodic \/ StopPeriodic \/ Signal
  <2>1. CASE Tick
    BY <2>1 DEF Tick, memory, Outside
  <2>2. CASE StartPeriodic
    BY <2>2 DEF StartPeriodic, memory, Outside
  <2>3. CASE StopPeriodic
    BY <2>3 DEF StopPeriodic, memory, Outside
  <2>4. CASE Signal
    BY <2>4 DEF Signal, memory, Outside
  <2> QED BY <1>1, <2>1, <2>2, <2>3, <2>4
<1>2. CASE RunAll \/ \E s \in Sources : RunIncremental(s)
  BY <1>2 DEF RunAll, RunIncremental, Begun
<1>3. CASE Crash \/ NormalizeCancelled \/ Finish
  BY <1>3 DEF Crash, NormalizeCancelled, Finish, Return, Ended, Filed
<1>4. CASE \E s \in Sources : DiscoverStart(s) \/ Launch(s) \/ DiscoverEnd(s)
  BY <1>4 DEF DiscoverStart, Launch, DiscoverEnd, Discovering, Fetches
<1>5. CASE \E r \in fetching : Fetch(r)
  BY <1>5 DEF Fetch, Fetches
<1> QED BY <1>1, <1>2, <1>3, <1>4, <1>5 DEF Next, CrawlStep, CheckMoves

LEMMA PlaceNext ==
    ASSUME TypeInv, PlaceInv, Next
    PROVE  PlaceInv'
<1> USE DEF PlaceInv
<1>1. CASE Outside
  BY <1>1 DEF Outside
<1>2. CASE Begun
  BY <1>2 DEF Begun, Begin
<1>3. CASE Ended
  BY <1>3 DEF Ended, Forget
<1>4. CASE Fetches
  BY <1>4 DEF Fetches
<1>5. CASE RunNormalize
  BY <1>5 DEF RunNormalize, AllFetched
<1>6. CASE AskLLM
  BY <1>6 DEF AskLLM
<1>7. CASE Deduplicate
  BY <1>7 DEF Deduplicate
<1>8. CASE CheckMoves
  BY <1>8 DEF CheckMoves, LaunchCheck, StopLaunching, EnterCheck, GiveUpCheck
<1>9. CASE \E s \in checking : EndCheck(s)
  BY <1>9 DEF EndCheck
<1>10. CASE VerifyEnd
  BY <1>10 DEF VerifyEnd
<1>11. CASE SaveBegin
  BY <1>11 DEF SaveBegin
<1>12. CASE SaveStatement
  BY <1>12 DEF SaveStatement
<1>13. CASE SaveFails
  BY <1>13 DEF SaveFails
<1> QED BY <1>1, <1>2, <1>3, <1>4, <1>5, <1>6, <1>7, <1>8, <1>9, <1>10, <1>11, <1>12, <1>13, StepKinds

-----------------------------------------------------------------------------
(* The circuit of the LLM stage. *)

LEMMA CircuitEmpty == asked = <<>> /\ auth = 0 /\ ~open => CircuitInv
<1> SUFFICES ASSUME asked = <<>>, auth = 0, ~open PROVE CircuitInv
  OBVIOUS
<1>1. Len(asked) = 0
  BY EmptySeq
<1> QED BY <1>1, CrawlAssumption DEF CircuitInv

LEMMA CircuitIsKept ==
    ASSUME CircuitInv, UNCHANGED <<asked, auth, open>>, pc' = "llm" => pc = "llm"
    PROVE  CircuitInv'
BY DEF CircuitInv, AuthRun

LEMMA CircuitAsk ==
    ASSUME TypeInv, CircuitInv, AskLLM
    PROVE  CircuitInv'
<1> DEFINE n == Len(asked)
           L == AuthLimit
<1>1. PICK outcome \in Outcomes :
         asked' = Append(asked, outcome) /\ auth' = AuthAfter(outcome)
         /\ open' = (AuthAfter(outcome) >= AuthLimit)
  <2>1. \A answers \in [1..LLMModels -> ModelAnswers] : Classify(answers) \subseteq Outcomes
    BY DEF Classify, Outcomes
  <2> QED BY <2>1 DEF AskLLM
<1>2. asked \in Seq(Outcomes) /\ n \in Nat /\ auth \in Nat /\ L \in Nat \ {0}
  BY LenProperties, CrawlAssumption DEF TypeInv, LLMType
<1>3. Len(asked') = n + 1 /\ asked'[n + 1] = outcome /\ \A j \in 1..n : asked'[j] = asked[j]
  BY <1>1, <1>2, AppendProperties
<1>4. /\ auth <= n /\ \A j \in (n - auth + 1)..n : asked[j] = "auth"
      /\ auth < n => asked[n - auth] # "auth"
      /\ ~(auth >= L)
      /\ \A k \in 1..n : AuthRun(k) => k + L - 1 = n
  BY DEF CircuitInv, AskLLM
<1>5. auth' = IF outcome = "auth" THEN auth + 1 ELSE 0
  BY <1>1 DEF AuthAfter
<1>6. /\ auth' <= n + 1
      /\ \A j \in (n + 1 - auth' + 1)..(n + 1) : asked'[j] = "auth"
      /\ auth' < n + 1 => asked'[n + 1 - auth'] # "auth"
  <2>1. CASE outcome = "auth"
    <3>1. auth' = auth + 1
      BY <1>5, <2>1
    <3>2. \A j \in (n + 1 - auth' + 1)..(n + 1) : j = n + 1 \/ j \in (n - auth + 1)..n
      BY <1>2, <3>1
    <3>3. \A j \in (n - auth + 1)..n : asked'[j] = "auth"
      BY <1>2, <1>3, <1>4
    <3>4. auth' < n + 1 => n + 1 - auth' = n - auth /\ n - auth \in 1..n /\ auth < n
      BY <1>2, <1>4, <3>1
    <3> QED BY <1>2, <1>3, <1>4, <2>1, <3>1, <3>2, <3>3, <3>4
  <2>2. CASE outcome # "auth"
    BY <1>2, <1>3, <1>5, <2>2
  <2> QED BY <2>1, <2>2
<1>7. ASSUME NEW k \in 1..(n + 1), AuthRun(k)'
      PROVE  k + L - 1 = n + 1
  <2>1. k + L - 1 <= n + 1 /\ \A j \in k..(k + L - 1) : asked'[j] = "auth"
    BY <1>3, <1>7 DEF AuthRun
  <2>2. SUFFICES ASSUME k + L - 1 <= n PROVE FALSE
    BY <1>2, <2>1
  <2>3. k \in 1..n /\ \A j \in k..(k + L - 1) : j \in 1..n /\ asked[j] = "auth"
    BY <1>2, <1>3, <2>1, <2>2
  <2>4. k + L - 1 = n
    BY <1>4, <2>2, <2>3 DEF AuthRun
  <2>5. auth < n /\ n - auth \in k..(k + L - 1)
    BY <1>2, <1>4, <2>3, <2>4
  <2> QED BY <1>4, <2>3, <2>5
<1>8. open' <=> auth' >= AuthLimit
  BY <1>1
<1> HIDE DEF n
<1>9. \A k \in 1..Len(asked') : AuthRun(k)' => k + AuthLimit - 1 = Len(asked')
  BY <1>3, <1>7
<1>10. /\ auth' <= Len(asked')
       /\ \A j \in (Len(asked') - auth' + 1)..Len(asked') : asked'[j] = "auth"
       /\ auth' < Len(asked') => asked'[Len(asked') - auth'] # "auth"
  <2>1. auth' \in Nat
    BY <1>2, <1>5
  <2>2. Len(asked') = n + 1
    BY <1>3
  <2>3. Len(asked') - auth' + 1 = n + 1 - auth' + 1 /\ Len(asked') - auth' = n + 1 - auth'
    BY <1>2, <2>1, <2>2
  <2>4. auth' <= Len(asked')
    BY <1>6, <2>2
  <2>5. \A j \in (Len(asked') - auth' + 1)..Len(asked') : asked'[j] = "auth"
    BY <1>6, <2>2, <2>3
  <2>6. auth' < Len(asked') => asked'[Len(asked') - auth'] # "auth"
    BY <1>6, <2>2, <2>3
  <2> QED BY <2>4, <2>5, <2>6
<1> QED BY <1>8, <1>9, <1>10 DEF CircuitInv

LEMMA CircuitNext ==
    ASSUME TypeInv, PlaceInv, CircuitInv, Next
    PROVE  CircuitInv'
<1>1. CASE AskLLM
  BY <1>1, CircuitAsk
<1>2. ASSUME asked' = <<>>, auth' = 0, ~open' PROVE CircuitInv'
  <2>1. Len(asked') = 0
    BY <1>2, EmptySeq
  <2> QED BY <1>2, <2>1, CrawlAssumption DEF CircuitInv
<1>3. CASE Begun \/ Ended \/ RunNormalize \/ Deduplicate
  BY <1>2, <1>3 DEF Begun, Begin, Ended, Forget, RunNormalize, Deduplicate, PlaceInv
<1>4. CASE Outside \/ Fetches
  BY <1>4, CircuitIsKept DEF Outside, Fetches
<1>5. CASE CheckMoves \/ (\E s \in checking : EndCheck(s)) \/ VerifyEnd
  BY <1>5, CircuitIsKept DEF CheckMoves, LaunchCheck, StopLaunching, EnterCheck, GiveUpCheck, EndCheck, VerifyEnd
<1>6. CASE SaveBegin \/ SaveStatement \/ SaveFails
  BY <1>6, CircuitIsKept DEF SaveBegin, SaveStatement, SaveFails
<1> QED BY <1>1, <1>3, <1>4, <1>5, <1>6, StepKinds

\* The circuit is open exactly when the last AuthLimit answers were
\* authentication errors.
LEMMA CircuitInvImplies == TypeInv /\ CircuitInv => CircuitIsExact
<1> SUFFICES ASSUME TypeInv, CircuitInv, pc = "llm"
             PROVE  /\ open <=> \E k \in 1..Len(asked) : AuthRun(k)
                    /\ \A k \in 1..Len(asked) : AuthRun(k) => k + AuthLimit - 1 = Len(asked)
  BY DEF CircuitIsExact
<1> DEFINE n == Len(asked)
<1>1. n \in Nat /\ auth \in Nat /\ AuthLimit \in Nat \ {0}
  BY LenProperties, CrawlAssumption DEF TypeInv, LLMType
<1>2. /\ auth <= n /\ \A j \in (n - auth + 1)..n : asked[j] = "auth"
      /\ auth < n => asked[n - auth] # "auth"
      /\ open <=> auth >= AuthLimit
      /\ \A k \in 1..n : AuthRun(k) => k + AuthLimit - 1 = n
  BY DEF CircuitInv
<1>3. ASSUME open PROVE \E k \in 1..n : AuthRun(k)
  <2> DEFINE k == n - AuthLimit + 1
  <2>1. k \in 1..n /\ k + AuthLimit - 1 = n
    BY <1>1, <1>2, <1>3
  <2>2. \A j \in k..n : j \in (n - auth + 1)..n
    BY <1>1, <1>2, <1>3
  <2>3. AuthRun(k)
    BY <1>2, <2>1, <2>2 DEF AuthRun
  <2> QED BY <2>1, <2>3
<1>4. ASSUME NEW k \in 1..n, AuthRun(k) PROVE open
  <2>1. k + AuthLimit - 1 = n /\ \A j \in k..n : asked[j] = "auth"
    BY <1>2, <1>4 DEF AuthRun
  <2>2. SUFFICES ASSUME auth < AuthLimit PROVE FALSE
    BY <1>1, <1>2
  <2>3. n - auth \in k..n /\ auth < n
    BY <1>1, <2>1, <2>2
  <2> QED BY <1>2, <2>1, <2>3
<1> QED BY <1>2, <1>3, <1>4

-----------------------------------------------------------------------------
(* The checks: nothing is stored that was not checked. *)

\* What one statement of the save at hand does to the tables.
LEMMA StatementFacts ==
    ASSUME TypeInv, PlaceInv, SaveStatement
    PROVE  LET s == saving.srv
               left == saving.left
               st == left[1] IN
           /\ pc = "persist" /\ ~ctxDone /\ saving # NoSave
           /\ s \in ServerSet /\ s.id \in ServerIds /\ left \in Seq(Statement) /\ left # <<>>
           /\ st \in Statement /\ Len(left) \in Nat \ {0}
           /\ v1' \in TablesSet
           /\ v1'.servers = IF st.table = "mcp_servers"
                              THEN [v1.servers EXCEPT ![s.id] = RowOf(s, crawl)] ELSE v1.servers
           /\ v1'.parts = IF st.table = "parts"
                            THEN [v1.parts EXCEPT ![s.id][st.key] = crawl] ELSE v1.parts
           /\ \A i \in ServerIds : v1.links[i] \subseteq v1'.links[i]
           /\ st.table = "server_sources" => st.key \in Linked(v1', s.id)
           /\ v1'.snapshots = v1.snapshots \cup
                  IF st.table = "server_snapshots" THEN {SnapshotOf(s, crawl)} ELSE {}
           /\ RowOf(s, crawl) # NoServer
<1>1. pc = "persist" /\ ~ctxDone /\ saving # NoSave
  BY DEF SaveStatement, PlaceInv, CanExec
<1>2. /\ saving.srv \in ServerSet /\ saving.left \in Seq(Statement) /\ saving.left # <<>>
      /\ saving.srv.id \in ServerIds
  BY <1>1 DEF TypeInv, SaveType, Save, ServerSet
<1>3. /\ Head(saving.left) = saving.left[1] /\ Head(saving.left) \in Statement
      /\ Len(saving.left) \in Nat \ {0}
  BY <1>2, HeadTailProperties, EmptySeq
<1>4. v1' = ExecStatement(saving.left[1], saving.srv, crawl, v1)
  BY <1>3 DEF SaveStatement
<1>5. v1 \in TablesSet /\ crawl \in Nat
  BY DEF TypeInv, SaveType, ClockType
<1>6. RowOf(saving.srv, crawl) # NoServer
  <2>1. RowOf(saving.srv, crawl) \in StoredRow(Slugs)
    BY <1>2, <1>5 DEF RowOf, StoredRow, ServerSet
  <2> QED BY <2>1, CrawlAssumption
<1> DEFINE s == saving.srv
           st == saving.left[1]
<1>7. s \in ServerSet /\ st \in Statement /\ v1' = ExecStatement(st, s, crawl, v1)
  BY <1>2, <1>3, <1>4
<1> HIDE DEF s, st
<1>8. /\ v1' \in TablesSet
      /\ v1'.servers = IF st.table = "mcp_servers"
                         THEN [v1.servers EXCEPT ![s.id] = RowOf(s, crawl)] ELSE v1.servers
      /\ v1'.parts = IF st.table = "parts"
                       THEN [v1.parts EXCEPT ![s.id][st.key] = crawl] ELSE v1.parts
      /\ \A i \in ServerIds : v1.links[i] \subseteq v1'.links[i]
      /\ st.table = "server_sources" => st.key \in Linked(v1', s.id)
      /\ v1'.snapshots = v1.snapshots \cup
             IF st.table = "server_snapshots" THEN {SnapshotOf(s, crawl)} ELSE {}
  BY <1>5, <1>7, ExecFacts
<1> QED BY <1>1, <1>2, <1>3, <1>6, <1>8 DEF s, st

LEMMA CheckNext ==
    ASSUME TypeInv, PlaceInv, CheckInv, Next
    PROVE  CheckInv'
<1>1. CASE Outside
  BY <1>1 DEF Outside, CheckInv, Pending, StoredIsChecked
<1>2. CASE Begun \/ Ended
  BY <1>2 DEF Begun, Begin, Ended, Forget, CheckInv, StoredIsChecked
<1>3. CASE Fetches
  BY <1>3 DEF Fetches, CheckInv, Pending, StoredIsChecked
<1>4. CASE RunNormalize \/ AskLLM
  BY <1>4 DEF RunNormalize, AskLLM, CheckInv, StoredIsChecked
<1>5. CASE Deduplicate
  BY <1>5 DEF Deduplicate, CheckInv, Pending, StoredIsChecked
<1>6. CASE CheckMoves
  <2>1. /\ pc = "verify" /\ UNCHANGED <<pc, ctxDone, servers, v1>>
        /\ \A s \in Pending : s \in Pending' \/ ctxDone
    <3>1. CASE LaunchCheck
      BY <3>1 DEF LaunchCheck, Pending
    <3>2. CASE StopLaunching
      BY <3>2 DEF StopLaunching, Pending
    <3>3. CASE \E s \in waiting : EnterCheck(s)
      BY <3>3 DEF EnterCheck, Pending, PlaceInv
    <3>4. CASE \E s \in waiting : GiveUpCheck(s)
      BY <3>4 DEF GiveUpCheck, Pending, PlaceInv
    <3> QED BY <1>6, <3>1, <3>2, <3>3, <3>4 DEF CheckMoves
  <2> QED BY <2>1 DEF CheckInv, StoredIsChecked
<1>7. CASE \E s \in checking : EndCheck(s)
  <2>1. PICK s \in checking, c \in {"real", "cut"} :
           /\ c = "cut" => ctxDone
           /\ servers' = (servers \ {s}) \cup {[s EXCEPT !.check = c]}
           /\ checking' = checking \ {s}
           /\ UNCHANGED <<pc, ctxDone, todo, waiting, v1>>
    BY <1>7 DEF EndCheck
  <2>2. pc = "verify"
    BY <2>1 DEF PlaceInv
  <2>3. s \in ServerSet
    BY <2>1 DEF TypeInv, ServersType
  <2>4. [s EXCEPT !.check = c].check = c
    BY <2>3 DEF ServerSet
  <2>5. \A t \in servers' : t.check = "real" \/ t \in Pending' \/ ctxDone'
    BY <2>1, <2>2, <2>4 DEF CheckInv, Pending
  <2> QED BY <2>1, <2>2, <2>5 DEF CheckInv, StoredIsChecked
<1>8. CASE VerifyEnd
  BY <1>8 DEF VerifyEnd, CheckInv, Pending, PlaceInv, StoredIsChecked
<1>9. CASE SaveBegin
  <2>1. PICK s \in todo : todo' = todo \ {s} /\ saving' = [srv |-> s, left |-> SaveStatements(s)]
    BY <1>9 DEF SaveBegin
  <2>2. saving'.srv = s
    BY <2>1
  <2> QED BY <1>9, <2>1, <2>2 DEF SaveBegin, CheckInv, StoredIsChecked
<1>10. CASE SaveStatement
  <2>1. /\ UNCHANGED <<pc, ctxDone, servers, todo>> /\ pc = "persist" /\ ~ctxDone /\ saving # NoSave
        /\ saving' = NoSave \/ saving' = [saving EXCEPT !.left = Tail(@)]
    BY <1>10, StatementFacts DEF SaveStatement
  <2>2. saving' # NoSave => saving'.srv = saving.srv
    BY <2>1 DEF TypeInv, SaveType, Save
  <2>3. saving.srv \in servers /\ saving.srv.check = "real"
    BY <2>1 DEF CheckInv
  <2>4. StoredIsChecked'
    <3>1. ASSUME NEW i \in ServerIds, v1'.servers[i] # NoServer PROVE v1'.servers[i].check = "real"
      <4>1. v1'.servers[i] = v1.servers[i] \/ v1'.servers[i] = RowOf(saving.srv, crawl)
        BY <1>10, StatementFacts DEF TypeInv, SaveType, TablesSet
      <4>2. RowOf(saving.srv, crawl).check = "real"
        BY <2>3 DEF RowOf
      <4> QED BY <3>1, <4>1, <4>2 DEF CheckInv, StoredIsChecked
    <3> QED BY <3>1 DEF StoredIsChecked
  <2> QED BY <2>1, <2>2, <2>3, <2>4 DEF CheckInv
<1>11. CASE SaveFails
  BY <1>11 DEF SaveFails, CheckInv, PlaceInv, StoredIsChecked
<1> QED BY <1>1, <1>2, <1>3, <1>4, <1>5, <1>6, <1>7, <1>8, <1>9, <1>10, <1>11, StepKinds

-----------------------------------------------------------------------------
(* The tables. *)

LEMMA TimeNext ==
    ASSUME TypeInv, PlaceInv, TimeInv, Next
    PROVE  TimeInv'
<1>1. now \in Nat /\ v1 \in TablesSet
  BY DEF TypeInv, ClockType, SaveType
<1>2. ASSUME UNCHANGED v1, now' = now \/ now' = now + 1, pc' # "idle" => crawl' = now'
      PROVE  TimeInv'
  <2>1. \A m \in Nat : m <= now => m <= now'
    BY <1>1, <1>2
  <2>2. /\ \A i \in ServerIds : v1.servers[i] # NoServer => v1.servers[i].crawl \in Nat
        /\ \A i \in ServerIds, p \in Parts : v1.parts[i][p] \in Nat
        /\ \A n \in v1.snapshots : n.crawl \in Nat
    BY <1>1 DEF TablesSet, StoredRow, Snapshot
  <2> QED BY <1>2, <2>1, <2>2 DEF TimeInv
<1>3. CASE Outside \/ Begun \/ Ended \/ Fetches
  BY <1>2, <1>3 DEF Outside, Begun, Begin, Ended, Forget, Fetches, TimeInv
<1>4. CASE RunNormalize \/ AskLLM \/ Deduplicate \/ VerifyEnd \/ SaveBegin
  BY <1>2, <1>4 DEF RunNormalize, AskLLM, Deduplicate, VerifyEnd, SaveBegin, TimeInv
<1>5. CASE CheckMoves \/ (\E s \in checking : EndCheck(s)) \/ SaveFails
  BY <1>2, <1>5 DEF CheckMoves, LaunchCheck, StopLaunching, EnterCheck, GiveUpCheck, EndCheck, SaveFails, TimeInv
<1>6. CASE SaveStatement
  <2>1. UNCHANGED <<now, crawl, pc>> /\ pc = "persist" /\ crawl = now
    BY <1>6, StatementFacts DEF SaveStatement, TimeInv
  <2>2. \A i \in ServerIds : v1'.servers[i] # NoServer => v1'.servers[i].crawl <= now
    <3>1. \A i \in ServerIds :
             v1'.servers[i] = v1.servers[i] \/ v1'.servers[i] = RowOf(saving.srv, crawl)
      BY <1>1, <1>6, StatementFacts DEF TablesSet
    <3> QED BY <1>1, <2>1, <3>1 DEF TimeInv, RowOf
  <2>3. \A i \in ServerIds, p \in Parts : v1'.parts[i][p] <= now
    <3>1. \A i \in ServerIds, p \in Parts :
             v1'.parts[i][p] = v1.parts[i][p] \/ v1'.parts[i][p] = crawl
      <4> DEFINE i0 == saving.srv.id
                 p0 == saving.left[1].key
      <4>1. v1'.parts = v1.parts \/ v1'.parts = [v1.parts EXCEPT ![i0][p0] = crawl]
        BY <1>6, StatementFacts
      <4>2. v1.parts \in [ServerIds -> [Parts -> Nat]]
        BY <1>1 DEF TablesSet
      <4> HIDE DEF i0, p0
      <4> QED BY <4>1, <4>2
    <3> QED BY <1>1, <2>1, <3>1 DEF TimeInv
  <2>4. \A n \in v1'.snapshots : n.crawl <= now
    BY <1>1, <1>6, <2>1, StatementFacts DEF TimeInv, SnapshotOf
  <2> QED BY <2>1, <2>2, <2>3, <2>4 DEF TimeInv
<1> QED BY <1>3, <1>4, <1>5, <1>6, StepKinds

\* What is left after one statement.
LEMMA TailFacts ==
    ASSUME NEW left \in Seq(Statement), left # <<>>, RowFirst(left), SnapshotLast(left)
    PROVE  /\ RowFirst(Tail(left)) /\ SnapshotLast(Tail(left))
           /\ Tail(left) # <<>> => Tail(left)[1].table # "mcp_servers"
           /\ left[1].table = "server_snapshots" <=> Len(left) = 1
           /\ \A st : Left(left, st) => left[1] = st \/ Left(Tail(left), st)
           /\ Len(left) = 1 => \A st : Left(left, st) => left[1] = st
<1> DEFINE n == Len(left)
           rest == Tail(left)
<1>1. /\ n \in Nat \ {0} /\ Len(rest) = n - 1 /\ \A j \in 1..(n - 1) : rest[j] = left[j + 1]
      /\ rest \in Seq(Statement)
  BY HeadTailProperties, EmptySeq
<1> HIDE DEF rest
<1>2. RowFirst(rest)
  BY <1>1 DEF RowFirst
<1>3. SnapshotLast(rest)
  BY <1>1 DEF SnapshotLast
<1>4. rest # <<>> => rest[1].table # "mcp_servers"
  <2>1. ASSUME rest # <<>> PROVE 2 \in 2..n /\ rest[1] = left[2]
    <3>1. Len(rest) \in Nat \ {0}
      BY <1>1, <2>1, EmptySeq
    <3> QED BY <1>1, <3>1
  <2> QED BY <2>1 DEF RowFirst
<1>5. left[1].table = "server_snapshots" <=> n = 1
  BY <1>1 DEF SnapshotLast
<1>6. ASSUME NEW st, NEW j \in 1..n, left[j] = st, left[1] # st PROVE Left(rest, st)
  <2>1. j - 1 \in 1..(n - 1) /\ (j - 1) + 1 = j
    BY <1>1, <1>6
  <2> QED BY <1>1, <1>6, <2>1 DEF Left
<1>7. n = 1 => \A st : Left(left, st) => left[1] = st
  BY <1>1 DEF Left
<1>8. \A st : Left(left, st) => left[1] = st \/ Left(rest, st)
  BY <1>6 DEF Left
<1> QED BY <1>2, <1>3, <1>4, <1>5, <1>7, <1>8 DEF rest

\* One statement of a save whose earlier ones were executed.
LEMMA StatementKeepsStore ==
    ASSUME TypeInv, PlaceInv, TimeInv, StoreInv, SaveStatement
    PROVE  StoreInv'
<1> DEFINE s == saving.srv
           left == saving.left
           st == left[1]
           rest == Tail(left)
<1>1. /\ pc = "persist" /\ saving # NoSave /\ UNCHANGED crawl
      /\ s \in ServerSet /\ s.id \in ServerIds /\ left \in Seq(Statement) /\ left # <<>>
      /\ s.parts \subseteq Parts /\ s.refs \subseteq Refs
      /\ st \in Statement /\ Len(left) \in Nat \ {0}
  BY StatementFacts DEF SaveStatement, ServerSet
<1>2. /\ v1'.servers = IF st.table = "mcp_servers"
                         THEN [v1.servers EXCEPT ![s.id] = RowOf(s, crawl)] ELSE v1.servers
      /\ v1'.parts = IF st.table = "parts"
                       THEN [v1.parts EXCEPT ![s.id][st.key] = crawl] ELSE v1.parts
      /\ \A i \in ServerIds : v1.links[i] \subseteq v1'.links[i]
      /\ st.table = "server_sources" => st.key \in Linked(v1', s.id)
      /\ v1'.snapshots = v1.snapshots \cup
             IF st.table = "server_snapshots" THEN {SnapshotOf(s, crawl)} ELSE {}
      /\ RowOf(s, crawl) # NoServer
  BY StatementFacts
<1>3. /\ v1.servers \in [ServerIds -> StoredRow(Slugs) \cup {NoServer}]
      /\ v1.parts \in [ServerIds -> [Parts -> Nat]]
      /\ v1.snapshots \subseteq Snapshot /\ crawl = now /\ now \in Nat
  BY <1>1 DEF TypeInv, SaveType, TablesSet, ClockType, TimeInv
<1>4. /\ RowFirst(left) /\ SnapshotLast(left)
      /\ st.table = "mcp_servers" \/ (v1.servers[s.id] # NoServer /\ v1.servers[s.id].crawl = crawl)
      /\ \A p \in s.parts : Left(left, PartOf(p)) \/ v1.parts[s.id][p] = crawl
      /\ \A r \in s.refs : Left(left, LinkOf(r)) \/ r \in Linked(v1, s.id)
  BY <1>1 DEF StoreInv, SaveInv
<1>5. /\ RowFirst(rest) /\ SnapshotLast(rest)
      /\ rest # <<>> => rest[1].table # "mcp_servers"
      /\ st.table = "server_snapshots" => Len(left) = 1
      /\ \A x : Left(left, x) => st = x \/ Left(rest, x)
      /\ Len(left) = 1 => \A x : Left(left, x) => st = x
  BY <1>1, <1>4, TailFacts
<1>6. saving' = IF Len(left) = 1 THEN NoSave ELSE [saving EXCEPT !.left = rest]
  BY DEF SaveStatement
<1>7. saving' # NoSave => saving'.srv = s /\ saving'.left = rest
  BY <1>1, <1>6 DEF TypeInv, SaveType, Save
<1> HIDE DEF s, left, st, rest
<1>8. RowOf(s, crawl).crawl = crawl
  BY DEF RowOf
<1>9. v1'.servers[s.id] # NoServer /\ v1'.servers[s.id].crawl = crawl
  BY <1>1, <1>2, <1>3, <1>4, <1>8
<1>10. /\ \A i \in ServerIds, p \in Parts :
             v1'.parts[i][p] = v1.parts[i][p] \/ (i = s.id /\ v1'.parts[i][p] = crawl)
       /\ \A p \in Parts : st = PartOf(p) => v1'.parts[s.id][p] = crawl
  <2>1. CASE st.table = "parts"
    <3>1. v1'.parts = [v1.parts EXCEPT ![s.id][st.key] = crawl]
      BY <1>2, <2>1
    <3>2. \A p \in Parts : st = PartOf(p) => st.key = p
      BY DEF PartOf
    <3> QED BY <1>1, <1>3, <3>1, <3>2
  <2>2. CASE st.table # "parts"
    <3>1. \A p : st # PartOf(p)
      BY <2>2 DEF PartOf
    <3> QED BY <1>2, <2>2, <3>1
  <2> QED BY <2>1, <2>2
<1>11. /\ \A i \in ServerIds : Linked(v1, i) \subseteq Linked(v1', i)
       /\ \A r : st = LinkOf(r) => r \in Linked(v1', s.id)
  BY <1>2 DEF Linked, LinkOf
<1>12. \A i \in ServerIds : v1'.servers[i] = v1.servers[i]
                             \/ (i = s.id /\ v1'.servers[i] = RowOf(s, crawl))
  BY <1>1, <1>2, <1>3
<1>13. /\ \A p \in s.parts : Left(rest, PartOf(p)) \/ v1'.parts[s.id][p] = crawl
       /\ \A r \in s.refs : Left(rest, LinkOf(r)) \/ r \in Linked(v1', s.id)
  BY <1>1, <1>4, <1>5, <1>10, <1>11
<1>14. SaveInv'
  BY <1>1, <1>5, <1>7, <1>9, <1>13 DEF SaveInv
<1>15. PartsFollowRows'
  <2> SUFFICES ASSUME NEW i \in ServerIds, NEW p \in Parts, v1'.parts[i][p] > 0
               PROVE  v1'.servers[i] # NoServer /\ v1'.parts[i][p] <= v1'.servers[i].crawl
    BY DEF PartsFollowRows
  <2>1. v1.parts[i][p] <= now /\ v1.parts[i][p] \in Nat
    BY <1>3 DEF TimeInv
  <2>2. CASE i = s.id
    BY <1>3, <1>9, <1>10, <2>1, <2>2
  <2>3. CASE i # s.id
    <3>1. v1'.parts[i][p] = v1.parts[i][p] /\ v1'.servers[i] = v1.servers[i]
      BY <1>10, <1>12, <2>3
    <3> QED BY <3>1 DEF StoreInv, PartsFollowRows
  <2> QED BY <2>2, <2>3
<1>16. SnapshotsAreComplete'
  <2> SUFFICES ASSUME NEW n \in v1'.snapshots
               PROVE  /\ v1'.servers[n.id] # NoServer /\ v1'.servers[n.id].crawl >= n.crawl
                      /\ \A p \in n.parts : v1'.parts[n.id][p] >= n.crawl
                      /\ \A r \in n.refs : r \in Linked(v1', n.id)
    BY DEF SnapshotsAreComplete, Linked
  <2>1. CASE n \in v1.snapshots
    <3>1. n.id \in ServerIds /\ n.crawl \in Nat /\ n.parts \subseteq Parts /\ n.crawl <= now
      BY <1>3, <2>1 DEF Snapshot, TimeInv
    <3>2. /\ v1.servers[n.id] # NoServer /\ v1.servers[n.id].crawl >= n.crawl
          /\ \A p \in n.parts : v1.parts[n.id][p] >= n.crawl
          /\ \A r \in n.refs : r \in Linked(v1, n.id)
      BY <2>1 DEF StoreInv, SnapshotsAreComplete, Linked
    <3>3. v1'.servers[n.id] # NoServer /\ v1'.servers[n.id].crawl >= n.crawl
      BY <1>2, <1>3, <1>8, <1>12, <3>1, <3>2
    <3>4. \A p \in n.parts : v1'.parts[n.id][p] >= n.crawl
      BY <1>3, <1>10, <3>1, <3>2
    <3> QED BY <1>11, <3>1, <3>2, <3>3, <3>4
  <2>2. CASE n \notin v1.snapshots
    <3>1. st.table = "server_snapshots" /\ n = SnapshotOf(s, crawl)
      BY <1>2, <2>2
    <3>2. n.id = s.id /\ n.crawl = crawl /\ n.parts = s.parts /\ n.refs = s.refs
      BY <3>1 DEF SnapshotOf
    <3>3. \A p, r : st # PartOf(p) /\ st # LinkOf(r)
      BY <3>1 DEF PartOf, LinkOf
    <3>4. \A p \in s.parts : v1'.parts[s.id][p] = crawl
      BY <1>1, <1>4, <1>5, <1>10, <3>1, <3>3
    <3>5. \A r \in s.refs : r \in Linked(v1', s.id)
      BY <1>1, <1>4, <1>5, <1>11, <3>1, <3>3
    <3> QED BY <1>3, <1>9, <3>2, <3>4, <3>5
  <2> QED BY <2>1, <2>2
<1> QED BY <1>14, <1>15, <1>16 DEF StoreInv

LEMMA StoreNext ==
    ASSUME TypeInv, PlaceInv, TimeInv, StoreInv, Next
    PROVE  StoreInv'
<1>1. ASSUME v1' = v1, saving' = NoSave \/ (saving' = saving /\ crawl' = crawl)
      PROVE  StoreInv'
  BY <1>1 DEF StoreInv, SaveInv, SnapshotsAreComplete, PartsFollowRows
<1>2. CASE Outside \/ Begun \/ Ended \/ Fetches
  BY <1>1, <1>2 DEF Outside, Begun, Begin, Ended, Forget, Fetches, PlaceInv
<1>3. CASE RunNormalize \/ AskLLM \/ Deduplicate \/ VerifyEnd
  BY <1>1, <1>3 DEF RunNormalize, AskLLM, Deduplicate, VerifyEnd
<1>4. CASE CheckMoves \/ (\E s \in checking : EndCheck(s)) \/ SaveFails
  BY <1>1, <1>4 DEF CheckMoves, LaunchCheck, StopLaunching, EnterCheck, GiveUpCheck, EndCheck, SaveFails
<1>5. CASE SaveBegin
  <2>1. PICK s \in todo : saving' = [srv |-> s, left |-> SaveStatements(s)]
    BY <1>5 DEF SaveBegin
  <2>2. s.parts \subseteq Parts /\ s.refs \subseteq Refs
    BY <2>1 DEF TypeInv, ServersType, ServerSet
  <2>3. saving'.srv = s /\ saving'.left = SaveStatements(s) /\ v1' = v1
    BY <1>5, <2>1 DEF SaveBegin
  <2>4. SaveInv'
    BY <2>2, <2>3, SaveStatementsAreOrdered DEF SaveInv
  <2> QED BY <2>3, <2>4 DEF StoreInv, SnapshotsAreComplete, PartsFollowRows
<1>6. CASE SaveStatement
  BY <1>6, StatementKeepsStore
<1> QED BY <1>2, <1>3, <1>4, <1>5, <1>6, StepKinds

-----------------------------------------------------------------------------
(* The counters of a crawl. *)

LEMMA PendingNext ==
    ASSUME TypeInv, PlaceInv, PendingInv, Next
    PROVE  PendingInv'
<1>1. CASE Outside \/ Begun \/ Ended \/ Fetches \/ RunNormalize \/ AskLLM
  BY <1>1 DEF Outside, Begun, Begin, Ended, Forget, Fetches, RunNormalize, AskLLM, PendingInv, Pending,
              IdsDiffer
<1>2. CASE Deduplicate
  <2>1. PICK base \in [Groups -> servers] :
           (\A g \in Groups : IsSurvivor(base[g], g)) /\ servers' = {MergeGroup(base[g], g) : g \in Groups}
    BY <1>2 DEF Deduplicate
  <2>2. ServersType /\ IsFiniteSet(servers)
    BY <1>2 DEF Deduplicate, TypeInv, ServersType
  <2>3. /\ IsFiniteSet(servers') /\ Cardinality(servers') = Cardinality(Groups)
        /\ \A s, t \in servers' : s.id = t.id => s = t
    <3> DEFINE merged == {MergeGroup(base[g], g) : g \in Groups}
    <3>1. /\ IsFiniteSet(merged) /\ Cardinality(merged) = Cardinality(Groups)
          /\ \A s, t \in merged : s.id = t.id => s = t
      <4> HIDE DEF merged
      <4>1. merged = {MergeGroup(base[g], g) : g \in Groups}
        BY DEF merged
      <4> QED BY <2>1, <2>2, <4>1, MergedFacts
    <3> QED BY <2>1, <3>1
  <2>4. IdsDiffer'
    BY <2>3 DEF IdsDiffer
  <2> QED BY <1>2, <2>3, <2>4 DEF Deduplicate, PlaceInv, PendingInv, Pending
<1>3. CASE CheckMoves
  <2>1. CASE LaunchCheck
    BY <2>1 DEF LaunchCheck, PendingInv, Pending, IdsDiffer
  <2>2. CASE StopLaunching
    BY <2>2 DEF StopLaunching, PendingInv, Pending, IdsDiffer
  <2>3. CASE \E s \in waiting : EnterCheck(s) \/ GiveUpCheck(s)
    BY <2>3 DEF EnterCheck, GiveUpCheck, PendingInv, Pending, IdsDiffer
  <2> QED BY <1>3, <2>1, <2>2, <2>3 DEF CheckMoves
<1>4. ASSUME NEW s \in checking, EndCheck(s) PROVE PendingInv'
  <2>1. PICK t : /\ t.id = s.id /\ servers' = (servers \ {s}) \cup {t}
                 /\ checking' = checking \ {s} /\ UNCHANGED <<pc, todo, waiting, saving>>
    <3>1. s \in ServerSet
      BY DEF TypeInv, ServersType
    <3>2. \A c : [s EXCEPT !.check = c].id = s.id
      BY <3>1 DEF ServerSet
    <3> QED BY <1>4, <3>2 DEF EndCheck
  <2>2. pc = "verify" /\ s \in servers /\ s \notin todo /\ s \notin waiting
    BY DEF PlaceInv, PendingInv, Pending
  <2>3. IdsDiffer'
    BY <2>1, <2>2 DEF PendingInv, IdsDiffer
  <2>4. IsFiniteSet(servers')
    BY <2>1, <2>2, FS_AddElement, FS_RemoveElement DEF PendingInv
  <2> QED BY <2>1, <2>2, <2>3, <2>4 DEF PendingInv, Pending
<1>5. CASE VerifyEnd
  BY <1>5 DEF VerifyEnd, PendingInv, Pending, IdsDiffer, PlaceInv
<1>6. CASE SaveBegin
  <2>1. PICK s \in todo : todo' = todo \ {s} /\ saving'.srv = s
    BY <1>6 DEF SaveBegin
  <2> QED BY <1>6, <2>1 DEF SaveBegin, PendingInv, Pending, IdsDiffer
<1>7. CASE SaveStatement \/ SaveFails
  <2>1. UNCHANGED <<pc, servers, todo, waiting, checking>> /\ pc = "persist"
        /\ (saving' = NoSave \/ saving' = [saving EXCEPT !.left = Tail(@)])
    BY <1>7 DEF SaveStatement, SaveFails, PlaceInv
  <2>2. saving' # NoSave => saving # NoSave /\ saving'.srv = saving.srv
    BY <1>7, <2>1 DEF SaveStatement, SaveFails, TypeInv, SaveType, Save
  <2> QED BY <2>1, <2>2 DEF PendingInv, Pending, IdsDiffer
<1> QED BY <1>1, <1>2, <1>3, <1>4, <1>5, <1>6, <1>7, StepKinds

LEMMA RunsNext ==
    ASSUME TypeInv, PlaceInv, RunsInv, Next
    PROVE  RunsInv'
<1>1. ASSUME UNCHANGED <<crawlRuns, v1>>, pc' # "idle" => pc # "idle" /\ crawl' = crawl
      PROVE  RunsInv'
  BY <1>1 DEF RunsInv
<1>2. CASE Begun
  <2>1. PICK sel \in SUBSET Sources : crawlRuns' = [crawlRuns EXCEPT ![now] = RunOf(sel)]
    BY <1>2 DEF Begun, Begin
  <2>2. now \in 1..MaxTime /\ crawlRuns'[now] = RunOf(sel)
        /\ \A t \in 1..MaxTime : crawlRuns[t].started => crawlRuns'[t] = crawlRuns[t]
    BY <1>2, <2>1 DEF Begun, TypeInv, ClockType
  <2>3. RunOf(sel).started /\ ~RunOf(sel).finished
    BY DEF RunOf
  <2> QED BY <1>2, <2>2, <2>3 DEF Begun, Begin, RunsInv
<1>3. CASE Outside \/ Fetches \/ RunNormalize \/ AskLLM \/ Deduplicate \/ VerifyEnd \/ SaveBegin \/ SaveFails
  BY <1>1, <1>3 DEF Outside, Fetches, RunNormalize, AskLLM, Deduplicate, VerifyEnd, SaveBegin, SaveFails, PlaceInv
<1>4. CASE CheckMoves \/ \E s \in checking : EndCheck(s)
  BY <1>1, <1>4 DEF CheckMoves, LaunchCheck, StopLaunching, EnterCheck, GiveUpCheck, EndCheck
<1>5. CASE SaveStatement
  <2>1. UNCHANGED <<pc, crawl, crawlRuns>> /\ pc = "persist"
    BY <1>5, StatementFacts DEF SaveStatement
  <2>2. \A x \in v1'.snapshots : x \in v1.snapshots \/ x.crawl = crawl
    BY <1>5, StatementFacts DEF SnapshotOf
  <2> QED BY <2>1, <2>2 DEF RunsInv
<1>6. CASE Ended
  <2>1. CASE crawlRuns' = crawlRuns
    BY <1>1, <1>6, <2>1 DEF Ended, Forget
  <2>2. CASE Filed
    <3>1. crawl \in 1..MaxTime
      BY <2>2 DEF Filed, RunsInv
    <3>2. \A t \in 1..MaxTime : crawlRuns[t].started => crawlRuns'[t].started
      BY <2>2, <3>1 DEF Filed, TypeInv, ClockType
    <3> QED BY <1>6, <3>2 DEF Ended, Forget, RunsInv
  <2> QED BY <1>6, <2>1, <2>2 DEF Ended
<1> QED BY <1>1, <1>2, <1>3, <1>4, <1>5, <1>6, StepKinds

\* The statement that writes the snapshot is the last, and the one that counts.
LEMMA CountStatement ==
    ASSUME TypeInv, PlaceInv, StoreInv, PendingInv, RunsInv, CountInv, SaveStatement
    PROVE  CountInv'
<1> DEFINE s == saving.srv
           st == saving.left[1]
           new == SnapshotOf(s, crawl)
           last == Len(saving.left) = 1
<1>1. /\ pc = "persist" /\ saving # NoSave /\ saving.left \in Seq(Statement) /\ saving.left # <<>>
      /\ v1'.snapshots = v1.snapshots \cup IF st.table = "server_snapshots" THEN {new} ELSE {}
  BY StatementFacts
<1>2. st.table = "server_snapshots" <=> last
  BY <1>1, TailFacts DEF StoreInv, SaveInv
<1>3. /\ UNCHANGED <<pc, servers, todo, crawl, crawlRuns>>
      /\ last => saving' = NoSave /\ run' = [run EXCEPT !["verified"] = @ + 1]
      /\ ~last => saving' = [saving EXCEPT !.left = Tail(@)] /\ run' = run
  BY DEF SaveStatement, Count
<1>4. /\ run["verified"] \in Nat /\ run["saveErrors"] \in Nat
      /\ last => /\ run'["verified"] = run["verified"] + 1 /\ run'["saveErrors"] = run["saveErrors"]
                 /\ run'["norm"] = run["norm"] /\ run'["dup"] = run["dup"]
  BY <1>3 DEF TypeInv, ClockType, Counters
<1>5. new.id = s.id /\ new.crawl = crawl
  BY DEF SnapshotOf
<1>6. s \in servers \ todo /\ IdsDiffer /\ crawl \in 1..MaxTime /\ ~crawlRuns[crawl].finished
  BY <1>1 DEF PendingInv, RunsInv
<1>7. /\ IsFiniteSet(SnapshotsOf(crawl)) /\ run["verified"] = Cardinality(SnapshotsOf(crawl))
      /\ run["verified"] + run["saveErrors"] + Cardinality(todo) + 1 = Cardinality(servers)
      /\ run["norm"] - run["dup"] = Cardinality(servers)
      /\ \A n \in SnapshotsOf(crawl), t \in servers : n.id = t.id => t \notin todo /\ t # s
  BY <1>1 DEF CountInv, InHand
<1>8. saving' # NoSave => saving'.srv = s /\ ~last
  BY <1>1, <1>3 DEF TypeInv, SaveType, Save
<1> HIDE DEF s, st, new, last
<1>9. FinishedRunsAddUp'
  <2>1. \A t \in 1..MaxTime : t # crawl => SnapshotsOf(t)' = SnapshotsOf(t)
    BY <1>1, <1>5 DEF SnapshotsOf
  <2> QED BY <1>3, <1>6, <2>1 DEF CountInv, FinishedRunsAddUp, SnapshotsOf
<1>10. CASE last
  <2>1. SnapshotsOf(crawl)' = SnapshotsOf(crawl) \cup {new}
    BY <1>1, <1>2, <1>3, <1>5, <1>10 DEF SnapshotsOf
  <2>2. new \notin SnapshotsOf(crawl)
    BY <1>5, <1>6, <1>7
  <2>3. IsFiniteSet(SnapshotsOf(crawl)') /\ Cardinality(SnapshotsOf(crawl)') = run["verified"] + 1
    BY <1>7, <2>1, <2>2, FS_AddElement
  <2>4. InHand' = 0
    BY <1>3, <1>10 DEF InHand
  <2>5. Cardinality(todo) \in Nat
    BY <1>1, FS_Subset, FS_CardinalityType DEF PendingInv, Pending
  <2>6. run'["verified"] + run'["saveErrors"] + Cardinality(todo) + InHand' = Cardinality(servers)
    BY <1>4, <1>7, <1>10, <2>4, <2>5
  <2>7. \A n \in SnapshotsOf(crawl)', t \in servers : n.id = t.id => t \notin todo
    BY <1>5, <1>6, <1>7, <2>1 DEF IdsDiffer
  <2> QED BY <1>1, <1>3, <1>4, <1>7, <1>9, <1>10, <2>3, <2>6, <2>7 DEF CountInv
<1>11. CASE ~last
  <2>1. SnapshotsOf(crawl)' = SnapshotsOf(crawl) /\ run' = run
    BY <1>1, <1>2, <1>3, <1>11 DEF SnapshotsOf
  <2>2. saving' # NoSave
    <3>1. saving' = [saving EXCEPT !.left = Tail(@)] /\ saving \in Save
      BY <1>1, <1>3, <1>11 DEF TypeInv, SaveType
    <3>2. Len(Tail(saving.left)) = Len(saving.left) - 1 /\ Len(saving.left) \in Nat \ {0}
      BY <1>1, HeadTailProperties, EmptySeq
    <3>3. Tail(saving.left) # <<>>
      <4>1. Tail(saving.left) \in Seq(Statement)
        BY <1>1, HeadTailProperties, EmptySeq
      <4>2. Len(Tail(saving.left)) # 0
        BY <1>11, <3>2 DEF last
      <4> QED BY <4>1, <4>2, EmptySeq
    <3> QED BY <3>1, <3>3 DEF NoSave, Save
  <2>3. InHand' = 1 /\ saving'.srv = s
    BY <1>8, <2>2 DEF InHand
  <2> QED BY <1>1, <1>3, <1>7, <1>9, <2>1, <2>2, <2>3 DEF CountInv
<1> QED BY <1>10, <1>11

LEMMA CountNext ==
    ASSUME TypeInv, PlaceInv, TimeInv, StoreInv, PendingInv, RunsInv, CountInv, Next
    PROVE  CountInv'
<1>1. ASSUME UNCHANGED <<pc, run, servers, todo, saving, crawl, crawlRuns>>, v1'.snapshots = v1.snapshots
      PROVE  CountInv'
  BY <1>1 DEF CountInv, SnapshotsOf, InHand, FinishedRunsAddUp
<1>2. CASE Outside \/ Fetches
  BY <1>1, <1>2 DEF Outside, Fetches
<1>3. CASE AskLLM
  BY <1>3 DEF AskLLM, CountInv, SnapshotsOf, InHand, FinishedRunsAddUp
<1>4. CASE CheckMoves
  BY <1>1, <1>4 DEF CheckMoves, LaunchCheck, StopLaunching, EnterCheck, GiveUpCheck, CountInv,
                    SnapshotsOf, InHand, FinishedRunsAddUp, PlaceInv
<1>5. ASSUME UNCHANGED <<crawlRuns, v1>> PROVE FinishedRunsAddUp'
  BY <1>5 DEF CountInv, FinishedRunsAddUp
<1>6. CASE Begun
  <2>1. PICK sel \in SUBSET Sources : crawlRuns' = [crawlRuns EXCEPT ![now] = RunOf(sel)]
    BY <1>6 DEF Begun, Begin
  <2>2. now \in 1..MaxTime /\ crawlRuns'[now] = RunOf(sel) /\ ~RunOf(sel).finished
        /\ \A t \in 1..MaxTime : t # now => crawlRuns'[t] = crawlRuns[t]
    BY <2>1 DEF TypeInv, ClockType, RunOf
  <2>3. UNCHANGED <<run, v1>> /\ pc' = "discover" /\ crawl' = now /\ run = ZeroRun
    BY <1>6 DEF Begun, Begin, CountInv
  <2>4. SnapshotsOf(now) = {}
    BY <1>6 DEF Begun, RunsInv, SnapshotsOf
  <2>5. FinishedRunsAddUp'
    BY <2>2, <2>3 DEF CountInv, FinishedRunsAddUp
  <2>6. SnapshotsOf(crawl)' = {}
    BY <2>3, <2>4 DEF SnapshotsOf
  <2> QED BY <2>3, <2>5, <2>6 DEF CountInv, ZeroRun, Counters
<1>7. CASE Ended
  <2>1. FinishedRunsAddUp'
    <3>1. CASE crawlRuns' = crawlRuns
      BY <1>5, <1>7, <3>1 DEF Ended
    <3>2. CASE Filed
      <4>1. crawl \in 1..MaxTime /\ v1' = v1
        BY <1>7, <3>2 DEF Ended, Filed, RunsInv
      <4>2. crawlRuns'[crawl].counts = run /\ \A t \in 1..MaxTime : t # crawl => crawlRuns'[t] = crawlRuns[t]
        BY <3>2, <4>1 DEF Filed, TypeInv, ClockType
      <4>3. run["verified"] + run["saveErrors"] = run["norm"] - run["dup"]
            /\ run["verified"] = Cardinality(SnapshotsOf(crawl))
        <5>1. Cardinality(todo) = 0 /\ InHand = 0
          BY <3>2, FS_EmptySet DEF Filed, InHand
        <5>2. run["verified"] \in Nat /\ run["saveErrors"] \in Nat
          BY DEF TypeInv, ClockType, Counters
        <5> QED BY <3>2, <5>1, <5>2 DEF Filed, CountInv
      <4> QED BY <4>1, <4>2, <4>3 DEF CountInv, FinishedRunsAddUp, SnapshotsOf
    <3> QED BY <1>7, <3>1, <3>2 DEF Ended
  <2> QED BY <1>7, <2>1 DEF Ended, Forget, CountInv
<1>8. CASE RunNormalize
  <2>1. PICK ok \in SUBSET got : servers' = Normalized(ok) /\ run' = [run EXCEPT !["norm"] = @ + Cardinality(ok)]
    BY <1>8 DEF RunNormalize, Count
  <2>2. Cardinality(servers') = Cardinality(ok) /\ Cardinality(ok) \in Nat
    <3>1. IsFiniteSet(ok) /\ ok \in SUBSET Records
      BY FS_Subset DEF TypeInv, GatherType
    <3> QED BY <2>1, <3>1, NormalizedFacts, FS_CardinalityType
  <2>3. pc = "discover" /\ pc' = "llm" /\ UNCHANGED <<crawl, crawlRuns, v1>>
    BY <1>8 DEF RunNormalize
  <2>4. run = ZeroRun
    BY <2>3 DEF CountInv
  <2>5. run'["norm"] = Cardinality(ok) /\ run'["dup"] = 0 /\ run'["verified"] = 0 /\ run'["saveErrors"] = 0
    BY <2>1, <2>2, <2>4 DEF ZeroRun, Counters
  <2>6. SnapshotsOf(crawl)' = {}
    BY <2>3 DEF CountInv, SnapshotsOf
  <2> QED BY <1>5, <2>2, <2>3, <2>5, <2>6 DEF CountInv
<1>9. CASE Deduplicate
  <2>1. PICK base \in [Groups -> servers] :
           (\A g \in Groups : IsSurvivor(base[g], g)) /\ servers' = {MergeGroup(base[g], g) : g \in Groups}
    BY <1>9 DEF Deduplicate
  <2>2. ServersType /\ IsFiniteSet(servers) /\ pc = "llm" /\ pc' = "verify"
        /\ UNCHANGED <<crawl, crawlRuns, v1>> /\ run' = [run EXCEPT !["dup"] = @ + Removed]
    BY <1>9 DEF Deduplicate, TypeInv, ServersType, Count
  <2>3. Cardinality(servers') = Cardinality(Groups)
    BY <2>1, <2>2, MergedFacts
  <2>4. Cardinality(servers) \in Nat /\ Cardinality(Groups) \in Nat
    BY <2>2, GroupFacts
  <2>5. run'["norm"] = run["norm"] /\ run'["dup"] = run["dup"] + Removed
        /\ run'["verified"] = run["verified"] /\ run'["saveErrors"] = run["saveErrors"]
        /\ run["norm"] \in Nat /\ run["dup"] \in Nat
    BY <2>2 DEF TypeInv, ClockType, Counters
  <2>6. run["norm"] - run["dup"] = Cardinality(servers)
    BY <2>2 DEF CountInv
  <2>7. run'["norm"] - run'["dup"] = Cardinality(servers')
    BY <2>3, <2>4, <2>5, <2>6 DEF Removed
  <2>8. run'["verified"] = 0 /\ run'["saveErrors"] = 0 /\ SnapshotsOf(crawl)' = {}
    BY <2>2, <2>5 DEF CountInv, SnapshotsOf
  <2> QED BY <1>5, <2>2, <2>7, <2>8 DEF CountInv
<1>10. ASSUME NEW s \in checking, EndCheck(s) PROVE CountInv'
  <2>1. PICK t : /\ t.id = s.id /\ servers' = (servers \ {s}) \cup {t}
                 /\ UNCHANGED <<pc, run, crawl, crawlRuns, v1>>
    <3>1. s \in ServerSet
      BY DEF TypeInv, ServersType
    <3>2. \A c : [s EXCEPT !.check = c].id = s.id
      BY <3>1 DEF ServerSet
    <3> QED BY <1>10, <3>2 DEF EndCheck
  <2>2. pc = "verify" /\ s \in servers /\ IdsDiffer /\ IsFiniteSet(servers)
    BY DEF PlaceInv, PendingInv, Pending
  <2>3. t \notin servers \ {s}
    BY <2>1, <2>2 DEF IdsDiffer
  <2>4. Cardinality(servers') = Cardinality(servers)
    <3>1. Cardinality(servers \ {s}) = Cardinality(servers) - 1 /\ IsFiniteSet(servers \ {s})
      BY <2>2, FS_RemoveElement
    <3>2. Cardinality(servers') = Cardinality(servers \ {s}) + 1
      BY <2>1, <2>3, <3>1, FS_AddElement
    <3>3. Cardinality(servers) \in Nat
      BY <2>2, FS_CardinalityType
    <3> QED BY <3>1, <3>2, <3>3
  <2> QED BY <1>5, <2>1, <2>2, <2>4 DEF CountInv, SnapshotsOf
<1>11. CASE VerifyEnd
  <2>1. pc = "verify" /\ pc' = "persist" /\ todo' = servers
        /\ UNCHANGED <<run, servers, saving, crawl, crawlRuns, v1>> /\ saving = NoSave
    BY <1>11 DEF VerifyEnd, PlaceInv
  <2>2. run["verified"] = 0 /\ run["saveErrors"] = 0 /\ SnapshotsOf(crawl) = {}
        /\ run["norm"] - run["dup"] = Cardinality(servers)
    BY <2>1 DEF CountInv
  <2>3. Cardinality({}) = 0 /\ IsFiniteSet({}) /\ Cardinality(servers) \in Nat
    BY <2>1, FS_EmptySet, FS_CardinalityType DEF PendingInv
  <2>4. SnapshotsOf(crawl)' = {} /\ InHand' = 0
    BY <2>1, <2>2 DEF SnapshotsOf, InHand
  <2> QED BY <1>5, <2>1, <2>2, <2>3, <2>4 DEF CountInv
<1>12. CASE SaveBegin
  <2>1. PICK s \in todo : todo' = todo \ {s} /\ saving' = [srv |-> s, left |-> SaveStatements(s)]
    BY <1>12 DEF SaveBegin
  <2>2. pc = "persist" /\ saving = NoSave /\ UNCHANGED <<pc, run, servers, crawl, crawlRuns, v1>>
    BY <1>12 DEF SaveBegin
  <2>3. IsFiniteSet(todo)
    BY <2>2, FS_Subset DEF PendingInv, Pending
  <2>4. Cardinality(todo') = Cardinality(todo) - 1 /\ Cardinality(todo) \in Nat
    BY <2>1, <2>3, FS_RemoveElement, FS_CardinalityType
  <2>5. saving' # NoSave /\ saving'.srv = s
    <3>1. SaveStatements(s) # <<>>
      <4>1. s.parts \subseteq Parts /\ s.refs \subseteq Refs
        BY <2>1 DEF TypeInv, ServersType, ServerSet
      <4> QED BY <4>1, SaveStatementsAreOrdered, EmptySeq
    <3> QED BY <2>1, <3>1 DEF NoSave
  <2>6. InHand = 0 /\ InHand' = 1
    BY <2>2, <2>5 DEF InHand
  <2>7. run["verified"] \in Nat /\ run["saveErrors"] \in Nat
    BY DEF TypeInv, ClockType, Counters
  <2>8. run["verified"] + run["saveErrors"] + Cardinality(todo') + InHand' = Cardinality(servers)
    BY <2>2, <2>4, <2>6, <2>7 DEF CountInv
  <2>9. SnapshotsOf(crawl)' = SnapshotsOf(crawl)
    BY <2>2 DEF SnapshotsOf
  <2>10. \A n \in SnapshotsOf(crawl), t \in servers : n.id = t.id => t \notin todo' /\ t # saving'.srv
    BY <2>1, <2>2, <2>5 DEF CountInv
  <2> QED BY <1>5, <2>2, <2>8, <2>9, <2>10 DEF CountInv
<1>13. CASE SaveFails
  <2>1. saving # NoSave /\ saving' = NoSave /\ run' = [run EXCEPT !["saveErrors"] = @ + 1]
        /\ UNCHANGED <<pc, servers, todo, crawl, crawlRuns, v1>> /\ pc = "persist"
    BY <1>13 DEF SaveFails, Count, PlaceInv
  <2>2. InHand = 1 /\ InHand' = 0
    BY <2>1 DEF InHand
  <2>3. /\ run["verified"] \in Nat /\ run["saveErrors"] \in Nat /\ run'["verified"] = run["verified"]
        /\ run'["saveErrors"] = run["saveErrors"] + 1
        /\ run'["norm"] = run["norm"] /\ run'["dup"] = run["dup"]
    BY <2>1 DEF TypeInv, ClockType, Counters
  <2>4. Cardinality(todo) \in Nat
    BY <2>1, FS_Subset, FS_CardinalityType DEF PendingInv, Pending
  <2>5. run'["verified"] + run'["saveErrors"] + Cardinality(todo) + InHand' = Cardinality(servers)
    BY <2>1, <2>2, <2>3, <2>4 DEF CountInv
  <2>6. SnapshotsOf(crawl)' = SnapshotsOf(crawl)
    BY <2>1 DEF SnapshotsOf
  <2> QED BY <1>5, <2>1, <2>3, <2>5, <2>6 DEF CountInv
<1>14. CASE SaveStatement
  BY <1>14, CountStatement
<1> QED BY <1>2, <1>3, <1>4, <1>6, <1>7, <1>8, <1>9, <1>10, <1>11, <1>12, <1>13, <1>14, StepKinds

-----------------------------------------------------------------------------
(* The theorems. *)

LEMMA InitInv == Init => Inv
<1> SUFFICES ASSUME Init PROVE Inv
  OBVIOUS
<1>1. TypeInv
  BY TypeInit
<1>2. PlaceInv
  BY DEF Init, PlaceInv
<1>3. TimeInv
  BY DEF Init, EmptyTables, TimeInv
<1>4. CheckInv
  BY DEF Init, EmptyTables, CheckInv, StoredIsChecked
<1>5. CircuitInv
  BY CircuitEmpty DEF Init
<1>6. StoreInv
  BY DEF Init, EmptyTables, StoreInv, SaveInv, SnapshotsAreComplete, PartsFollowRows
<1>7. PendingInv /\ RunsInv
  BY DEF Init, EmptyTables, PendingInv, RunsInv
<1>8. CountInv
  BY DEF Init, EmptyTables, CountInv, FinishedRunsAddUp, NoRun, RunOf
<1> QED BY <1>1, <1>2, <1>3, <1>4, <1>5, <1>6, <1>7, <1>8 DEF Inv

LEMMA StutterInv == Inv /\ UNCHANGED vars => Inv'
<1> SUFFICES ASSUME Inv, UNCHANGED vars PROVE Inv'
  OBVIOUS
<1> USE DEF vars, memory
<1>1. TypeInv'
  BY DEF Inv, TypeInv, ClockType, GatherType, ServersType, LLMType, SaveType
<1>2. PlaceInv' /\ TimeInv'
  BY DEF Inv, PlaceInv, TimeInv
<1>3. CheckInv'
  BY DEF Inv, CheckInv, Pending, StoredIsChecked
<1>4. CircuitInv'
  BY CircuitIsKept DEF Inv
<1>5. StoreInv'
  BY DEF Inv, StoreInv, SaveInv, SnapshotsAreComplete, PartsFollowRows
<1>6. PendingInv' /\ RunsInv'
  BY DEF Inv, PendingInv, Pending, IdsDiffer, RunsInv
<1>7. CountInv'
  BY DEF Inv, CountInv, SnapshotsOf, InHand, FinishedRunsAddUp
<1> QED BY <1>1, <1>2, <1>3, <1>4, <1>5, <1>6, <1>7 DEF Inv

\* The inductive invariant holds of every crawl.
THEOREM CrawlInvariance == Spec => []Inv
<1>1. Init => Inv
  BY InitInv
<1>2. Inv /\ [Next]_vars => Inv'
  BY StutterInv, TypeNext, PlaceNext, TimeNext, CheckNext, CircuitNext, StoreNext, PendingNext,
     RunsNext, CountNext DEF Inv
<1> QED BY <1>1, <1>2, PTL DEF Spec

\* The types of the crawl's memory, of crawl_runs and of the tables.
THEOREM CrawlTypeCorrect == Spec => []TypeOK
<1>1. Inv => TypeOK
  BY TypesImplyTypeOK DEF Inv
<1> QED BY <1>1, CrawlInvariance, PTL

\* A snapshot speaks only of what was stored (SaveServer writes it last).
THEOREM SnapshotsSpeakTruth == Spec => []SnapshotsAreComplete
<1>1. Inv => SnapshotsAreComplete
  BY DEF Inv, StoreInv
<1> QED BY <1>1, CrawlInvariance, PTL

\* No part is newer than its server's row, or without one.
THEOREM PartsAreBehindRows == Spec => []PartsFollowRows
<1>1. Inv => PartsFollowRows
  BY DEF Inv, StoreInv
<1> QED BY <1>1, CrawlInvariance, PTL

\* No server is stored whose checks were skipped or cut short.
THEOREM OnlyCheckedIsStored == Spec => []StoredIsChecked
<1>1. Inv => StoredIsChecked
  BY DEF Inv, CheckInv
<1> QED BY <1>1, CrawlInvariance, PTL

\* discoverAndFetch returns when every goroutine of it has ended.
THEOREM DiscoveryIsAwaited == Spec => []FetchesAwaited
<1>1. Inv => FetchesAwaited
  BY DEF Inv, PlaceInv, FetchesAwaited
<1> QED BY <1>1, CrawlInvariance, PTL

\* The circuit opens with the AuthLimit-th authentication error in a row, and
\* no sooner.
THEOREM CircuitOpensInTime == Spec => []CircuitIsExact
<1>1. Inv => CircuitIsExact
  BY CircuitInvImplies DEF Inv
<1> QED BY <1>1, CrawlInvariance, PTL

\* The counters a crawl is filed with add up, and agree with its snapshots.
THEOREM CountersAddUp == Spec => []FinishedRunsAddUp
<1>1. Inv => FinishedRunsAddUp
  BY DEF Inv, CountInv
<1> QED BY <1>1, CrawlInvariance, PTL
=============================================================================
