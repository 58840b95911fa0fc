-------------------------------- MODULE MCApi --------------------------------
(* The walker of MCApi comes through nginx, over two connections of the     *)
(* proxy; that of MCLimit straight to the server, over two of its own.      *)
EXTENDS Api

From(ip, remote, header) == [ip |-> ip, remote |-> remote, forwarded |-> header]
MCProxied == {From("home", "proxy:1", "home"), From("home", "proxy:2", "home")}
MCDirect == {From("home", "home:1", NoHeader), From("home", "home:2", NoHeader)}

MCIds == 1..3
MCRows == {[taiwan |-> TRUE, view |-> TRUE, quality |-> 1],
           [taiwan |-> TRUE, view |-> FALSE, quality |-> 2],
           [taiwan |-> FALSE, view |-> FALSE, quality |-> 2]}
MCOneId == {1}
MCOneRow == {[taiwan |-> TRUE, view |-> TRUE, quality |-> 1]}
MCAskedLimits == {-1, 1, 9}
=============================================================================
