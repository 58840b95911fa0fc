----------------------------- MODULE MCCrawlRun ------------------------------
EXTENDS CrawlRun

CONSTANTS A, B, github, registry

MCServerIds == {A, B}
MCParts == {"endpoint"}
a1 == [name |-> "a1", canon |-> A, slug |-> "a", trust |-> 1, ambiguous |-> TRUE, parts |-> {"endpoint"}]
a2 == [name |-> "a2", canon |-> A, slug |-> "a", trust |-> 2, ambiguous |-> TRUE, parts |-> {}]
b1 == [name |-> "b1", canon |-> B, slug |-> "a", trust |-> 1, ambiguous |-> TRUE, parts |-> {}]
MCSources == {github, registry}
MCCandidates == [s \in MCSources |-> IF s = github THEN <<a1, b1>> ELSE <<a2>>]
MCRefs == {a1, a2, b1}
=============================================================================
