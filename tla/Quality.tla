------------------------------- MODULE Quality -------------------------------
(***************************************************************************)
(* engines.QualityEngine: ten components that add up to at most 100.  The  *)
(* numbers of a repository come as facts about its thresholds.             *)
(***************************************************************************)
EXTENDS Signals

Is(p, fact) == \E w \in At(p, "facts") : fact \in Exact[w]
Points(n, condition) == IF condition THEN n ELSE 0
Cap(n, score) == IF score > n THEN n ELSE score

SourcePoints == [official_gov_api |-> 20, open_data |-> 18, official_company |-> 15, official |-> 15,
                 third_party_api |-> 10, community |-> 7]
scoreDataSource(p) ==
    LET found == {SourcePoints[t] : t \in UNION {DOMAIN SourcePoints \cap Exact[w] : w \in At(p, "sources")}}
    IN IF found = {} THEN 0 ELSE CHOOSE n \in found : \A m \in found : m <= n

scoreMaintenance(p) ==
    IF Is(p, "pushed < 90 days") THEN 15 ELSE IF Is(p, "pushed < 180 days") THEN 12
    ELSE IF Is(p, "pushed < 365 days") THEN 8 ELSE Points(3, Is(p, "pushed"))

Tools(p) == Cardinality(At(p, "tools"))
scoreDocumentation(p) ==
    (IF Found(At(p, "desc"), {"longer than 200"}) THEN 5 ELSE Points(3, Found(At(p, "desc"), {"longer than 50"})))
      + Points(3, Tools(p) > 0) + Points(2, Tools(p) >= 5)

\* extractTransports: the endpoint's own, or what its URL looks like.
Transports == {"stdio", "sse", "http", "streamable-http", "websocket"}
extractTransports(p) == UNION {Transports \cap Exact[w] : w \in At(p, "endpoints")}
scoreMCPCompliance(p) ==
    LET ts == extractTransports(p) IN
    Cap(15, 3 * Cardinality(ts \cap {"stdio", "sse", "http"})
              + 2 * Cardinality(ts \cap {"streamable-http", "websocket"})
              + Points(5, ts # {}) + Points(2, Cardinality(ts) >= 2))

scoreToolSchema(p) ==
    Cap(10, Points(3, Tools(p) > 0) + Points(3, Found(At(p, "tools"), {"named and described"}))
              + Points(2, Found(At(p, "tools"), {"input schema"})) + Points(2, Tools(p) >= 5))

BugHealthNeedsAllHTTPS(p) ==
    IF At(p, "endpoints") # {}
    THEN Points(10, \A w \in At(p, "endpoints") : "https://" \in Exact[w])
    ELSE Points(5, At(p, "url") # {})

scoreHealth(p) ==
    IF At(p, "endpoints") # {}
    THEN IF Found(At(p, "endpoints"), {"https://"}) THEN 10 ELSE 5
    ELSE Points(5, At(p, "url") # {})

scoreRepository(p) ==
    Cap(5, Points(3, At(p, "url") # {}) + Points(1, Is(p, "stars >= 10")) + Points(1, Is(p, "forks >= 5")))
scoreLicense(p) == Points(3, Is(p, "license")) + Points(2, Is(p, "permissive license"))

\* Only the README is read here.
scoreSecurity(p) ==
    Points(5, ~Found(At(p, "raw"), {"curl_pipe_bash", "wget_pipe_sh", "hardcoded_aws_key", "private_key_block"}))

scoreCommunity(p) ==
    Cap(5, Points(1, Is(p, "stars >= 10")) + Points(1, Is(p, "stars >= 50")) + Points(1, Is(p, "stars >= 100"))
             + Points(1, Is(p, "forks >= 5")) + Points(1, At(p, "topics") # {}))

Score(p) ==
    Cap(100, scoreDataSource(p) + scoreMaintenance(p) + scoreDocumentation(p) + scoreMCPCompliance(p)
               + scoreToolSchema(p) + scoreHealth(p) + scoreRepository(p) + scoreLicense(p)
               + scoreSecurity(p) + scoreCommunity(p))

GradeForScore(n) ==
    CASE n >= 90 -> "A" [] n \in 80..89 -> "B" [] n \in 70..79 -> "C" [] n \in 60..69 -> "D" [] n < 60 -> "F"
=============================================================================
