---------------------------- MODULE SecurityScan -----------------------------
(***************************************************************************)
(* engines.SecurityScanner, which cmd/migrate uses: tables of patterns,    *)
(* one for each kind of risk, over the texts of an entity, and two checks  *)
(* of its endpoints.  A kind stands for its table.                         *)
(***************************************************************************)
EXTENDS Signals

Severity ==
    [obfuscation |-> "HIGH", credentials |-> "CRITICAL", remote_binary |-> "CRITICAL",
     shell_injection |-> "HIGH", prompt_payload |-> "HIGH", prompt_phrase |-> "MEDIUM",
     persistence |-> "HIGH", beaconing |-> "HIGH", filesystem_abuse |-> "CRITICAL"]

\* Neither the name nor the package files are among it.
collectContent(p) == At(p, "raw") \cup At(p, "desc") \cup At(p, "slug")
                       \cup At(p, "tools") \cup At(p, "resources") \cup At(p, "sources")

\* scanEndpoints and isLocalhost: any URL with "local" in it is a local one.
scanEndpoints(p) ==
    {<<"insecure_transport", u, "MEDIUM">> : u \in {w \in At(p, "endpoints") : "http://" \in Exact[w]}}
    \cup {<<"localhost_exposure", u, "MEDIUM">> :
            u \in {w \in At(p, "endpoints") :
                     Folded[w] \cap {"127.0.0.1", "localhost", "0.0.0.0", "169.254.", "local"} # {}}}

Findings(p) ==
    UNION {{<<k, w, Severity[k]>> : k \in DOMAIN Severity \cap Exact[w]} : w \in collectContent(p)}
      \cup scanEndpoints(p)

BugLastFindingDecides(findings) ==
    IF \A x \in findings : x[3] \in {"CRITICAL", "HIGH"} THEN (IF findings = {} THEN "CLEAN" ELSE "QUARANTINED")
    ELSE "SUSPICIOUS"

determineStatus(findings) ==
    IF \E x \in findings : x[3] \in {"CRITICAL", "HIGH"} THEN "QUARANTINED"
    ELSE IF findings # {} THEN "SUSPICIOUS" ELSE "CLEAN"

Scan(p) == determineStatus(Findings(p))

\* The statuses by how bad they are.
Badness(status) == CASE status = "CLEAN" -> 0 [] status = "SUSPICIOUS" -> 1 [] status = "QUARANTINED" -> 2
=============================================================================
