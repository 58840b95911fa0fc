----------------------------- MODULE MCDiscovery -----------------------------
(***************************************************************************)
(* Three sources and two workers: one source waits for a token; two of     *)
(* them can be appending when the context is cancelled.                    *)
(***************************************************************************)
EXTENDS Discovery, TLC

CONSTANTS s1, s2, s3, r1, r2, r3, r4

MCSources == <<s1, s2, s3>>
MCCandidates == (s1 :> <<r1, r2>>) @@ (s2 :> <<r3>>) @@ (s3 :> <<r4>>)
=============================================================================
