------------------------------ MODULE Lifecycle ------------------------------
(***************************************************************************)
(* The status values of an entity, the tables that say how they may move,  *)
(* and the membership rules of the published registry views.  Everything   *)
(* here is constant-level: internal/models/entity.go,                      *)
(* internal/models/security_status.go, internal/models/classification.go   *)
(* and the filters of internal/export/view_generator.go.                   *)
(*                                                                         *)
(* An entity is a record.  The fields used here are                        *)
(*   primary   primary classification ("" until the classifier ran)        *)
(*   status    MCP identity status ("" until the identity stage ran)       *)
(*   taiwan    Taiwan relevance level ("" until the relevance stage ran)   *)
(*   sec       security status ("" until the scanner ran)                  *)
(*   rv        runtime verification: "NONE" is the nil pointer             *)
(*   staticAt  MCPIdentity.StaticCheckedAt is not nil                      *)
(***************************************************************************)
EXTENDS Naturals, FiniteSets

ValidMCPIdentityStatuses ==
    {"CANDIDATE", "STATIC_VERIFIED", "RUNTIME_VERIFIED", "VERIFIED", "NOT_MCP"}

\* The table of legal moves, which the code consults nowhere: see PromoteIsLegal
\* in PipelineProofs.
CanTransitionMCPIdentityStatus(from, to) ==
    <<from, to>> \in
      (  {"CANDIDATE"} \X {"STATIC_VERIFIED", "NOT_MCP"}
    \cup {"STATIC_VERIFIED"} \X {"RUNTIME_VERIFIED", "NOT_MCP"}
    \cup {"RUNTIME_VERIFIED"} \X {"VERIFIED", "NOT_MCP"}
    \cup {"VERIFIED"} \X {"NOT_MCP"} )

\* One step of the promotion path; every other input returns s unchanged.
Promote(s, staticChecked, rv, sec) ==
    CASE s = "CANDIDATE" /\ staticChecked -> "STATIC_VERIFIED"
      [] s = "STATIC_VERIFIED" /\ rv = "PASSED" -> "RUNTIME_VERIFIED"
      [] /\ s = "RUNTIME_VERIFIED"
         /\ staticChecked /\ rv = "PASSED" /\ sec # "BLOCKED" -> "VERIFIED"
      [] OTHER -> s

ShouldPromoteToVerified(s, staticChecked, runtimeChecked, rv, sec) ==
    /\ staticChecked /\ runtimeChecked
    /\ rv = "PASSED"
    /\ sec # "BLOCKED"
    /\ s \in {"STATIC_VERIFIED", "RUNTIME_VERIFIED", "VERIFIED"}

SecurityStatuses == {"CLEAN", "SUSPICIOUS", "QUARANTINED", "BLOCKED"}

-----------------------------------------------------------------------------
(* The registry views. *)

TaiwanLevels == {"T0", "T1", "T2", "T3", "T4", "T5"}

\* The code compares strings: "" and "T0" sort below "T1".
isTaiwanRelevantT1Plus(level) == level \in TaiwanLevels \ {"T0"}

isNotBlocked(e) == e.sec # "BLOCKED"

isVerifiedMCPServer(e) ==
    /\ e.primary = "MCP_SERVER"
    /\ e.status = "RUNTIME_VERIFIED"
    /\ isTaiwanRelevantT1Plus(e.taiwan)
    /\ isNotBlocked(e)

isMCPCandidate(e) ==
    /\ e.primary = "MCP_SERVER"
    /\ e.status \in {"CANDIDATE", "STATIC_VERIFIED"}

\* Views whose filter is a set of classes, and those that also ask for T1+.
ClassesOfView ==
    [v \in {"taiwan-ai-agents", "taiwan-ai-tools", "taiwan-ai-data",
            "taiwan-ai-skills", "taiwan-ai-infrastructure",
            "taiwan-ai-tutorials", "taiwan-ai-collections"} |->
        CASE v = "taiwan-ai-agents"         -> {"AI_AGENT"}
          [] v = "taiwan-ai-tools"          -> {"AI_TOOL", "AI_SDK", "AI_FRAMEWORK", "AI_PLUGIN"}
          [] v = "taiwan-ai-data"           -> {"AI_DATASET", "AI_KNOWLEDGE_BASE", "AI_API"}
          [] v = "taiwan-ai-skills"         -> {"AI_SKILL", "MCP_SKILL"}
          [] v = "taiwan-ai-infrastructure" -> {"AI_INFRASTRUCTURE"}
          [] v = "taiwan-ai-tutorials"      -> {"AI_TUTORIAL", "AI_EXAMPLE"}
          [] v = "taiwan-ai-collections"    -> {"AI_COLLECTION", "AI_REGISTRY", "MCP_COLLECTION"}]

TaiwanOnlyViews == {"taiwan-ai-agents", "taiwan-ai-tools", "taiwan-ai-data"}

AllViews ==
    {"taiwan-ai-ecosystem", "taiwan-mcp", "taiwan-mcp-candidates"}
        \cup DOMAIN ClassesOfView

\* The filter of a view, and of the legacy Markdown list
\* (awesome-taiwan-mcp.md goes through ToMCPServerView instead of a filter:
\* it asks neither for T1+ nor for "not blocked").
InView(v, e) ==
    CASE v = "taiwan-ai-ecosystem"   -> isTaiwanRelevantT1Plus(e.taiwan)
      [] v = "taiwan-mcp"            -> isVerifiedMCPServer(e)
      [] v = "taiwan-mcp-candidates" -> isMCPCandidate(e)
      [] v = "awesome-taiwan-mcp"    -> e.primary = "MCP_SERVER" /\ e.status = "RUNTIME_VERIFIED"
      [] OTHER -> /\ e.primary \in ClassesOfView[v]
                  /\ v \in TaiwanOnlyViews => isTaiwanRelevantT1Plus(e.taiwan)
=============================================================================
