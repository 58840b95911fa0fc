--------------------------- MODULE RuntimeVerifier ---------------------------
(***************************************************************************)
(* engines.RuntimeVerifier: the MCP handshake of cmd/migrate.  Two         *)
(* requests, initialize (1) and tools/list (2), each with a timeout of its *)
(* own and both under one for the whole, to a child process over its       *)
(* standard input and output, or to a URL over HTTP.                       *)
(*                                                                         *)
(* Over the pipe each request has a goroutine that reads the child's lines *)
(* and hands the answer to Verify through a channel, while Verify waits    *)
(* for that channel, an error, the timeout or the context.  The child is   *)
(* not ours: it may answer late, twice, out of turn, with rubbish, or      *)
(* never, and it may end at any moment.                                    *)
(***************************************************************************)
EXTENDS Naturals, Sequences

CONSTANTS
    InitializeTimeout,
    ToolsListTimeout,
    TotalTimeout,
    MaxLines            \* bound of the model: lines the child writes

ASSUME VerifierAssumption ==
    /\ InitializeTimeout \in Nat /\ ToolsListTimeout \in Nat /\ TotalTimeout \in Nat
    /\ MaxLines \in Nat

Requests == {1, 2}
TimeoutOf(r) == IF r = 1 THEN InitializeTimeout ELSE ToolsListTimeout

Entities == [status : {"STATIC_VERIFIED", "CANDIDATE"},
             transport : {"none", "stdio", "sse", "http"},
             command : BOOLEAN]

\* Lines of the child: an answer to a request (good, an error, one that does
\* not parse), a message that is no answer (id 0), and a line that is no JSON
\* or longer than the 64 KB a Scanner takes.
Line(i, k) == [id |-> i, kind |-> k]
Lines == {Line(i, k) : i \in Requests, k \in {"ok", "error", "unparsed"}}
           \cup {Line(0, "notification"), Line(0, "rubbish")}

VARIABLES
    pc,         \* where Verify is
    entity,     \* what it verifies
    req,        \* the request it is at
    timer,      \* what is left of the request's timeout
    total,      \* what is left of the whole
    cancelled,  \* the caller's context
    result,     \* the status ("unset" until it returns), and whether each request succeeded
    child,      \* the process: none, running, exited, or reaped
    pipe,       \* lines written and not read
    written,    \* every line the child has written
    readers,    \* the requests whose goroutine is reading
    respChan, errChan   \* of the current request

childVars == <<child, pipe, written>>
chanVars == <<readers, respChan, errChan>>
vars == <<pc, entity, req, timer, total, cancelled, result, childVars, chanVars>>

ctxDone == cancelled \/ total = 0

Init ==
    /\ pc = "idle"
    /\ entity \in Entities
    /\ req = 1
    /\ timer = 0
    /\ total = TotalTimeout
    /\ cancelled = FALSE
    /\ result = [status |-> "unset", ok |-> {}]
    /\ child = "none" /\ pipe = <<>> /\ written = <<>>
    /\ readers = {} /\ respChan = {} /\ errChan = {}

-----------------------------------------------------------------------------
(* Time, the caller and the child. *)

\* Time passes while Verify waits: everything else it does is instantaneous
\* beside its timeouts.
Tick ==
    /\ pc \in {"wait", "httpHead", "httpBody"}
    /\ total > 0 /\ timer > 0
    /\ timer' = timer - 1
    /\ total' = total - 1
    /\ UNCHANGED <<pc, entity, req, cancelled, result, childVars, chanVars>>

Cancel ==
    /\ ~cancelled
    /\ cancelled' = TRUE
    /\ UNCHANGED <<pc, entity, req, timer, total, result, childVars, chanVars>>

ChildWrites(line) ==
    /\ child = "running"
    /\ Len(written) < MaxLines
    /\ pipe' = Append(pipe, line)
    /\ written' = Append(written, line)
    /\ UNCHANGED <<pc, entity, req, timer, total, cancelled, result, child, chanVars>>

\* By itself, or killed by exec.CommandContext when the context is done.
ChildExits ==
    /\ child = "running"
    /\ child' = "exited"
    /\ UNCHANGED <<pc, entity, req, timer, total, cancelled, result, pipe, written, chanVars>>

-----------------------------------------------------------------------------
(* Verify. *)

Return(status) ==
    /\ pc' = "returned"
    /\ result' = [result EXCEPT !.status = status]

\* The eligibility checks, the transport and the command.
Verify ==
    /\ pc = "idle"
    /\ IF \/ entity.status # "STATIC_VERIFIED"
          \/ entity.transport = "none"
          \/ entity.transport = "stdio" /\ ~entity.command
       THEN Return("FAILED")
       ELSE /\ pc' = IF entity.transport = "stdio" THEN "start" ELSE "httpSend"
            /\ UNCHANGED result
    /\ UNCHANGED <<entity, req, timer, total, cancelled, childVars, chanVars>>

StartFails ==
    /\ pc = "start"
    /\ Return("ERROR")
    /\ UNCHANGED <<entity, req, timer, total, cancelled, childVars, chanVars>>

\* A context that is done keeps the command from starting.
Start ==
    /\ pc = "start"
    /\ ~ctxDone
    /\ pc' = "send"
    /\ child' = "running"
    /\ UNCHANGED <<entity, req, timer, total, cancelled, result, pipe, written, chanVars>>

\* sendStdioRequest: the write fails on the pipe of a child that is gone.
WriteFails ==
    /\ pc = "send"
    /\ child = "exited"
    /\ pc' = "failed"
    /\ UNCHANGED <<entity, req, timer, total, cancelled, result, childVars, chanVars>>

Send ==
    /\ pc = "send"
    /\ child = "running"
    /\ pc' = "wait"
    /\ timer' = TimeoutOf(req)
    /\ readers' = readers \cup {req}
    /\ respChan' = {} /\ errChan' = {}
    /\ UNCHANGED <<entity, req, total, cancelled, result, childVars>>

BugReadAnyAnswer(r) ==
    /\ r \in readers /\ pipe # <<>>
    /\ pipe' = Tail(pipe)
    /\ readers' = readers \ {r}
    /\ IF Head(pipe).kind = "rubbish" THEN errChan' = {"rubbish"} /\ UNCHANGED respChan
       ELSE respChan' = {Head(pipe)} /\ UNCHANGED errChan
    /\ UNCHANGED <<pc, entity, req, timer, total, cancelled, result, child, written>>

\* The goroutine of request r takes one line.
Read(r) ==
    /\ r \in readers /\ pipe # <<>>
    /\ pipe' = Tail(pipe)
    /\ LET line == Head(pipe) IN
       \/ line.kind = "rubbish" /\ errChan' = {"rubbish"} /\ readers' = readers \ {r} /\ UNCHANGED respChan
       \/ line.id = r /\ respChan' = {line} /\ readers' = readers \ {r} /\ UNCHANGED errChan
       \/ line.kind # "rubbish" /\ line.id # r /\ UNCHANGED <<readers, respChan, errChan>>
    /\ UNCHANGED <<pc, entity, req, timer, total, cancelled, result, child, written>>

\* At the end of the pipe it ends and tells nobody.
ReadEnd(r) ==
    /\ r \in readers /\ pipe = <<>> /\ child \in {"exited", "reaped"}
    /\ readers' = readers \ {r}
    /\ UNCHANGED <<pc, entity, req, timer, total, cancelled, result, childVars, respChan, errChan>>

\* The select: a response.
Receive ==
    /\ pc = "wait"
    /\ \E line \in respChan :
         IF line.kind # "ok" THEN pc' = "failed" /\ UNCHANGED <<req, result>>
         ELSE /\ result' = [result EXCEPT !.ok = @ \cup {req}]
              /\ IF req = 1 THEN pc' = "send" /\ req' = 2 ELSE pc' = "passed" /\ UNCHANGED req
    /\ UNCHANGED <<entity, timer, total, cancelled, childVars, chanVars>>

BugGoOnAfterTimeout ==
    /\ pc = "wait"
    /\ errChan # {} \/ timer = 0 \/ ctxDone
    /\ IF req = 1 THEN pc' = "send" /\ req' = 2 ELSE pc' = "failed" /\ UNCHANGED req
    /\ UNCHANGED <<entity, timer, total, cancelled, result, childVars, chanVars>>

BugIgnoreTimer ==
    /\ pc = "wait"
    /\ errChan # {} \/ cancelled
    /\ pc' = "failed"
    /\ UNCHANGED <<entity, req, timer, total, cancelled, result, childVars, chanVars>>

\* Or an error, the timeout, the context: for all of them it builds an
\* InitializeResult that did not succeed.
GiveUp ==
    /\ pc = "wait"
    /\ errChan # {} \/ timer = 0 \/ ctxDone
    /\ pc' = "failed"
    /\ UNCHANGED <<entity, req, timer, total, cancelled, result, childVars, chanVars>>

BugReturnWithoutKill ==
    /\ pc \in {"failed", "passed"}
    /\ Return(IF pc = "passed" THEN "PASSED" ELSE "FAILED")
    /\ child' = IF child = "exited" THEN "reaped" ELSE child
    /\ UNCHANGED <<entity, req, timer, total, cancelled, pipe, written, chanVars>>

\* The deferred Kill and Wait.  For tools/list the InitializeResult fails the
\* type assertion, which is the way it becomes FAILED.
Clean ==
    /\ pc \in {"failed", "passed"}
    /\ Return(IF pc = "passed" THEN "PASSED" ELSE "FAILED")
    /\ child' = "reaped"
    /\ UNCHANGED <<entity, req, timer, total, cancelled, pipe, written, chanVars>>

-----------------------------------------------------------------------------
(* The same over HTTP.  An answer to a request is its body, whatever id is in *)
(* it, unless the transport is SSE.                                           *)

HTTPSend ==
    /\ pc = "httpSend"
    /\ ~ctxDone
    /\ pc' = "httpHead"
    /\ timer' = TimeoutOf(req)
    /\ UNCHANGED <<entity, req, total, cancelled, result, childVars, chanVars>>

\* http.Client.Do fails without an answer.
HTTPFails ==
    /\ pc = "httpHead"
    /\ Return("ERROR")
    /\ UNCHANGED <<entity, req, timer, total, cancelled, childVars, chanVars>>

HTTPHead ==
    /\ pc = "httpHead"
    /\ timer > 0 /\ ~ctxDone
    /\ pc' = "httpBody"
    /\ UNCHANGED <<entity, req, timer, total, cancelled, result, childVars, chanVars>>

\* sendHTTPRequest returns an InitializeResult that did not succeed, and no
\* error.  verifyHTTP takes it for one after the first request; after the
\* second it asserts that it is a ToolsListResult.
BadAnswer ==
    IF req = 1 THEN Return("FAILED")
    ELSE pc' = "panicked" /\ UNCHANGED result

\* A status that is not 200; a body that cannot be read, has no answer in it,
\* or has an error.
HTTPBadAnswer ==
    /\ pc \in {"httpHead", "httpBody"}
    /\ BadAnswer
    /\ UNCHANGED <<entity, req, timer, total, cancelled, childVars, chanVars>>

\* The request's timeout or the context: an error of Do, or one of reading.
HTTPTimesOut ==
    /\ pc \in {"httpSend", "httpHead", "httpBody"}
    /\ ctxDone \/ (pc # "httpSend" /\ timer = 0)
    /\ IF pc = "httpBody" THEN BadAnswer ELSE Return("ERROR")
    /\ UNCHANGED <<entity, req, timer, total, cancelled, childVars, chanVars>>

\* An answer whose result does not parse.
HTTPUnparsed ==
    /\ pc = "httpBody"
    /\ timer > 0 /\ ~ctxDone
    /\ Return("FAILED")
    /\ UNCHANGED <<entity, req, timer, total, cancelled, childVars, chanVars>>

HTTPAnswer ==
    /\ pc = "httpBody"
    /\ timer > 0 /\ ~ctxDone
    /\ result' = [status |-> IF req = 1 THEN "unset" ELSE "PASSED", ok |-> result.ok \cup {req}]
    /\ IF req = 1 THEN pc' = "httpSend" /\ req' = 2 ELSE pc' = "returned" /\ UNCHANGED req
    /\ UNCHANGED <<entity, timer, total, cancelled, childVars, chanVars>>

Next ==
    \/ Tick \/ Cancel \/ ChildExits
    \/ \E line \in Lines : ChildWrites(line)
    \/ Verify \/ StartFails \/ Start \/ WriteFails \/ Send
    \/ \E r \in Requests : Read(r) \/ ReadEnd(r)
    \/ Receive \/ GiveUp \/ Clean
    \/ HTTPSend \/ HTTPFails \/ HTTPHead \/ HTTPBadAnswer \/ HTTPTimesOut \/ HTTPUnparsed \/ HTTPAnswer

Spec == Init /\ [][Next]_vars

\* Verify and its goroutines are scheduled, and time passes.  Nothing is asked
\* of the child, the server or the caller.
FairSpec ==
    /\ Spec
    /\ WF_vars(Tick)
    /\ WF_vars(Verify \/ Start \/ StartFails \/ WriteFails \/ Send \/ Receive \/ GiveUp \/ Clean)
    /\ WF_vars(HTTPSend \/ HTTPTimesOut)
    /\ \A r \in Requests : WF_vars(Read(r) \/ ReadEnd(r))

-----------------------------------------------------------------------------
(* Properties *)

TypeOK ==
    /\ pc \in {"idle", "start", "send", "wait", "failed", "passed", "httpSend", "httpHead",
               "httpBody", "returned", "panicked"}
    /\ entity \in Entities
    /\ req \in Requests
    /\ timer \in Nat /\ total \in Nat /\ cancelled \in BOOLEAN
    /\ result \in [status : {"unset", "PASSED", "FAILED", "ERROR"}, ok : SUBSET Requests]
    /\ child \in {"none", "running", "exited", "reaped"}
    /\ readers \subseteq Requests
    /\ respChan \subseteq Lines /\ errChan \subseteq {"rubbish"}
    /\ pipe \in Seq(Lines) /\ written \in Seq(Lines)

\* Once Verify has returned the process it started is dead and waited for,
\* whichever of its many returns it took.
NoChildLeft == pc = "returned" => child \in {"none", "reaped"}

\* A child that passed did answer both requests, the second after the first,
\* whatever else it has written in between and whenever it has written it.
PassedMeansHandshake ==
    result.status = "PASSED" /\ entity.transport = "stdio" =>
      \E i, j \in DOMAIN written : i < j /\ written[i] = Line(1, "ok") /\ written[j] = Line(2, "ok")

\* Two goroutines never read from the one Scanner: a Scanner is not safe for
\* that, and the second one's answer would be lost in the first.
OneReader == \A r, s \in readers : r = s

\* A timeout bounds each request: once begun, Verify ends, also when the child
\* or the server never says a word, and so do its goroutines.
VerifyEnds == <>(pc \in {"returned", "panicked"} /\ readers = {})
=============================================================================
