---------------------------- MODULE VerifierProofs ----------------------------
(***************************************************************************)
(* What RuntimeVerifier promises, for every length of its timeouts and any *)
(* number of lines the child writes.                                       *)
(***************************************************************************)
EXTENDS RuntimeVerifier, TLAPS

-----------------------------------------------------------------------------
(* The inductive invariant *)

Stdio == entity.transport = "stdio"
ReadSoFar == Len(written) - Len(pipe)

\* The child lives exactly while Verify is between its start and its return,
\* and there is none over HTTP.
ChildFollows ==
    /\ pc \in {"idle", "start"} => child = "none"
    /\ pc \in {"start", "send", "wait", "failed", "passed"} => Stdio
    /\ pc \in {"httpSend", "httpHead", "httpBody", "panicked"} => child = "none" /\ ~Stdio
    /\ pc = "returned" => child \in {"none", "reaped"}

\* At most the goroutine of the current request reads: it has ended before
\* the next request is sent.
ReaderFollows ==
    /\ readers \subseteq {req}
    /\ pc \in {"idle", "start", "send"} \/ ~Stdio => readers = {}
    /\ pc = "wait" /\ respChan # {} => readers = {}
    /\ pc \in {"idle", "start"} => req = 1

\* The pipe holds the end of what the child wrote.
PipeFollows ==
    /\ Len(pipe) <= Len(written)
    /\ \A k \in 1..Len(pipe) : pipe[k] = written[ReadSoFar + k]

\* What was read of the handshake.
HandshakeFollows ==
    /\ Stdio /\ req = 2 => \E i \in 1..ReadSoFar : written[i] = Line(1, "ok")
    /\ pc = "wait" => \A line \in respChan :
         /\ line.id = req
         /\ \E j \in 1..ReadSoFar :
              /\ written[j] = line
              /\ req = 2 => \E i \in 1..(j - 1) : written[i] = Line(1, "ok")
    /\ result.status = "PASSED" => pc = "returned"
    /\ pc = "passed" \/ (pc = "returned" /\ result.status = "PASSED" /\ Stdio) =>
         \E i, j \in DOMAIN written :
            i < j /\ written[i] = Line(1, "ok") /\ written[j] = Line(2, "ok")

IInv == TypeOK /\ ChildFollows /\ ReaderFollows /\ PipeFollows /\ HandshakeFollows

LEMMA InitIInv == Init => IInv
  <1> SUFFICES ASSUME Init PROVE IInv
    OBVIOUS
  <1>1. /\ pc = "idle" /\ entity \in Entities /\ req = 1 /\ timer = 0
        /\ total = TotalTimeout /\ cancelled = FALSE
        /\ result = [status |-> "unset", ok |-> {}] /\ child = "none"
        /\ pipe = <<>> /\ written = <<>>
        /\ readers = {} /\ respChan = {} /\ errChan = {}
    BY DEF Init
  <1>2. TypeOK
    <2>1. total \in Nat /\ timer \in Nat /\ req \in Requests
      BY <1>1, VerifierAssumption DEF Requests
    <2>2. result \in [status : {"unset", "PASSED", "FAILED", "ERROR"}, ok : SUBSET Requests]
      BY <1>1
    <2>3. pipe \in Seq(Lines) /\ written \in Seq(Lines)
      BY <1>1
    <2> QED BY <1>1, <2>1, <2>2, <2>3 DEF TypeOK
  <1>3. ChildFollows /\ ReaderFollows
    BY <1>1 DEF ChildFollows, ReaderFollows
  <1>4. PipeFollows
    BY <1>1 DEF PipeFollows
  <1>5. HandshakeFollows
    BY <1>1 DEF HandshakeFollows
  <1> QED BY <1>2, <1>3, <1>4, <1>5 DEF IInv

\* Every action keeps the types.
LEMMA TypesStay == TypeOK /\ [Next]_vars => TypeOK'
  <1> USE VerifierAssumption
  <1> SUFFICES ASSUME TypeOK, [Next]_vars PROVE TypeOK'
    OBVIOUS
  <1>1. CASE Tick
    <2>1. /\ timer \in Nat /\ timer > 0 /\ timer' = timer - 1
          /\ total \in Nat /\ total > 0 /\ total' = total - 1
      BY <1>1 DEF TypeOK, Tick
    <2>2. timer' \in Nat /\ total' \in Nat
      BY <2>1
    <2> QED BY <1>1, <2>2 DEF TypeOK, Tick, childVars, chanVars
  <1>2. CASE Cancel
    BY <1>2 DEF TypeOK, Cancel, childVars, chanVars
  <1>3. CASE ChildExits
    BY <1>3 DEF TypeOK, ChildExits, childVars, chanVars
  <1>4. ASSUME NEW line \in Lines, ChildWrites(line) PROVE TypeOK'
    <2>1. pipe \in Seq(Lines) /\ written \in Seq(Lines)
      BY DEF TypeOK
    <2>2. pipe' = Append(pipe, line) /\ written' = Append(written, line)
      BY <1>4 DEF ChildWrites
    <2>3. pipe' \in Seq(Lines) /\ written' \in Seq(Lines)
      BY <2>1, <2>2
    <2> QED BY <1>4, <2>3 DEF TypeOK, ChildWrites, chanVars
  <1>5. CASE Verify
    BY <1>5 DEF TypeOK, Verify, Return, childVars, chanVars
  <1>6. CASE StartFails
    BY <1>6 DEF TypeOK, StartFails, Return, childVars, chanVars
  <1>7. CASE Start
    BY <1>7 DEF TypeOK, Start, childVars, chanVars
  <1>8. CASE WriteFails
    BY <1>8 DEF TypeOK, WriteFails, childVars, chanVars
  <1>9. CASE Send
    <2>1. timer' \in Nat /\ readers' \subseteq Requests
      BY <1>9 DEF TypeOK, Send, TimeoutOf
    <2>2. UNCHANGED <<entity, req, total, cancelled, result, child, pipe, written>>
      BY <1>9 DEF Send, childVars
    <2>3. pc' = "wait" /\ respChan' = {} /\ errChan' = {}
      BY <1>9 DEF Send
    <2> QED BY <2>1, <2>2, <2>3 DEF TypeOK
  <1>10. ASSUME NEW r \in Requests, Read(r) PROVE TypeOK'
    <2>1. pipe \in Seq(Lines) /\ pipe # <<>>
      BY <1>10 DEF TypeOK, Read
    <2>2. pipe' \in Seq(Lines) /\ Head(pipe) \in Lines
      BY <1>10, <2>1 DEF Read
    <2>3. respChan' \subseteq Lines /\ errChan' \subseteq {"rubbish"} /\ readers' \subseteq Requests
      BY <1>10, <2>2 DEF TypeOK, Read
    <2> QED BY <1>10, <2>2, <2>3 DEF TypeOK, Read
  <1>11. ASSUME NEW r \in Requests, ReadEnd(r) PROVE TypeOK'
    BY <1>11 DEF TypeOK, ReadEnd, childVars
  <1>12. CASE Receive
    <2>1. req' \in Requests /\ pc' \in {"failed", "send", "passed"}
      BY <1>12 DEF TypeOK, Receive, Requests
    <2>2. result' \in [status : {"unset", "PASSED", "FAILED", "ERROR"}, ok : SUBSET Requests]
      BY <1>12 DEF TypeOK, Receive
    <2>3. UNCHANGED <<entity, timer, total, cancelled, child, pipe, written, readers, respChan, errChan>>
      BY <1>12 DEF Receive, childVars, chanVars
    <2> QED BY <2>1, <2>2, <2>3 DEF TypeOK
  <1>13. CASE GiveUp
    BY <1>13 DEF TypeOK, GiveUp, childVars, chanVars
  <1>14. CASE Clean
    BY <1>14 DEF TypeOK, Clean, Return, childVars, chanVars
  <1>15. CASE HTTPSend
    BY <1>15 DEF TypeOK, HTTPSend, TimeoutOf, childVars, chanVars
  <1>16. CASE HTTPFails
    BY <1>16 DEF TypeOK, HTTPFails, Return, childVars, chanVars
  <1>17. CASE HTTPHead
    BY <1>17 DEF TypeOK, HTTPHead, childVars, chanVars
  <1>18. CASE HTTPBadAnswer
    BY <1>18 DEF TypeOK, HTTPBadAnswer, BadAnswer, Return, childVars, chanVars
  <1>19. CASE HTTPTimesOut
    BY <1>19 DEF TypeOK, HTTPTimesOut, BadAnswer, Return, childVars, chanVars
  <1>20. CASE HTTPUnparsed
    BY <1>20 DEF TypeOK, HTTPUnparsed, Return, childVars, chanVars
  <1>21. CASE HTTPAnswer
    <2>1. req' \in Requests /\ pc' \in {"httpSend", "returned"}
      BY <1>21 DEF TypeOK, HTTPAnswer, Requests
    <2>2. result' \in [status : {"unset", "PASSED", "FAILED", "ERROR"}, ok : SUBSET Requests]
      BY <1>21 DEF TypeOK, HTTPAnswer
    <2>3. UNCHANGED <<entity, timer, total, cancelled, child, pipe, written, readers, respChan, errChan>>
      BY <1>21 DEF HTTPAnswer, childVars, chanVars
    <2> QED BY <2>1, <2>2, <2>3 DEF TypeOK
  <1>22. CASE UNCHANGED vars
    BY <1>22 DEF TypeOK, vars, childVars, chanVars
  <1> QED BY <1>1, <1>2, <1>3, <1>4, <1>5, <1>6, <1>7, <1>8, <1>9, <1>10, <1>11, <1>12, <1>13,
             <1>14, <1>15, <1>16, <1>17, <1>18, <1>19, <1>20, <1>21, <1>22 DEF Next

\* The child, the goroutines and the mode of transport follow Verify's place.
LEMMA PlacesStay == TypeOK /\ ChildFollows /\ ReaderFollows /\ [Next]_vars
                       => ChildFollows' /\ ReaderFollows'
  <1> SUFFICES ASSUME TypeOK, ChildFollows, ReaderFollows, [Next]_vars
               PROVE  ChildFollows' /\ ReaderFollows'
    OBVIOUS
  <1> USE DEF ChildFollows, ReaderFollows, Stdio
  <1>1. CASE Tick \/ Cancel \/ ChildExits
    BY <1>1 DEF Tick, Cancel, ChildExits, childVars, chanVars
  <1>2. ASSUME NEW line \in Lines, ChildWrites(line) PROVE ChildFollows' /\ ReaderFollows'
    BY <1>2 DEF ChildWrites, chanVars
  <1>3. CASE Verify
    BY <1>3 DEF Verify, Return, childVars, chanVars
  <1>4. CASE StartFails \/ Start \/ WriteFails
    BY <1>4 DEF StartFails, Start, WriteFails, Return, childVars, chanVars
  <1>5. CASE Send
    BY <1>5 DEF Send, childVars
  <1>6. ASSUME NEW r \in Requests, Read(r) PROVE ChildFollows' /\ ReaderFollows'
    BY <1>6 DEF Read
  <1>7. ASSUME NEW r \in Requests, ReadEnd(r) PROVE ChildFollows' /\ ReaderFollows'
    BY <1>7 DEF ReadEnd, childVars
  <1>8. CASE Receive
    <2>1. respChan # {} /\ readers = {} /\ readers' = {} /\ child' = child /\ entity' = entity
      BY <1>8 DEF Receive, childVars, chanVars
    <2>2. pc = "wait" /\ pc' \in {"failed", "send", "passed"}
      BY <1>8 DEF Receive
    <2> QED BY <2>1, <2>2
  <1>9. CASE GiveUp \/ Clean
    BY <1>9 DEF GiveUp, Clean, Return, childVars, chanVars
  <1>10. CASE HTTPSend \/ HTTPFails \/ HTTPHead \/ HTTPBadAnswer \/ HTTPTimesOut \/ HTTPUnparsed
    BY <1>10 DEF HTTPSend, HTTPFails, HTTPHead, HTTPBadAnswer, HTTPTimesOut, HTTPUnparsed,
                 BadAnswer, Return, childVars, chanVars
  <1>11. CASE HTTPAnswer
    BY <1>11 DEF HTTPAnswer, childVars, chanVars
  <1>12. CASE UNCHANGED vars
    BY <1>12 DEF vars, childVars, chanVars
  <1> QED BY <1>1, <1>2, <1>3, <1>4, <1>5, <1>6, <1>7, <1>8, <1>9, <1>10, <1>11, <1>12 DEF Next

\* What is written stays written, at its place, and what is read is read.
LEMMA PipeStays ==
    ASSUME TypeOK, PipeFollows, [Next]_vars
    PROVE  /\ PipeFollows'
           /\ ReadSoFar \in Nat /\ ReadSoFar <= ReadSoFar'
           /\ Len(written) <= Len(written')
           /\ \A k \in 1..Len(written) : written'[k] = written[k]
  <1>1. /\ pipe \in Seq(Lines) /\ written \in Seq(Lines)
        /\ Len(pipe) \in Nat /\ Len(written) \in Nat /\ Len(pipe) <= Len(written)
    BY DEF TypeOK, PipeFollows
  <1> USE DEF PipeFollows, ReadSoFar
  <1>2. CASE UNCHANGED <<pipe, written>>
    BY <1>1, <1>2
  <1>3. ASSUME NEW line \in Lines, ChildWrites(line)
        PROVE  /\ PipeFollows'
               /\ ReadSoFar \in Nat /\ ReadSoFar <= ReadSoFar'
               /\ Len(written) <= Len(written')
               /\ \A k \in 1..Len(written) : written'[k] = written[k]
    <2>1. pipe' = Append(pipe, line) /\ written' = Append(written, line)
      BY <1>3 DEF ChildWrites
    <2>2. Len(pipe') = Len(pipe) + 1 /\ Len(written') = Len(written) + 1
      BY <1>1, <2>1
    <2>3. \A k \in 1..Len(written) : written'[k] = written[k]
      BY <1>1, <2>1
    <2>4. ASSUME NEW k \in 1..Len(pipe') PROVE pipe'[k] = written'[ReadSoFar' + k]
      <3>1. CASE k = Len(pipe) + 1
        BY <1>1, <2>1, <2>2, <3>1
      <3>2. CASE k \in 1..Len(pipe)
        <4>1. pipe'[k] = pipe[k] /\ ReadSoFar' = ReadSoFar
          BY <1>1, <2>1, <2>2, <3>2
        <4>2. ReadSoFar + k \in 1..Len(written) /\ pipe[k] = written[ReadSoFar + k]
          BY <1>1, <3>2
        <4> QED BY <2>3, <4>1, <4>2
      <3> QED BY <1>1, <2>2, <3>1, <3>2
    <2> QED BY <1>1, <2>2, <2>3, <2>4
  <1>4. ASSUME NEW r \in Requests, Read(r)
        PROVE  /\ PipeFollows'
               /\ ReadSoFar \in Nat /\ ReadSoFar <= ReadSoFar'
               /\ Len(written) <= Len(written')
               /\ \A k \in 1..Len(written) : written'[k] = written[k]
    <2>1. pipe # <<>> /\ pipe' = Tail(pipe) /\ written' = written
      BY <1>4 DEF Read
    <2>2. Len(pipe') = Len(pipe) - 1 /\ Len(pipe) > 0
      BY <1>1, <2>1
    <2>3. \A k \in 1..Len(pipe') : pipe'[k] = pipe[k + 1] /\ k + 1 \in 1..Len(pipe)
      BY <1>1, <2>1, <2>2
    <2>4. ASSUME NEW k \in 1..Len(pipe') PROVE pipe'[k] = written'[ReadSoFar' + k]
      BY <1>1, <2>1, <2>2, <2>3
    <2> QED BY <1>1, <2>1, <2>2, <2>4
  <1>5. CASE [Next]_vars /\ ~(\E line \in Lines : ChildWrites(line))
                         /\ ~(\E r \in Requests : Read(r))
    <2>1. UNCHANGED <<pipe, written>>
      BY <1>5 DEF Next, vars, childVars, Tick, Cancel, ChildExits, Verify, StartFails, Start,
         WriteFails, Send, ReadEnd, Receive, GiveUp, Clean, HTTPSend, HTTPFails, HTTPHead,
         HTTPBadAnswer, HTTPTimesOut, HTTPUnparsed, HTTPAnswer
    <2> QED BY <1>2, <2>1
  <1> QED BY <1>3, <1>4, <1>5

Handshaken ==
    \E i, j \in DOMAIN written :
        i < j /\ written[i] = Line(1, "ok") /\ written[j] = Line(2, "ok")

\* What was read of the handshake stays read.
LEMMA HandshakeStays == IInv /\ [Next]_vars => HandshakeFollows'
  <1> SUFFICES ASSUME IInv, [Next]_vars PROVE HandshakeFollows'
    OBVIOUS
  <1>1. TypeOK /\ ChildFollows /\ ReaderFollows /\ PipeFollows /\ HandshakeFollows
    BY DEF IInv
  <1>2. /\ ReadSoFar \in Nat /\ ReadSoFar' \in Nat /\ ReadSoFar <= ReadSoFar'
        /\ ReadSoFar <= Len(written) /\ ReadSoFar' <= Len(written')
        /\ written \in Seq(Lines) /\ written' \in Seq(Lines)
        /\ Len(written) <= Len(written') /\ Len(written) \in Nat /\ Len(written') \in Nat
        /\ \A k \in 1..Len(written) : written'[k] = written[k]
    <2>1. TypeOK'
      BY <1>1, TypesStay
    <2>2. pipe \in Seq(Lines) /\ pipe' \in Seq(Lines) /\ written \in Seq(Lines) /\ written' \in Seq(Lines)
      BY <1>1, <2>1 DEF TypeOK
    <2>3. /\ PipeFollows'
          /\ ReadSoFar \in Nat /\ ReadSoFar <= ReadSoFar'
          /\ Len(written) <= Len(written')
          /\ \A k \in 1..Len(written) : written'[k] = written[k]
      BY <1>1, PipeStays
    <2> QED BY <1>1, <2>2, <2>3 DEF PipeFollows, ReadSoFar
  <1> DEFINE
      Greeted == \E i \in 1..ReadSoFar : written[i] = Line(1, "ok")
      Answered(line) ==
          /\ line.id = req
          /\ \E j \in 1..ReadSoFar :
               /\ written[j] = line
               /\ req = 2 => \E i \in 1..(j - 1) : written[i] = Line(1, "ok")
  <1>3. /\ Stdio /\ req = 2 => Greeted
        /\ pc = "wait" => \A line \in respChan : Answered(line)
        /\ result.status = "PASSED" => pc = "returned"
        /\ pc = "passed" \/ (pc = "returned" /\ result.status = "PASSED" /\ Stdio) => Handshaken
    BY <1>1 DEF HandshakeFollows, Handshaken
  <1>4. Greeted => Greeted'
    BY <1>2
  <1>5. Handshaken => Handshaken'
    BY <1>2 DEF Handshaken
  <1>6. ASSUME NEW line, Answered(line), req' = req PROVE Answered(line)'
    <2>1. PICK j \in 1..ReadSoFar :
               /\ written[j] = line
               /\ req = 2 => \E i \in 1..(j - 1) : written[i] = Line(1, "ok")
      BY <1>6
    <2>2. j \in 1..ReadSoFar' /\ written'[j] = line
      BY <1>2, <2>1
    <2>3. req = 2 => \E i \in 1..(j - 1) : written'[i] = Line(1, "ok")
      BY <1>2, <2>1
    <2> QED BY <1>6, <2>2, <2>3
  <1>7. SUFFICES
          /\ (Stdio /\ req = 2)' => Greeted'
          /\ pc' = "wait" => \A line \in respChan' : Answered(line)'
          /\ result'.status = "PASSED" => pc' = "returned"
          /\ pc' = "passed" \/ (pc' = "returned" /\ result'.status = "PASSED" /\ Stdio') => Handshaken'
    BY DEF HandshakeFollows, Handshaken
  <1> HIDE DEF Greeted, Answered
  <1> USE <1>3, <1>4, <1>5 DEF Stdio
  <1>8. CASE Tick \/ Cancel \/ ChildExits
    BY <1>6, <1>8 DEF Tick, Cancel, ChildExits, childVars, chanVars
  <1>9. ASSUME NEW l \in Lines, ChildWrites(l)
        PROVE  /\ (Stdio /\ req = 2)' => Greeted'
               /\ pc' = "wait" => \A line \in respChan' : Answered(line)'
               /\ result'.status = "PASSED" => pc' = "returned"
               /\ pc' = "passed" \/ (pc' = "returned" /\ result'.status = "PASSED" /\ Stdio') => Handshaken'
    BY <1>6, <1>9 DEF ChildWrites, chanVars
  <1>10. CASE Verify \/ StartFails \/ Start \/ WriteFails
    BY <1>1, <1>10 DEF Verify, StartFails, Start, WriteFails, Return, childVars, chanVars, TypeOK
  <1>11. CASE Send
    BY <1>11 DEF Send, childVars
  <1>12. ASSUME NEW r \in Requests, Read(r)
         PROVE  /\ (Stdio /\ req = 2)' => Greeted'
                /\ pc' = "wait" => \A line \in respChan' : Answered(line)'
                /\ result'.status = "PASSED" => pc' = "returned"
                /\ pc' = "passed" \/ (pc' = "returned" /\ result'.status = "PASSED" /\ Stdio') => Handshaken'
    <2>1. r = req /\ UNCHANGED <<pc, entity, req, result, written>>
      BY <1>1, <1>12 DEF Read, ReaderFollows
    <2>2. ASSUME pc = "wait", NEW line \in respChan' PROVE Answered(line)'
      <3>1. CASE line \in respChan
        BY <1>6, <2>1, <2>2, <3>1
      <3>2. CASE line \notin respChan
        <4>1. line = Head(pipe) /\ line.id = req /\ pipe # <<>> /\ pipe' = Tail(pipe)
          BY <1>12, <2>1, <2>2, <3>2 DEF Read
        <4>2. ReadSoFar' = ReadSoFar + 1 /\ written[ReadSoFar'] = line
          <5>1. pipe \in Seq(Lines) /\ Len(pipe) > 0 /\ Len(pipe') = Len(pipe) - 1 /\ pipe[1] = line
            BY <1>1, <4>1 DEF TypeOK
          <5> QED BY <1>1, <1>2, <2>1, <5>1 DEF PipeFollows, ReadSoFar
        <4>3. req = 2 => \E i \in 1..(ReadSoFar' - 1) : written'[i] = Line(1, "ok")
          <5>1. req = 2 => Stdio
            BY <1>1, <1>12 DEF Read, ReaderFollows
          <5> QED BY <1>2, <2>1, <4>2, <5>1 DEF Greeted
        <4>4. ReadSoFar' \in 1..ReadSoFar'
          BY <1>2, <4>2
        <4> QED BY <2>1, <4>1, <4>2, <4>3, <4>4 DEF Answered
      <3> QED BY <3>1, <3>2
    <2> QED BY <2>1, <2>2
  <1>13. ASSUME NEW r \in Requests, ReadEnd(r)
         PROVE  /\ (Stdio /\ req = 2)' => Greeted'
                /\ pc' = "wait" => \A line \in respChan' : Answered(line)'
                /\ result'.status = "PASSED" => pc' = "returned"
                /\ pc' = "passed" \/ (pc' = "returned" /\ result'.status = "PASSED" /\ Stdio') => Handshaken'
    BY <1>6, <1>13 DEF ReadEnd, childVars
  <1>14. CASE Receive
    <2>1. PICK line \in respChan :
            IF line.kind # "ok" THEN pc' = "failed" /\ UNCHANGED <<req, result>>
            ELSE /\ result' = [result EXCEPT !.ok = @ \cup {req}]
                 /\ IF req = 1 THEN pc' = "send" /\ req' = 2 ELSE pc' = "passed" /\ UNCHANGED req
      BY <1>14 DEF Receive
    <2>2. pc = "wait" /\ UNCHANGED <<entity, written, pipe>> /\ Answered(line) /\ line \in Lines
      BY <1>1, <1>14 DEF Receive, childVars, TypeOK
    <2>3. result'.status = result.status
      BY <1>1, <2>1 DEF TypeOK
    <2>4. ASSUME line.kind = "ok" PROVE line = Line(req, "ok")
      BY <1>1, <2>2, <2>4 DEF Lines, Line, Answered, TypeOK, Requests
    <2>5. CASE line.kind # "ok"
      BY <2>1, <2>2, <2>5
    <2>6. CASE line.kind = "ok" /\ req = 1
      <3>1. Greeted
        BY <2>2, <2>4, <2>6 DEF Answered, Greeted
      <3> QED BY <2>1, <2>2, <2>3, <2>6, <3>1
    <2>7. CASE line.kind = "ok" /\ req = 2
      <3>1. Handshaken
        <4>1. PICK j \in 1..ReadSoFar :
                 written[j] = line /\ \E i \in 1..(j - 1) : written[i] = Line(1, "ok")
          BY <2>2, <2>7 DEF Answered
        <4>2. PICK i \in 1..(j - 1) : written[i] = Line(1, "ok")
          BY <4>1
        <4>3. i \in DOMAIN written /\ j \in DOMAIN written /\ i < j
          BY <1>2, <4>1, <4>2
        <4> QED BY <2>4, <2>7, <4>1, <4>2, <4>3 DEF Handshaken
      <3> QED BY <2>1, <2>2, <2>3, <2>7, <3>1
    <2> QED BY <1>1, <2>5, <2>6, <2>7 DEF TypeOK, Requests
  <1>15. CASE GiveUp
    BY <1>15 DEF GiveUp, childVars, chanVars
  <1>16. CASE Clean
    <2>1. result'.status = (IF pc = "passed" THEN "PASSED" ELSE "FAILED")
      BY <1>1, <1>16 DEF Clean, Return, TypeOK
    <2> QED BY <1>16, <2>1 DEF Clean, Return
  <1>17. CASE HTTPSend \/ HTTPFails \/ HTTPHead \/ HTTPBadAnswer \/ HTTPTimesOut \/ HTTPUnparsed
              \/ HTTPAnswer
    <2>1. ~Stdio /\ ~Stdio' /\ pc' \notin {"wait", "passed"}
      BY <1>1, <1>17 DEF HTTPSend, HTTPFails, HTTPHead, HTTPBadAnswer, HTTPTimesOut, HTTPUnparsed,
         HTTPAnswer, BadAnswer, Return, ChildFollows
    <2>2. result'.status = "PASSED" => pc' = "returned"
      BY <1>1, <1>17 DEF HTTPSend, HTTPFails, HTTPHead, HTTPBadAnswer, HTTPTimesOut, HTTPUnparsed,
         HTTPAnswer, BadAnswer, Return, TypeOK, Requests
    <2> QED BY <2>1, <2>2
  <1>18. CASE UNCHANGED vars
    BY <1>6, <1>18 DEF vars, childVars, chanVars
  <1> QED BY <1>8, <1>9, <1>10, <1>11, <1>12, <1>13, <1>14, <1>15, <1>16, <1>17, <1>18 DEF Next

-----------------------------------------------------------------------------
\* The invariant: Verify's place fixes whether the child lives, who reads, and
\* how much of the handshake was read.
THEOREM VerifierInvariance == Spec => []IInv
  <1>1. IInv /\ [Next]_vars => IInv'
    <2> SUFFICES ASSUME IInv, [Next]_vars PROVE IInv'
      OBVIOUS
    <2>1. TypeOK /\ ChildFollows /\ ReaderFollows /\ PipeFollows
      BY DEF IInv
    <2>2. PipeFollows'
      BY <2>1, PipeStays
    <2> QED BY <2>1, <2>2, TypesStay, PlacesStay, HandshakeStays DEF IInv
  <1> QED BY <1>1, InitIInv, PTL DEF Spec

\* Every reachable state of the verifier is well typed, whatever the child
\* writes (RuntimeVerifier.Verify).
THEOREM VerifierTypeCorrect == Spec => []TypeOK
  <1>1. IInv => TypeOK
    BY DEF IInv
  <1> QED BY <1>1, VerifierInvariance, PTL

\* The child is dead and waited for when Verify has returned
\* (the deferred Kill and Wait of verifyStdio).
THEOREM ChildReaped == Spec => []NoChildLeft
  <1>1. IInv => NoChildLeft
    BY DEF IInv, ChildFollows, NoChildLeft
  <1> QED BY <1>1, VerifierInvariance, PTL

\* The goroutines of two requests never read together.
THEOREM ReaderAlone == Spec => []OneReader
  <1>1. IInv => OneReader
    BY DEF IInv, ReaderFollows, OneReader
  <1> QED BY <1>1, VerifierInvariance, PTL

\* PASSED over a pipe means that the child answered initialize and then
\* tools/list, for any timeouts and any other lines it wrote.
THEOREM PassedIsHandshake == Spec => []PassedMeansHandshake
  <1>1. IInv => PassedMeansHandshake
    BY DEF IInv, HandshakeFollows, Stdio, PassedMeansHandshake
  <1> QED BY <1>1, VerifierInvariance, PTL
=============================================================================
