--------------------------- MODULE RunCaptured_proofs ---------------------------
(***************************************************************************)
(* The POSIX runner implements BoundedRun, and its idle limit tells        *)
(* silence from slowness: proved for every limit, every size of a pipe and *)
(* of a buffer, any amount of output and any subset of the faults.         *)
(***************************************************************************)
EXTENDS RunCaptured, TLAPS

Loop    == {"limits", "poll", "readStdout", "readStderr"}
Leaving == {"close", "kill", "wait"}
Ended   == {"zombie", "reaped"}

Codes == {0, 127, 137, 141}

\* Types, as far as the refinement needs them.
TypeInv ==
  /\ pc \in {"start", "done"} \cup Loop \cup Leaving
  /\ child \in [state : {"none", "running"} \cup Ended, code : Codes,
                launched : BOOLEAN]
  /\ got \in [Streams -> Nat] /\ written \in [Streams -> Nat]
  /\ \A s \in Streams : got[s] <= written[s]
  /\ limit \in {"none", "total", "idle"}
  /\ ready \subseteq Streams /\ eof \subseteq Streams

\* What is known of the child and the limits at each place.
MainInv ==
  /\ pc = "start" => child.state = "none" /\ child.code = 0 /\ eof = {}
  /\ pc \in Loop \cup Leaving => child.state \in {"running", "zombie"}
  /\ pc \in {"start"} \cup Loop => limit = "none"
  /\ pc = "kill" => limit # "none"
  /\ pc = "poll" => eof # Streams

\* A stream is at its end only when nothing can come any more.  What poll said
\* is readable stays so until it is read: only the end of a stream that is at
\* its end is taken for one.
StreamInv ==
  /\ \A s \in eof : s \notin open /\ got[s] = written[s]
  /\ pc = "readStdout" /\ "stdout" \in ready => Readable("stdout")
  /\ pc \in {"readStdout", "readStderr"} /\ "stderr" \in ready => Readable("stderr")

Inv == TypeInv /\ MainInv /\ StreamInv

LEMMA InvInit == Init => Inv
BY DEF Init, Codes, Inv, TypeInv, MainInv, StreamInv, Loop, Leaving, Ended

-----------------------------------------------------------------------------
(* The invariant, action by action.                                        *)

\* What the two ways in which a child changes do to its record.
LEMMA RecordChanges ==
  ASSUME NEW States, NEW Cs, NEW Bs,
         NEW r \in [state : States, code : Cs, launched : Bs],
         NEW a \in States, NEW c \in Cs, NEW b \in Bs
  PROVE  /\ [r EXCEPT !.launched = b] \in [state : States, code : Cs, launched : Bs]
         /\ [r EXCEPT !.launched = b].state = r.state
         /\ [r EXCEPT !.launched = b].code = r.code
         /\ [r EXCEPT !.state = a, !.code = c]
              \in [state : States, code : Cs, launched : Bs]
         /\ [r EXCEPT !.state = a, !.code = c].state = a
         /\ [r EXCEPT !.state = a, !.code = c].code = c
OBVIOUS

\* A read that finds nothing ends the stream, rightly; one that finds bytes
\* takes some of them.
LEMMA DrainedOrEnded ==
  ASSUME TypeInv, NEW s \in Streams, s \in ready => Readable(s), DrainOrEnd(s)
  PROVE  \/ got' = got /\ eof' = eof
         \/ /\ s \in ready /\ eof' = eof
            /\ \E n \in (got[s] + 1)..written[s] : got' = [got EXCEPT ![s] = n]
         \/ /\ s \in ready /\ eof' = eof \cup {s} /\ got' = got
            /\ s \notin open /\ got[s] = written[s]
<1>1. CASE s \notin ready
  BY <1>1 DEF DrainOrEnd
<1>2. CASE s \in ready /\ Pending(s) > 0
  <2> DEFINE n == IF Pending(s) > BufferSize THEN got[s] + BufferSize ELSE written[s]
  <2>1. n \in (got[s] + 1)..written[s]
    BY <1>2, CaptureAssumption DEF TypeInv, Pending
  <2>2. got' = [got EXCEPT ![s] = n] /\ eof' = eof
    BY <1>2 DEF DrainOrEnd
  <2> QED  BY <1>2, <2>1, <2>2
<1>3. CASE s \in ready /\ ~(Pending(s) > 0)
  <2>1. s \notin open /\ got[s] = written[s]
    BY <1>3 DEF Readable, Pending, TypeInv
  <2> QED  BY <1>3, <2>1 DEF DrainOrEnd
<1> QED  BY <1>1, <1>2, <1>3

LEMMA ReadKeepsInv == Inv /\ (ReadStdout \/ ReadStderr) => Inv'
<1> SUFFICES ASSUME Inv, ReadStdout \/ ReadStderr PROVE Inv'
  OBVIOUS
<1>1. PICK s \in Streams :
        /\ DrainOrEnd(s) /\ (s \in ready => Readable(s))
        /\ \/ /\ pc = "readStdout" /\ pc' = "readStderr" /\ ready' = ready
              /\ s = "stdout"
           \/ pc = "readStderr" /\ pc' = "limits" /\ ready' = {}
        /\ UNCHANGED <<options, limit, child, written, open>>
  BY DEF ReadStdout, ReadStderr, output, Streams, Inv, StreamInv
<1>2. \/ got' = got /\ eof' = eof
      \/ /\ s \in ready /\ eof' = eof
         /\ \E n \in (got[s] + 1)..written[s] : got' = [got EXCEPT ![s] = n]
      \/ /\ s \in ready /\ eof' = eof \cup {s} /\ got' = got
         /\ s \notin open /\ got[s] = written[s]
  BY <1>1, DrainedOrEnded DEF Inv
<1>3. TypeInv'
  BY <1>1, <1>2 DEF Inv, TypeInv, Loop, Leaving
<1>4. MainInv'
  BY <1>1, <1>2 DEF Inv, MainInv, Loop, Leaving
<1>5. StreamInv'
  <2>1. \A t \in eof' : t \notin open' /\ got'[t] = written'[t]
    <3>1. CASE s \in eof
      BY <1>1, <1>2, <3>1 DEF Inv, TypeInv, StreamInv
    <3>2. CASE s \notin eof
      BY <1>1, <1>2, <3>2 DEF Inv, TypeInv, StreamInv
    <3> QED  BY <3>1, <3>2
  <2>2. pc' = "readStderr" /\ "stderr" \in ready' => Readable("stderr")'
    BY <1>1, <1>2 DEF Inv, TypeInv, StreamInv, Readable, Pending, Streams
  <2> QED  BY <1>1, <2>1, <2>2 DEF StreamInv
<1> QED  BY <1>3, <1>4, <1>5 DEF Inv

LEMMA RunnerKeepsInv == Inv /\ (Runner \/ Mishap) => Inv'
<1> SUFFICES ASSUME Inv, Runner \/ Mishap PROVE Inv'
  OBVIOUS
<1> USE DEF Inv, TypeInv, MainInv, StreamInv, Loop, Leaving, Ended, output
<1>1. CASE StartFails
  BY <1>1 DEF StartFails
<1>2. CASE Start
  BY <1>2 DEF Start
<1>3. CASE Limits
  <2>1. limit' \in {"none", "total", "idle"}
    BY <1>3 DEF Limits
  <2>2. /\ pc = "limits"
        /\ pc' = (IF eof = Streams \/ limit' # "none" THEN "close" ELSE "poll")
        /\ UNCHANGED <<ready, eof, got, child, written, open>>
    BY <1>3 DEF Limits
  <2> QED  BY <2>1, <2>2
<1>4. CASE PollReady
  <2>1. /\ pc' = "readStdout" /\ pc = "poll"
        /\ ready' = {s \in Polled : Readable(s)}
        /\ UNCHANGED <<limit, eof, got, child, written, open>>
    BY <1>4 DEF PollReady
  <2>2. \A s \in ready' : Readable(s)' /\ s \in Streams
    BY <2>1 DEF Readable, Pending, Polled
  <2> QED  BY <2>1, <2>2 DEF Readable, Pending
<1>5. CASE PollExpires \/ PollInterrupted
  BY <1>5 DEF PollExpires, PollInterrupted
<1>6. CASE PollFails
  BY <1>6 DEF PollFails
<1>7. CASE ReadStdout \/ ReadStderr
  BY <1>7, ReadKeepsInv
<1>8. CASE CloseEnds
  BY <1>8 DEF CloseEnds
<1>9. CASE Kill
  <2>1. /\ pc = "kill" /\ pc' = "wait"
        /\ UNCHANGED <<ready, eof, got, limit, written>> /\ open' \subseteq open
    BY <1>9 DEF Kill, Ends
  <2>2. child' = child \/ child' = [child EXCEPT !.state = "zombie", !.code = 137]
    BY <1>9 DEF Kill, Ends
  <2>3. "zombie" \in {"none", "running"} \cup Ended /\ 137 \in Codes
    BY DEF Codes
  <2>4. CASE child' = child
    BY <2>1, <2>4
  <2>5. CASE child' = [child EXCEPT !.state = "zombie", !.code = 137]
    <3>1. /\ child' \in [state : {"none", "running"} \cup Ended, code : Codes,
                         launched : BOOLEAN]
          /\ child'.state = "zombie"
      BY <2>3, <2>5, RecordChanges
    <3> QED  BY <2>1, <3>1
  <2> QED  BY <2>2, <2>4, <2>5
<1>10. CASE Wait
  <2>1. /\ pc = "wait" /\ pc' = "done" /\ child' = [child EXCEPT !.state = "reaped"]
        /\ UNCHANGED <<ready, eof, got, limit, written, open>>
    BY <1>10 DEF Wait
  <2> QED  BY <2>1
<1> QED  BY <1>1, <1>2, <1>3, <1>4, <1>5, <1>6, <1>7, <1>8, <1>9, <1>10 DEF Runner, Mishap

Others == Child \/ Tick \/ Over

\* The child as the others leave it: as it was, launched, or ended by itself.
LEMMA ChildSteps ==
  Inv /\ Others =>
    /\ UNCHANGED parent
    /\ open' \subseteq open
    /\ \/ child' = child \/ child' = [child EXCEPT !.launched = TRUE]
       \/ /\ child.state = "running" /\ written' = written
          /\ \E c \in {0, 127, 141} :
               child' = [child EXCEPT !.state = "zombie", !.code = c]
    /\ \/ written' = written
       \/ /\ child.state = "running" /\ child' = child
          /\ \E s \in open \cap Streams :
               written[s] < MaxOutput /\ written' = [written EXCEPT ![s] = @ + 1]
<1> SUFFICES ASSUME Inv, Others
             PROVE /\ UNCHANGED parent
                   /\ open' \subseteq open
                   /\ \/ child' = child \/ child' = [child EXCEPT !.launched = TRUE]
                      \/ /\ child.state = "running" /\ written' = written
                         /\ \E c \in {0, 127, 141} :
                              child' = [child EXCEPT !.state = "zombie", !.code = c]
                   /\ \/ written' = written
                      \/ /\ child.state = "running" /\ child' = child
                         /\ \E s \in open \cap Streams :
                              /\ written[s] < MaxOutput
                              /\ written' = [written EXCEPT ![s] = @ + 1]
  OBVIOUS
<1>1. CASE Exec
  BY <1>1 DEF Exec, Ends, Acts, output
<1>2. CASE Unblock \/ Exit
  BY <1>2 DEF Unblock, Exit, Ends, Acts
<1>3. ASSUME NEW s \in Streams, Write(s)
      PROVE  /\ UNCHANGED parent /\ open' \subseteq open
             /\ child.state = "running"
             /\ \/ child' = child
                \/ /\ written' = written
                   /\ child' = [child EXCEPT !.state = "zombie", !.code = 141]
             /\ \/ written' = written
                \/ /\ child' = child /\ s \in open \cap Streams
                   /\ written[s] < MaxOutput
                   /\ written' = [written EXCEPT ![s] = @ + 1]
  BY <1>3 DEF Write, Ends, Acts
<1>4. CASE \E s \in Streams : CloseStream(s)
  BY <1>4 DEF CloseStream
<1>5. CASE Tick \/ Over
  BY <1>5 DEF Tick, Over, vars, parent, output
<1> QED  BY <1>1, <1>2, <1>3, <1>4, <1>5 DEF Others, Child

LEMMA OthersKeepInv == Inv /\ Others => Inv'
<1> SUFFICES ASSUME Inv, Others PROVE Inv'
  OBVIOUS
<1>1. UNCHANGED <<pc, ready, eof, got, limit>> /\ open' \subseteq open
  BY ChildSteps DEF parent
<1>2. \/ written' = written
      \/ \E s \in open \cap Streams : written' = [written EXCEPT ![s] = @ + 1]
  BY ChildSteps
<1>3. /\ child' \in [state : {"none", "running"} \cup Ended, code : Codes,
                     launched : BOOLEAN]
      /\ pc = "start" => child'.state = "none" /\ child'.code = 0
      /\ child.state \in {"running", "zombie"} => child'.state \in {"running", "zombie"}
  <2>1. CASE child' = child
    BY <2>1 DEF Inv, TypeInv, MainInv
  <2>2. CASE child' = [child EXCEPT !.launched = TRUE]
    BY <2>2, RecordChanges DEF Inv, TypeInv, MainInv
  <2>3. CASE /\ child.state = "running"
             /\ \E c \in {0, 127, 141} :
                  child' = [child EXCEPT !.state = "zombie", !.code = c]
    <3>1. PICK c \in Codes : child' = [child EXCEPT !.state = "zombie", !.code = c]
      BY <2>3 DEF Codes
    <3>2. "zombie" \in {"none", "running"} \cup Ended
      BY DEF Ended
    <3>3. /\ child' \in [state : {"none", "running"} \cup Ended, code : Codes,
                         launched : BOOLEAN]
          /\ child'.state = "zombie"
      BY <3>1, <3>2, RecordChanges DEF Inv, TypeInv
    <3> QED  BY <2>3, <3>3 DEF Inv, MainInv
  <2> QED  BY <2>1, <2>2, <2>3, ChildSteps
<1>4. TypeInv'
  BY <1>1, <1>2, <1>3 DEF Inv, TypeInv
<1>5. MainInv'
  BY <1>1, <1>3 DEF Inv, MainInv
<1>6. StreamInv'
  BY <1>1, <1>2 DEF Inv, TypeInv, StreamInv, Readable, Pending, Streams
<1> QED  BY <1>4, <1>5, <1>6 DEF Inv

LEMMA InvNext == Inv /\ [Next]_vars => Inv'
<1>1. Inv /\ UNCHANGED vars => Inv'
  BY DEF Inv, TypeInv, MainInv, StreamInv, Readable, Pending, vars
<1> QED  BY <1>1, RunnerKeepsInv, OthersKeepInv DEF Next, Others

-----------------------------------------------------------------------------
(* Every step is a step of BoundedRun, or none of its business.            *)

LEMMA InitRefines == Init => Promise!Init
BY CaptureAssumption DEF Init, Promise!Init, Promise!NotStarted

LEMMA RunnerRefines == Inv /\ (Runner \/ Mishap) => [Promise!Next]_(Promise!vars)
<1> SUFFICES ASSUME Inv, Runner \/ Mishap PROVE [Promise!Next]_(Promise!vars)
  OBVIOUS
<1> USE DEF output, Timeout, IdleTimeout
<1>1. CASE StartFails
  <2>1. Promise!FailToStart
    BY <1>1 DEF StartFails, Promise!FailToStart, Inv, MainInv
  <2> QED  BY <2>1 DEF Promise!Next
<1>2. CASE Start
  <2>1. Promise!Launch
    BY <1>2 DEF Start, Promise!Launch, Inv, TypeInv, MainInv, Ended
  <2> QED  BY <2>1 DEF Promise!Next
<1>3. CASE Limits
  <2>1. /\ pc = "limits" /\ limit = "none" /\ pc' \in {"close", "poll"}
        /\ pc' = "close" => eof' = Streams \/ limit' # "none"
        /\ UNCHANGED <<options, eof, result, got, child, written>>
    BY <1>3 DEF Limits, Inv, MainInv, Loop
  <2>2. CASE limit' = "none"
    BY <2>1, <2>2 DEF Promise!vars
  <2>3. CASE limit' # "none"
    <3>1. Timeout # NoLimit \/ IdleTimeout # NoLimit
      BY <1>3, <2>1, <2>3 DEF Limits, TotalExpired, IdleExpired
    <3>2. Promise!Expire
      BY <2>1, <2>3, <3>1 DEF Promise!Expire
    <3> QED  BY <3>2 DEF Promise!Next
  <2> QED  BY <2>2, <2>3
<1>4. CASE PollReady \/ PollExpires \/ PollInterrupted
  <2>1. /\ pc = "poll" /\ pc' \in {"readStdout", "limits"}
        /\ UNCHANGED <<options, eof, limit, result, got, child, written>>
    BY <1>4 DEF PollReady, PollExpires, PollInterrupted
  <2> QED  BY <2>1 DEF Promise!vars
<1>5. CASE PollFails
  <2>1. Promise!Mishap
    BY <1>5 DEF PollFails, Promise!Mishap, Inv, MainInv, Loop
  <2> QED  BY <2>1 DEF Promise!Next
<1>6. CASE ReadStdout \/ ReadStderr
  <2>1. PICK s \in Streams :
          /\ DrainOrEnd(s) /\ (s \in ready => Readable(s))
          /\ pc \in {"readStdout", "readStderr"} /\ pc' \in {"readStderr", "limits"}
          /\ UNCHANGED <<options, limit, result, child, written>>
    BY <1>6 DEF ReadStdout, ReadStderr, Streams, Inv, StreamInv
  <2>2. got' = got \/ \E n \in (got[s] + 1)..written[s] : got' = [got EXCEPT ![s] = n]
    BY <2>1, DrainedOrEnded DEF Inv
  <2>3. CASE got' = got
    BY <2>1, <2>3 DEF Promise!vars
  <2>4. CASE \E n \in (got[s] + 1)..written[s] : got' = [got EXCEPT ![s] = n]
    <3>1. Promise!Capture(s)
      BY <2>1, <2>4 DEF Promise!Capture
    <3> QED  BY <3>1 DEF Promise!Next
  <2> QED  BY <2>2, <2>3, <2>4
<1>7. CASE CloseEnds
  BY <1>7 DEF CloseEnds, Promise!vars
<1>8. CASE Kill
  <2>1. /\ pc = "kill" /\ pc' = "wait" /\ limit # "none"
        /\ UNCHANGED <<options, eof, limit, result, got, written>>
    BY <1>8 DEF Kill, Ends, Inv, MainInv
  <2>2. CASE child' = child
    BY <2>1, <2>2 DEF Promise!vars
  <2>3. CASE child' # child
    <3>1. /\ child.state = "running"
          /\ child' = [child EXCEPT !.state = "zombie", !.code = 137]
      BY <1>8, <2>3 DEF Kill, Ends
    <3>2. child'.state = "zombie" /\ child'.code = 137
      BY <3>1 DEF Inv, TypeInv
    <3>3. Promise!ChildEnds
      BY <2>1, <3>1, <3>2 DEF Promise!ChildEnds
    <3> QED  BY <3>3 DEF Promise!Next
  <2> QED  BY <2>2, <2>3
<1>9. CASE Wait
  <2>1. /\ pc = "wait" /\ pc' = "done" /\ child.state = "zombie"
        /\ child' = [child EXCEPT !.state = "reaped"]
        /\ UNCHANGED <<options, eof, got, limit, written>>
        /\ result' = (IF limit = "none"
             THEN [outcome |-> "Exited", code |-> child.code, idle |-> FALSE]
             ELSE [outcome |-> "TimedOut", code |-> -1, idle |-> limit = "idle"])
    BY <1>9 DEF Wait
  <2>2. child'.state = "reaped" /\ child'.code = child.code
    BY <2>1 DEF Inv, TypeInv
  <2>3. eof = Streams => got = written
    BY DEF Inv, TypeInv, StreamInv
  <2>4. CASE limit = "none"
    <3>1. Promise!ReturnExited
      BY <2>1, <2>2, <2>3, <2>4 DEF Promise!ReturnExited
    <3> QED  BY <3>1 DEF Promise!Next
  <2>5. CASE limit # "none"
    <3>1. Promise!ReturnTimedOut
      BY <2>1, <2>2, <2>5 DEF Promise!ReturnTimedOut
    <3> QED  BY <3>1 DEF Promise!Next
  <2> QED  BY <2>4, <2>5
<1> QED  BY <1>1, <1>2, <1>3, <1>4, <1>5, <1>6, <1>7, <1>8, <1>9 DEF Runner, Mishap

LEMMA OthersRefine == Inv /\ Others => [Promise!Next]_(Promise!vars)
<1> SUFFICES ASSUME Inv, Others PROVE [Promise!Next]_(Promise!vars)
  OBVIOUS
<1>1. UNCHANGED <<options, pc, eof, got, limit, result>>
  BY ChildSteps DEF parent
<1> USE DEF Timeout, IdleTimeout
<1>2. CASE written' # written
  <2>1. PICK s \in Streams :
          /\ child.state = "running" /\ child' = child /\ written[s] < MaxOutput
          /\ written' = [written EXCEPT ![s] = @ + 1]
    BY <1>2, ChildSteps
  <2>2. Promise!Produce(s)
    BY <1>1, <2>1 DEF Promise!Produce
  <2> QED  BY <2>2 DEF Promise!Next
<1>3. CASE written' = written /\ child'.state = child.state /\ child'.code = child.code
  BY <1>1, <1>3 DEF Promise!vars
<1>4. CASE /\ child.state = "running" /\ written' = written
           /\ \E c \in {0, 127, 141} :
                child' = [child EXCEPT !.state = "zombie", !.code = c]
  <2>1. \E c \in {0, 127, 137, 141} : child'.state = "zombie" /\ child'.code = c
    BY <1>4 DEF Inv, TypeInv
  <2>2. Promise!ChildEnds
    BY <1>1, <1>4, <2>1 DEF Promise!ChildEnds
  <2> QED  BY <2>2 DEF Promise!Next
<1>5. \/ written' # written
      \/ written' = written /\ child'.state = child.state /\ child'.code = child.code
      \/ /\ child.state = "running" /\ written' = written
         /\ \E c \in {0, 127, 141} :
              child' = [child EXCEPT !.state = "zombie", !.code = c]
  BY ChildSteps DEF Inv, TypeInv
<1> QED  BY <1>2, <1>3, <1>4, <1>5

\* What run_captured reports on POSIX is what happened: a run that is Exited
\* was captured to the last byte unless a poll failed, and a limit that fired
\* is reported as one, for any limits, pipes, buffers and amounts of output.
THEOREM RunKeepsPromise == Spec => KeepsPromise
<1>1. Inv /\ [Next]_vars => [Promise!Next]_(Promise!vars)
  <2>1. UNCHANGED vars => UNCHANGED Promise!vars
    BY DEF vars, output, Promise!vars, Timeout, IdleTimeout
  <2> QED  BY <2>1, RunnerRefines, OthersRefine DEF Next, Others
<1> QED  BY InvInit, InvNext, InitRefines, <1>1, PTL DEF Spec, KeepsPromise, Promise!Spec

\* A run whose streams both reached their end was captured to the last byte.
THEOREM RunIsComplete == Spec => []ExitedIsComplete
<1>1. Inv => ExitedIsComplete
  BY DEF Inv, TypeInv, StreamInv, ExitedIsComplete
<1> QED  BY InvInit, InvNext, <1>1, PTL DEF Spec

-----------------------------------------------------------------------------
(* Time.  Every write is in time with the last activity the loop has seen, *)
(* except one of this instant that still waits in a pipe; time does not     *)
(* pass over such a pipe.                                                   *)

Unread == \E s \in Polled : Pending(s) > 0

TimeInv ==
  /\ clock \in 0..MaxTime /\ lastActivity \in 0..clock
  /\ wrote \subseteq 0..clock
  /\ pc \in {"readStdout", "readStderr"} => lastActivity = clock
  /\ pc \in {"start"} \cup Loop =>
       \A t \in wrote : t <= lastActivity \/ (t = clock /\ Unread)

LEMMA TimeInit == Init => TimeInv
BY CaptureAssumption DEF Init, TimeInv

\* The steps of the loop that neither read nor take time.
LEMMA LoopKeepsTime ==
  ASSUME Inv, TimeInv, pc' \notin {"readStdout", "readStderr"},
         pc' \in {"start"} \cup Loop => pc \in {"start"} \cup Loop,
         UNCHANGED <<clock, lastActivity, wrote, eof, got, written>>
  PROVE  TimeInv'
<1>1. Unread' <=> Unread
  BY DEF Unread, Polled, Pending
<1> QED  BY <1>1 DEF TimeInv

LEMMA RunnerKeepsTime == Inv /\ TimeInv /\ (Runner \/ Mishap) => TimeInv'
<1> SUFFICES ASSUME Inv, TimeInv, Runner \/ Mishap PROVE TimeInv'
  OBVIOUS
<1> USE DEF output
<1>1. CASE StartFails \/ Start \/ Limits \/ PollExpires \/ PollInterrupted \/ PollFails
  <2>1. /\ pc \in {"start", "limits", "poll"} /\ pc' \in {"done", "limits", "close", "poll"}
        /\ UNCHANGED <<clock, lastActivity, wrote, eof, got, written>>
    BY <1>1 DEF StartFails, Start, Limits, PollExpires, PollInterrupted, PollFails
  <2> QED  BY <2>1, LoopKeepsTime DEF Loop
<1>2. CASE CloseEnds \/ Kill \/ Wait
  <2>1. /\ pc' \in {"wait", "kill", "done"}
        /\ UNCHANGED <<clock, lastActivity, wrote, eof, got, written>>
    BY <1>2 DEF CloseEnds, Kill, Wait, Ends
  <2> QED  BY <2>1, LoopKeepsTime DEF Loop
<1>3. CASE PollReady
  <2>1. lastActivity' = clock /\ UNCHANGED <<clock, wrote>>
    BY <1>3 DEF PollReady
  <2>2. \A t \in wrote : t <= clock
    BY DEF TimeInv
  <2> QED  BY <2>1, <2>2 DEF TimeInv
<1>4. CASE ReadStdout \/ ReadStderr
  <2>1. /\ pc \in {"readStdout", "readStderr"}
        /\ UNCHANGED <<clock, lastActivity, wrote>>
    BY <1>4 DEF ReadStdout, ReadStderr
  <2>2. lastActivity = clock /\ \A t \in wrote : t <= clock
    BY <2>1 DEF TimeInv
  <2> QED  BY <2>1, <2>2 DEF TimeInv
<1> QED  BY <1>1, <1>2, <1>3, <1>4 DEF Runner, Mishap

\* A stream that is written to is open, so it is still polled.
LEMMA ChildKeepsTime == Inv /\ TimeInv /\ Child => TimeInv'
<1> SUFFICES ASSUME Inv, TimeInv, Child PROVE TimeInv'
  OBVIOUS
<1> USE DEF parent, output
<1>1. ASSUME NEW s \in Streams, Write(s), written' # written PROVE TimeInv'
  <2>1. /\ s \in open /\ written' = [written EXCEPT ![s] = @ + 1]
        /\ wrote' = wrote \cup {clock}
        /\ UNCHANGED <<pc, clock, lastActivity, eof, got>>
    BY <1>1 DEF Write, Ends
  <2>2. s \in Polled' /\ Pending(s)' > 0
    BY <2>1 DEF Inv, TypeInv, StreamInv, Polled, Pending
  <2>3. Unread'
    BY <2>2 DEF Unread
  <2>4. clock \in 0..clock
    BY DEF TimeInv
  <2> QED  BY <2>1, <2>3, <2>4 DEF TimeInv
<1>2. CASE UNCHANGED <<written, wrote>>
  <2>1. UNCHANGED <<pc, clock, lastActivity, eof, got>>
    BY DEF Child, Exec, Unblock, Exit, Write, CloseStream
  <2>2. Unread' <=> Unread
    BY <1>2, <2>1 DEF Unread, Polled, Pending
  <2> QED  BY <1>2, <2>1, <2>2 DEF TimeInv
<1>3. ASSUME NEW s \in Streams, Write(s), written' = written PROVE UNCHANGED wrote
  <2>1. written'[s] = written[s] /\ written[s] \in Nat
    BY <1>3 DEF Inv, TypeInv
  <2> QED  BY <1>3, <2>1 DEF Write, Ends, Inv, TypeInv
<1>4. Exec \/ Unblock \/ Exit \/ (\E s \in Streams : CloseStream(s))
        => UNCHANGED <<written, wrote>>
  BY DEF Exec, Unblock, Exit, CloseStream, Ends
<1> QED  BY <1>1, <1>2, <1>3, <1>4 DEF Child

\* Time passes in the loop only when nothing that is polled is to be read.
LEMMA TickKeepsTime == Inv /\ TimeInv /\ Tick => TimeInv'
<1> SUFFICES ASSUME Inv, TimeInv, Tick PROVE TimeInv'
  OBVIOUS
<1>1. /\ clock' = clock + 1 /\ clock < MaxTime /\ pc \in {"poll", "wait"}
      /\ UNCHANGED <<pc, lastActivity, wrote>>
  BY DEF Tick, parent, output
<1>2. clock' \in 0..MaxTime /\ lastActivity' \in 0..clock' /\ wrote' \subseteq 0..clock'
  BY <1>1, CaptureAssumption DEF TimeInv
<1>3. pc = "poll" => ~Unread
  BY DEF Tick, Unread, Readable
<1>4. pc = "poll" => \A t \in wrote : t <= lastActivity
  BY <1>3 DEF TimeInv, Loop
<1> QED  BY <1>1, <1>2, <1>4 DEF TimeInv, Loop

LEMMA TimeNext == Inv /\ TimeInv /\ [Next]_vars => TimeInv'
<1>1. UNCHANGED vars => UNCHANGED <<pc, clock, lastActivity, wrote, eof, got, written>>
  BY DEF vars
<1>2. Inv /\ TimeInv /\ UNCHANGED vars => TimeInv'
  BY <1>1 DEF TimeInv, Unread, Polled, Pending
<1> QED  BY <1>2, RunnerKeepsTime, ChildKeepsTime, TickKeepsTime DEF Next, Over

-----------------------------------------------------------------------------
(* What the types leave out: the options never change, a pipe never holds   *)
(* more than its capacity, and a poll gives up at a moment, or never.       *)

BoundsInv ==
  /\ options \in [timeout : Timeouts, idle_timeout : IdleTimeouts]
  /\ deadline \in Nat \cup {NoLimit}
  /\ result \in [outcome : Outcomes, code : Int, idle : BOOLEAN]
  /\ open \subseteq Streams /\ blocked \in Streams \cup {Nobody}
  /\ \A s \in Streams : written[s] <= MaxOutput /\ Pending(s) <= Capacity

LEMMA BoundsInit == Init => BoundsInv
BY CaptureAssumption DEF Init, BoundsInv, Outcomes, Pending, NoLimit

LEMMA LimitsAreTimes ==
  ASSUME BoundsInv
  PROVE  Timeout \in Nat \cup {NoLimit} /\ IdleTimeout \in Nat \cup {NoLimit}
<1>1. options.timeout \in Timeouts /\ options.idle_timeout \in IdleTimeouts
  BY DEF BoundsInv
<1> QED  BY <1>1, CaptureAssumption DEF Timeout, IdleTimeout

LEMMA EarliestIsTime ==
  ASSUME TimeInv, BoundsInv
  PROVE  Earliest \in Nat \cup {NoLimit}
<1>1. /\ lastActivity \in Nat /\ Timeout \in Nat \cup {NoLimit}
      /\ IdleTimeout \in Nat \cup {NoLimit}
  BY LimitsAreTimes DEF TimeInv
<1> DEFINE ends == {t \in {Timeout} : t # NoLimit}
                     \cup {lastActivity + t : t \in {IdleTimeout} \ {NoLimit}}
<1>2. ends \subseteq Nat
  BY <1>1
<1>3. ends # {} => \E t \in ends : \A u \in ends : t <= u
  <2>1. ASSUME Timeout # NoLimit, IdleTimeout # NoLimit
        PROVE  \E t \in ends : \A u \in ends : t <= u
    <3>1. ends = {Timeout, lastActivity + IdleTimeout}
      BY <2>1
    <3>2. CASE Timeout <= lastActivity + IdleTimeout
      BY <1>1, <2>1, <3>1, <3>2
    <3>3. CASE ~(Timeout <= lastActivity + IdleTimeout)
      BY <1>1, <2>1, <3>1, <3>3
    <3> QED  BY <3>2, <3>3
  <2>2. ASSUME Timeout = NoLimit \/ IdleTimeout = NoLimit, ends # {}
        PROVE  \E t \in ends : \A u \in ends : t <= u
    <3>1. ends = {Timeout} \/ ends = {lastActivity + IdleTimeout}
      BY <2>2
    <3> QED  BY <1>2, <3>1
  <2> QED  BY <2>1, <2>2
<1>4. Earliest = IF ends = {} THEN NoLimit
                 ELSE CHOOSE t \in ends : \A u \in ends : t <= u
  BY DEF Earliest
<1> HIDE DEF ends
<1> QED  BY <1>2, <1>3, <1>4

LEMMA RunnerKeepsBounds == Inv /\ TimeInv /\ BoundsInv /\ (Runner \/ Mishap) => BoundsInv'
<1> SUFFICES ASSUME Inv, TimeInv, BoundsInv, Runner \/ Mishap PROVE BoundsInv'
  OBVIOUS
<1>1. options' = options /\ written' = written
  BY DEF Runner, Mishap, StartFails, Start, Limits, PollReady, PollExpires, PollInterrupted,
         PollFails, ReadStdout, ReadStderr, CloseEnds, Kill, Wait, Ends, output
<1>2. open' \subseteq Streams /\ blocked' \in Streams \cup {Nobody}
  BY DEF Runner, Mishap, StartFails, Start, Limits, PollReady, PollExpires, PollInterrupted,
         PollFails, ReadStdout, ReadStderr, CloseEnds, Kill, Wait, Ends, output, BoundsInv
<1>3. deadline' \in Nat \cup {NoLimit}
  <2>1. deadline' \in {deadline, NoLimit, Earliest}
    BY DEF Runner, Mishap, StartFails, Start, Limits, PollReady, PollExpires,
           PollInterrupted, PollFails, ReadStdout, ReadStderr, CloseEnds, Kill, Wait
  <2> QED  BY <2>1, EarliestIsTime DEF BoundsInv
<1>4. result' \in [outcome : Outcomes, code : Int, idle : BOOLEAN]
  <2>1. CASE result' = result
    BY <2>1 DEF BoundsInv
  <2>2. CASE Wait
    <3>1. child.code \in Int
      BY DEF Inv, TypeInv, Codes
    <3> QED  BY <2>2, <3>1 DEF Wait, Outcomes
  <2> QED  BY <2>1, <2>2 DEF Runner, Mishap, StartFails, Start, Limits, PollReady, PollExpires,
               PollInterrupted, PollFails, ReadStdout, ReadStderr, CloseEnds, Kill
<1>5. \A s \in Streams : written'[s] <= MaxOutput /\ Pending(s)' <= Capacity
  <2>1. CASE got' = got
    BY <1>1, <2>1 DEF BoundsInv, Pending
  <2>2. CASE ReadStdout \/ ReadStderr
    <3>1. PICK r \in Streams : DrainOrEnd(r) /\ (r \in ready => Readable(r))
      BY <2>2 DEF ReadStdout, ReadStderr, Streams, Inv, StreamInv
    <3>2. got' = got \/ \E n \in (got[r] + 1)..written[r] : got' = [got EXCEPT ![r] = n]
      BY <3>1, DrainedOrEnded DEF Inv
    <3> QED  BY <1>1, <3>2, CaptureAssumption DEF BoundsInv, Pending, Inv, TypeInv
  <2> QED  BY <2>1, <2>2 DEF Runner, Mishap, StartFails, Start, Limits, PollReady, PollExpires,
               PollInterrupted, PollFails, CloseEnds, Kill, Wait
<1> QED  BY <1>1, <1>2, <1>3, <1>4, <1>5 DEF BoundsInv

\* A full pipe blocks the child instead of taking more.
LEMMA OthersKeepBounds == Inv /\ BoundsInv /\ Others => BoundsInv'
<1> SUFFICES ASSUME Inv, BoundsInv, Others PROVE BoundsInv'
  OBVIOUS
<1>1. UNCHANGED <<options, deadline, result, got>> /\ open' \subseteq Streams
  BY ChildSteps DEF parent, BoundsInv
<1>2. blocked' \in Streams \cup {Nobody}
  BY DEF Others, Child, Exec, Unblock, Exit, Write, CloseStream, Tick, Over, Ends, output, vars,
         BoundsInv
<1>3. \A s \in Streams : written'[s] <= MaxOutput /\ Pending(s)' <= Capacity
  <2>1. CASE written' = written
    BY <1>1, <2>1 DEF BoundsInv, Pending
  <2>2. CASE written' # written
    <3>1. PICK s \in Streams : Write(s)
      BY <2>2 DEF Others, Child, Exec, Unblock, Exit, CloseStream, Tick, Over, Ends, output, vars
    <3>2. /\ written[s] < MaxOutput /\ Pending(s) # Capacity
          /\ written' = [written EXCEPT ![s] = @ + 1]
      BY <2>2, <3>1 DEF Write, Ends
    <3> QED  BY <1>1, <3>2, CaptureAssumption DEF BoundsInv, Pending, Inv, TypeInv
  <2> QED  BY <2>1, <2>2
<1> QED  BY <1>1, <1>2, <1>3 DEF BoundsInv

LEMMA BoundsNext == Inv /\ TimeInv /\ BoundsInv /\ [Next]_vars => BoundsInv'
<1>1. Inv /\ BoundsInv /\ UNCHANGED vars => BoundsInv'
  BY DEF vars, BoundsInv, Pending
<1> QED  BY <1>1, RunnerKeepsBounds, OthersKeepBounds DEF Next, Others

\* Every variable keeps its type: no read takes more than was written, no pipe
\* holds more than its capacity, and no activity lies in the future.
THEOREM TypeCorrect == Spec => []TypeOK
<1>1. Inv /\ TimeInv /\ BoundsInv => TypeOK
  <2> SUFFICES ASSUME Inv, TimeInv, BoundsInv PROVE TypeOK
    OBVIOUS
  <2>1. child \in [state : {"none", "running", "zombie", "reaped"}, code : Nat,
                   launched : BOOLEAN]
    BY DEF Inv, TypeInv, Ended, Codes
  <2>2. \A s \in Streams : got[s] \in 0..written[s] /\ written[s] \in 0..MaxOutput
    BY CaptureAssumption DEF Inv, TypeInv, BoundsInv
  <2>3. wrote \subseteq 0..MaxTime
    BY CaptureAssumption DEF TimeInv
  <2> QED  BY <2>1, <2>2, <2>3 DEF TypeOK, Inv, TypeInv, TimeInv, BoundsInv, Loop, Leaving
<1> QED  BY InvInit, InvNext, TimeInit, TimeNext, BoundsInit, BoundsNext, <1>1, PTL DEF Spec

\* When the idle limit fires the child had written nothing for the whole
\* window, however late output was read and whatever interrupted the polls.
THEOREM IdleIsSilence == Spec => IdleMeansSilent
<1>1. ASSUME Inv, TimeInv, BoundsInv, [Next]_vars, limit' = "idle", limit # "idle"
      PROVE  wrote \cap ((clock - IdleTimeout + 1)..(clock - 1)) = {}
  <2>1. Limits
    BY <1>1, ChildSteps DEF Next, Runner, Mishap, Others, Child, parent, vars, output,
       StartFails, Start, PollReady, PollExpires, PollInterrupted, PollFails, ReadStdout,
       ReadStderr, CloseEnds, Kill, Wait
  <2>2. pc = "limits" /\ clock - lastActivity >= IdleTimeout /\ IdleTimeout # NoLimit
    BY <1>1, <2>1 DEF Limits, IdleExpired
  <2>3. \A t \in wrote : t \in Nat /\ (t <= lastActivity \/ t = clock)
    BY <1>1, <2>2 DEF TimeInv, Loop
  <2>4. clock \in Nat /\ lastActivity \in Nat
    BY <1>1 DEF TimeInv
  <2>5. IdleTimeout \in Int
    BY <1>1, LimitsAreTimes DEF NoLimit
  <2> QED  BY <2>2, <2>3, <2>4, <2>5
<1> QED  BY InvInit, InvNext, TimeInit, TimeNext, BoundsInit, BoundsNext, <1>1,
            PTL DEF Spec, IdleMeansSilent
=================================================================================
