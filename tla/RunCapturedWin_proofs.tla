-------------------------- MODULE RunCapturedWin_proofs --------------------------
(***************************************************************************)
(* The Windows runner implements BoundedRun, and its limits fire for the   *)
(* right reason and in time: proved for every limit, every length of a     *)
(* slice, every size of a pipe and of a chunk, and any amount of output.   *)
(***************************************************************************)
EXTENDS RunCapturedWin, TLAPS

Waiting == {"started", "wait", "slice"}
Killing == {"kill", "killWait"}

\* Types, as far as the refinement needs them.
TypeInv ==
  /\ pc \in {"start", "join", "done"} \cup Waiting \cup Killing
  /\ child \in [state : {"none", "running", "dying", "ended"}, code : {0, 1}]
  /\ reader \in [Streams -> {"none", "reading", "bumping", "done"}]
  /\ got \in [Streams -> Nat] /\ written \in [Streams -> Nat]
  /\ \A s \in Streams : got[s] <= written[s]
  /\ limit \in {"none", "total", "idle"}

\* What is known of the child, the readers and the limits at each place.
MainInv ==
  /\ pc = "start" => child = [state |-> "none", code |-> 0]
  /\ pc \notin {"start", "done"} => child.state # "none"
  /\ pc \in {"start"} \cup Waiting => limit = "none"
  /\ pc \in Killing => limit # "none"
  /\ pc = "join" /\ limit = "none" => child.state = "ended"
  /\ pc = "slice" => IdleTimeout # NoLimit
  /\ pc = "wait" /\ IdleTimeout = NoLimit => waitEnd = Timeout
  /\ pc # "done" => result = [outcome |-> "FailedToStart", code |-> -1, idle |-> FALSE]

\* A reader is done only when nothing can come any more, and none reads before
\* the start or after the end.
ReaderInv ==
  /\ pc = "start" => \A s \in Streams : reader[s] = "none"
  /\ pc = "done" => \A s \in Streams : reader[s] \in {"none", "done"}
  /\ \A s \in Streams : reader[s] = "done" => s \notin open /\ got[s] = written[s]

Inv == TypeInv /\ MainInv /\ ReaderInv

LEMMA InvInit == Init => Inv
BY DEF Init, Inv, TypeInv, MainInv, ReaderInv, Waiting, Killing

-----------------------------------------------------------------------------
(* The invariant, action by action.                                        *)

LEMMA MainKeepsInv == Inv /\ (StartFails \/ Main) => Inv'
<1> SUFFICES ASSUME Inv, StartFails \/ Main PROVE Inv'
  OBVIOUS
<1> USE DEF Inv, TypeInv, MainInv, ReaderInv, Waiting, Killing, readers, output
<1>1. CASE StartFails
  BY <1>1 DEF StartFails
<1>2. CASE Start
  BY <1>2 DEF Start
<1>3. CASE BeginWait
  <2>1. waitEnd' = WaitEnd /\ options' = options /\ pc' = "wait" /\ pc = "started"
    BY <1>3 DEF BeginWait
  <2>2. IdleTimeout' = NoLimit => waitEnd' = Timeout'
    BY <2>1 DEF WaitEnd, IdleTimeout, Timeout
  <2> QED  BY <1>3, <2>1, <2>2 DEF BeginWait
<1>4. CASE WaitSignaled
  BY <1>4 DEF WaitSignaled
<1>5. CASE WaitExpires
  <2>1. CASE IdleTimeout = NoLimit
    BY <1>5, <2>1 DEF WaitExpires
  <2>2. CASE IdleTimeout # NoLimit
    <3>1. IdleTimeout' # NoLimit
      BY <1>5, <2>2 DEF WaitExpires, IdleTimeout
    <3> QED  BY <1>5, <2>2, <3>1 DEF WaitExpires
  <2> QED  BY <2>1, <2>2
<1>6. CASE EndOfSlice
  <2>1. IdleTimeout' # NoLimit
    BY <1>6 DEF EndOfSlice, IdleTimeout
  <2>2. limit' \in {"none", "idle", "total"}
    BY <1>6 DEF EndOfSlice, ExpiredInSlice
  <2>3. pc' = (IF limit' = "none" THEN "wait" ELSE "kill")
    BY <1>6 DEF EndOfSlice
  <2>4. pc = "slice" /\ UNCHANGED <<result, reader, got, child, written, open>>
    BY <1>6 DEF EndOfSlice
  <2> QED  BY <2>1, <2>2, <2>3, <2>4
<1>7. CASE Terminate
  <2>1. child' \in [state : {"none", "running", "dying", "ended"}, code : {0, 1}]
        /\ child'.state # "none"
    BY <1>7 DEF Terminate
  <2>2. /\ pc = "kill" /\ pc' = "killWait"
        /\ UNCHANGED <<limit, result, reader, got, written, open>>
    BY <1>7 DEF Terminate
  <2> QED  BY <2>1, <2>2
<1>8. CASE KillWaitOver
  BY <1>8 DEF KillWaitOver
<1>9. CASE Finish
  <2>1. /\ pc' = "done" /\ \A s \in Streams : reader[s] = "done"
        /\ UNCHANGED <<limit, reader, got, child, written, open>>
    BY <1>9 DEF Finish, Joined
  <2> QED  BY <2>1
<1> QED  BY <1>1, <1>2, <1>3, <1>4, <1>5, <1>6, <1>7, <1>8, <1>9 DEF Main

LEMMA TakenIsNew ==
  ASSUME TypeInv, NEW s \in Streams, Pending(s) > 0
  PROVE  Taken(s) \in (got[s] + 1)..written[s]
BY CaptureAssumption DEF TypeInv, Pending, Taken

LEMMA ReadersKeepInv == Inv /\ Readers => Inv'
<1> SUFFICES ASSUME Inv, NEW s \in Streams, Read(s) \/ Bump(s) \/ ReadEnds(s) PROVE Inv'
  BY DEF Readers
<1> USE DEF Inv, main, output
<1>1. /\ UNCHANGED <<options, pc, waitEnd, limit, result, child, written, open>>
      /\ reader[s] \in {"reading", "bumping"}
  BY DEF Read, Bump, ReadEnds
<1>2. /\ reader' = [reader EXCEPT ![s] = reader'[s]]
      /\ reader'[s] \in {"bumping", "reading", "done"}
      /\ got' = [got EXCEPT ![s] = got'[s]]
      /\ got'[s] \in Nat /\ got'[s] <= written[s]
      /\ reader'[s] = "done" => s \notin open /\ got'[s] = written[s]
  <2>1. CASE Read(s)
    <3>1. Taken(s) \in Nat /\ Taken(s) <= written[s]
      BY <2>1, TakenIsNew DEF Read, TypeInv
    <3> QED  BY <2>1, <3>1 DEF Read, TypeInv
  <2>2. CASE Bump(s)
    BY <2>2 DEF Bump, TypeInv
  <2>3. CASE ReadEnds(s)
    BY <2>3 DEF ReadEnds, TypeInv, Pending
  <2> QED  BY <2>1, <2>2, <2>3
<1>3. TypeInv'
  BY <1>1, <1>2 DEF TypeInv
<1>4. MainInv'
  BY <1>1 DEF MainInv, IdleTimeout, Timeout
<1>5. ReaderInv'
  BY <1>1, <1>2 DEF ReaderInv, TypeInv
<1> QED  BY <1>3, <1>4, <1>5

Others == Child \/ Dies \/ DescendantEnds \/ Tick \/ Over

\* Nothing but the child's own steps changes what it wrote, and it writes only
\* to streams that are open.
LEMMA OthersKeepInv == Inv /\ Others => Inv'
<1> SUFFICES ASSUME Inv, Others PROVE Inv'
  OBVIOUS
<1>1. UNCHANGED <<main, readers>>
  BY DEF Others, Child, Unblock, Exit, Write, CloseStream, Dies, DescendantEnds, Tick, Over, vars
<1>2. open' \subseteq open
  BY DEF Others, Child, Unblock, Exit, Write, CloseStream, Dies, DescendantEnds, Tick, Over,
         Ends, vars, output
<1>3. \/ child' = child
      \/ /\ child'.state = "ended" /\ child.state # "none"
         /\ child' \in [state : {"ended"}, code : {0, 1}]
  BY DEF Inv, TypeInv, Others, Child, Unblock, Exit, Write, CloseStream, Dies,
         DescendantEnds, Tick, Over, Ends, Acts, vars
<1>4. \/ written' = written
      \/ \E s \in open \cap Streams : written' = [written EXCEPT ![s] = @ + 1]
  BY DEF Others, Child, Unblock, Exit, Write, CloseStream, Dies, DescendantEnds, Tick, Over,
         Ends, vars, output
<1>5. pc = "start" => child' = child
  BY DEF Inv, MainInv, Others, Child, Unblock, Exit, Write, CloseStream, Dies,
         DescendantEnds, Tick, Over, Acts, vars
<1>6. TypeInv'
  BY <1>1, <1>3, <1>4 DEF Inv, TypeInv, main, readers
<1>7. MainInv'
  BY <1>1, <1>3, <1>5 DEF Inv, MainInv, main, IdleTimeout, Timeout
<1>8. ReaderInv'
  BY <1>1, <1>2, <1>4 DEF Inv, TypeInv, ReaderInv, main, readers
<1> QED  BY <1>6, <1>7, <1>8 DEF Inv

LEMMA InvNext == Inv /\ [Next]_vars => Inv'
<1>1. Inv /\ UNCHANGED vars => Inv'
  BY DEF Inv, TypeInv, MainInv, ReaderInv, vars, main, readers, output, IdleTimeout, Timeout
<1> QED  BY <1>1, MainKeepsInv, ReadersKeepInv, OthersKeepInv DEF Next, Others

-----------------------------------------------------------------------------
(* Every step is a step of BoundedRun, or none of its business.            *)

LEMMA InitRefines == Init => Promise!Init
BY CaptureAssumption DEF Init, Promise!Init, Promise!NotStarted

LEMMA MainRefines == Inv /\ (StartFails \/ Main) => [Promise!Next]_(Promise!vars)
<1> SUFFICES ASSUME Inv, StartFails \/ Main PROVE [Promise!Next]_(Promise!vars)
  OBVIOUS
<1>1. CASE StartFails
  <2>1. Promise!FailToStart
    BY <1>1 DEF StartFails, Promise!FailToStart, Inv, TypeInv, readers, output, Timeout, IdleTimeout
  <2> QED  BY <2>1 DEF Promise!Next
<1>2. CASE Start
  <2>1. Promise!Launch
    BY <1>2 DEF Start, Promise!Launch, Inv, TypeInv, MainInv, Timeout, IdleTimeout
  <2> QED  BY <2>1 DEF Promise!Next
<1>3. CASE BeginWait \/ WaitSignaled \/ KillWaitOver
  BY <1>3 DEF BeginWait, WaitSignaled, KillWaitOver, Promise!vars, readers, output,
              Timeout, IdleTimeout
<1>4. CASE WaitExpires
  <2>1. CASE IdleTimeout = NoLimit
    <3>1. Timeout # NoLimit
      BY <1>4, <2>1 DEF WaitExpires, Inv, MainInv
    <3>2. Promise!Expire
      BY <1>4, <2>1, <3>1 DEF WaitExpires, Promise!Expire, Inv, MainInv, Waiting, readers,
                              output, Timeout, IdleTimeout
    <3> QED  BY <3>2 DEF Promise!Next
  <2>2. CASE IdleTimeout # NoLimit
    BY <1>4, <2>2 DEF WaitExpires, Promise!vars, readers, output, Timeout, IdleTimeout
  <2> QED  BY <2>1, <2>2
<1>5. CASE EndOfSlice
  <2>1. /\ pc = "slice" /\ pc' = (IF limit' = "none" THEN "wait" ELSE "kill")
        /\ UNCHANGED <<options, result, got, child, written>>
    BY <1>5 DEF EndOfSlice, readers, output
  <2>2. limit = "none" /\ IdleTimeout # NoLimit
    BY <2>1 DEF Inv, MainInv, Waiting
  <2>3. CASE limit' = "none"
    BY <2>1, <2>2, <2>3 DEF Promise!vars, Timeout, IdleTimeout
  <2>4. CASE limit' # "none"
    <3>1. Promise!Expire
      BY <2>1, <2>2, <2>4 DEF Promise!Expire, Timeout, IdleTimeout
    <3> QED  BY <3>1 DEF Promise!Next
  <2> QED  BY <2>3, <2>4
<1>6. CASE Terminate
  <2>1. /\ pc = "kill" /\ pc' = "killWait"
        /\ UNCHANGED <<options, limit, result, got, written>>
        /\ child' = (IF child.state = "running" THEN [state |-> "dying", code |-> 1]
                                                ELSE child)
    BY <1>6 DEF Terminate, readers, output
  <2> QED  BY <2>1 DEF Promise!vars, Timeout, IdleTimeout
<1>7. CASE Finish
  <2>1. /\ pc = "join" /\ pc' = "done" /\ \A s \in Streams : reader[s] = "done"
        /\ UNCHANGED <<options, limit, got, child, written>>
        /\ result'.outcome = (IF limit = "none" THEN "Exited" ELSE "TimedOut")
        /\ result'.code = (IF child.state = "ended" THEN child.code ELSE StillActive)
    BY <1>7 DEF Finish, Joined, readers, output
  <2>2. got = written
    BY <2>1 DEF Inv, TypeInv, ReaderInv
  <2>3. CASE limit = "none"
    <3>1. child.state = "ended"
      BY <2>1, <2>3 DEF Inv, MainInv
    <3>2. Promise!ReturnExited
      BY <2>1, <2>2, <2>3, <3>1 DEF Promise!ReturnExited, Timeout, IdleTimeout
    <3> QED  BY <3>2 DEF Promise!Next
  <2>4. CASE limit # "none"
    <3>1. Promise!ReturnTimedOut
      BY <2>1, <2>4 DEF Promise!ReturnTimedOut, Timeout, IdleTimeout
    <3> QED  BY <3>1 DEF Promise!Next
  <2> QED  BY <2>3, <2>4
<1> QED  BY <1>1, <1>2, <1>3, <1>4, <1>5, <1>6, <1>7 DEF Main

LEMMA ReadersRefine == Inv /\ Readers => [Promise!Next]_(Promise!vars)
<1> SUFFICES ASSUME Inv, NEW s \in Streams, Read(s) \/ Bump(s) \/ ReadEnds(s)
             PROVE  [Promise!Next]_(Promise!vars)
  BY DEF Readers
<1>1. CASE Read(s)
  <2>1. Taken(s) \in (got[s] + 1)..written[s]
    BY <1>1, TakenIsNew DEF Read, Inv
  <2>2. pc \notin {"start", "done"}
    BY <1>1 DEF Read, Inv, ReaderInv
  <2>3. Promise!Capture(s)
    BY <1>1, <2>1, <2>2 DEF Read, Promise!Capture, main, output, Timeout, IdleTimeout
  <2> QED  BY <2>3 DEF Promise!Next
<1>2. CASE Bump(s) \/ ReadEnds(s)
  BY <1>2 DEF Bump, ReadEnds, Promise!vars, main, output, Timeout, IdleTimeout
<1> QED  BY <1>1, <1>2

LEMMA OthersRefine == Inv /\ Others => [Promise!Next]_(Promise!vars)
<1> SUFFICES ASSUME Inv, Others PROVE [Promise!Next]_(Promise!vars)
  OBVIOUS
<1>1. UNCHANGED <<main, readers>>
  BY DEF Others, Child, Unblock, Exit, Write, CloseStream, Dies, DescendantEnds, Tick, Over, vars
<1> USE DEF main, readers, Timeout, IdleTimeout
<1>2. ASSUME NEW s \in Streams, Write(s) PROVE [Promise!Next]_(Promise!vars)
  <2>1. CASE UNCHANGED written
    BY <1>1, <1>2, <2>1 DEF Write, Promise!vars
  <2>2. CASE ~ UNCHANGED written
    <3>1. Promise!Produce(s)
      BY <1>1, <1>2, <2>2 DEF Write, Acts, Promise!Produce
    <3> QED  BY <3>1 DEF Promise!Next
  <2> QED  BY <2>1, <2>2
<1>3. CASE Exit \/ Dies
  <2>1. /\ \E c \in {0, 1} : child' = [state |-> "ended", code |-> c]
        /\ written' = written /\ child.state \in {"running", "dying"}
    BY <1>3 DEF Exit, Dies, Ends, Acts, Inv, TypeInv
  <2>2. Promise!ChildEnds
    BY <1>1, <2>1 DEF Promise!ChildEnds
  <2> QED  BY <2>2 DEF Promise!Next
<1>4. CASE UNCHANGED <<child, written>>
  BY <1>1, <1>4 DEF Promise!vars
<1> QED  BY <1>2, <1>3, <1>4 DEF Others, Child, Unblock, CloseStream, DescendantEnds, Tick,
                                  Over, vars, output

\* What run_captured reports on Windows is what happened: a run that is Exited
\* was captured to the last byte, and a limit that fired is reported as one,
\* for any limits, slices, pipes, chunks and amounts of output.
THEOREM RunKeepsPromise == Spec => KeepsPromise
<1>1. Inv /\ [Next]_vars => [Promise!Next]_(Promise!vars)
  <2>1. UNCHANGED vars => UNCHANGED Promise!vars
    BY DEF vars, main, readers, output, Promise!vars, Timeout, IdleTimeout
  <2> QED  BY <2>1, MainRefines, ReadersRefine, OthersRefine DEF Next, Others
<1> QED  BY InvInit, InvNext, InitRefines, <1>1, PTL DEF Spec, KeepsPromise, Promise!Spec

-----------------------------------------------------------------------------
(* Time.  What was written before this instant has been read and counted;  *)
(* the main thread has noticed it, or will at the end of the slice.         *)

\* Something of the stream is in the pipe, or captured and not yet counted.
Unread(s) == Pending(s) > 0 \/ reader[s] = "bumping"

TimeInv ==
  /\ options \in [timeout : Timeouts, idle_timeout : IdleTimeouts]
  /\ clock \in 0..MaxTime /\ lastActivity \in 0..clock
  /\ activity \in Nat /\ lastSeen \in 0..activity
  /\ wrote \subseteq 0..clock
  /\ \A s \in open : s \in Streams /\ reader[s] \in {"reading", "bumping"}
  /\ \A s \in Streams : Unread(s) => clock \in wrote
  /\ \A t \in wrote : \/ t <= lastActivity \/ activity > lastSeen
                      \/ t = clock /\ \E s \in Streams : Unread(s)

\* A wait with an idle limit: a slice follows a write by as much as the limits
\* and the slice before it allow.
SliceInv ==
  /\ waitEnd # NoLimit /\ clock \in (waitEnd - Slice)..waitEnd
  /\ Timeout # NoLimit => waitEnd <= Timeout + Slice
  /\ \E t \in wrote \cup {0} : /\ lastActivity <= t + Slice
                               /\ waitEnd < t + IdleTimeout + 2 * Slice
  /\ activity > lastSeen => \E t \in wrote : waitEnd <= t + Slice

\* A wait ends on time.
WaitInv ==
  /\ waitEnd \in Nat \cup {NoLimit}
  /\ pc \in {"start", "started"} => clock = 0
  /\ pc = "wait" /\ waitEnd # NoLimit => clock <= waitEnd
  /\ pc \in {"wait", "slice"} /\ IdleTimeout # NoLimit => SliceInv

LEMMA LimitsAreTimes ==
  ASSUME TimeInv
  PROVE  Timeout \in Nat \cup {NoLimit} /\ IdleTimeout \in Nat \cup {NoLimit}
<1>1. options.timeout \in Timeouts /\ options.idle_timeout \in IdleTimeouts
  BY DEF TimeInv
<1> QED  BY <1>1, CaptureAssumption DEF Timeout, IdleTimeout

LEMMA TimeInit == Init => TimeInv /\ WaitInv
<1> SUFFICES ASSUME Init PROVE TimeInv /\ WaitInv
  OBVIOUS
<1>1. TimeInv
  BY CaptureAssumption DEF Init, TimeInv, Unread, Pending
<1>2. WaitInv
  BY DEF Init, WaitInv
<1> QED  BY <1>1, <1>2

\* The main thread does not touch what the readers and the child do.
LEMMA MainKeepsTime == Inv /\ TimeInv /\ (StartFails \/ Main) => TimeInv'
<1> SUFFICES ASSUME Inv, TimeInv, StartFails \/ Main PROVE TimeInv'
  OBVIOUS
<1>1. UNCHANGED <<options, clock, activity, wrote, got, written>>
  BY DEF Main, StartFails, Start, BeginWait, WaitSignaled, WaitExpires, EndOfSlice, Terminate,
         KillWaitOver, Finish, readers, output
<1>2. CASE Start
  <2>1. /\ \A s \in Streams : reader[s] = "none" /\ reader'[s] = "reading"
        /\ open' = Streams /\ UNCHANGED <<lastActivity, lastSeen>>
    BY <1>2 DEF Start, Inv, ReaderInv
  <2>2. \A s \in Streams : Unread(s)' <=> Unread(s)
    BY <1>1, <2>1 DEF Unread, Pending
  <2> QED  BY <1>1, <2>1, <2>2 DEF TimeInv
<1>3. CASE UNCHANGED <<reader, open>>
  <2>1. \A s \in Streams : Unread(s)' <=> Unread(s)
    BY <1>1, <1>3 DEF Unread, Pending
  <2>2. CASE UNCHANGED <<lastActivity, lastSeen>>
    BY <1>1, <1>3, <2>1, <2>2 DEF TimeInv
  <2>3. CASE lastActivity' = clock /\ lastSeen' = activity
    BY <1>1, <1>3, <2>1, <2>3 DEF TimeInv
  <2>4. CASE lastActivity' = lastActivity /\ lastSeen' = activity /\ activity = lastSeen
    BY <1>1, <1>3, <2>1, <2>4 DEF TimeInv
  <2> QED  BY <2>2, <2>3, <2>4 DEF Main, StartFails, Start, BeginWait, WaitSignaled,
               WaitExpires, EndOfSlice, Noticed, Terminate, KillWaitOver, Finish
<1> QED  BY <1>2, <1>3 DEF Main, StartFails, BeginWait, WaitSignaled, WaitExpires, EndOfSlice,
            Terminate, KillWaitOver, Finish, readers, output

\* A chunk stays unread until it is counted.
LEMMA ReadersKeepTime == Inv /\ TimeInv /\ Readers => TimeInv'
<1> SUFFICES ASSUME Inv, TimeInv, NEW s \in Streams, Read(s) \/ Bump(s) \/ ReadEnds(s)
             PROVE  TimeInv'
  BY DEF Readers
<1>1. /\ UNCHANGED <<options, clock, lastActivity, lastSeen, wrote, written, open>>
      /\ \A r \in Streams \ {s} : reader'[r] = reader[r] /\ got'[r] = got[r]
  BY DEF Read, Bump, ReadEnds, main, output, Inv, TypeInv
<1>2. \A r \in Streams \ {s} : Unread(r)' <=> Unread(r)
  BY <1>1 DEF Unread, Pending
<1>3. CASE Read(s)
  <2>1. /\ activity' = activity /\ reader[s] = "reading" /\ reader'[s] = "bumping"
        /\ Unread(s) /\ Unread(s)'
    BY <1>3 DEF Read, Unread, Inv, TypeInv
  <2> QED  BY <1>1, <1>2, <2>1 DEF TimeInv
<1>4. CASE Bump(s)
  <2>1. /\ activity' = activity + 1 /\ reader[s] = "bumping" /\ reader'[s] = "reading"
        /\ Unread(s)
    BY <1>4 DEF Bump, Unread, Inv, TypeInv
  <2>2. activity' \in Nat /\ lastSeen' \in 0..activity' /\ activity' > lastSeen'
    BY <1>1, <2>1 DEF TimeInv
  <2> QED  BY <1>1, <1>2, <2>1, <2>2 DEF TimeInv
<1>5. CASE ReadEnds(s)
  <2>1. /\ activity' = activity /\ reader[s] = "reading" /\ reader'[s] = "done"
        /\ s \notin open /\ got' = got /\ Pending(s) = 0
    BY <1>5 DEF ReadEnds, Inv, TypeInv
  <2>2. ~Unread(s) /\ ~Unread(s)'
    BY <1>1, <2>1 DEF Unread, Pending
  <2> QED  BY <1>1, <1>2, <2>1, <2>2 DEF TimeInv
<1> QED  BY <1>3, <1>4, <1>5

\* A write is of this instant, and time passes only when nothing is unread.
LEMMA OthersKeepTime == Inv /\ TimeInv /\ Others => TimeInv'
<1> SUFFICES ASSUME Inv, TimeInv, Others PROVE TimeInv'
  OBVIOUS
<1>1. UNCHANGED <<main, readers>> /\ open' \subseteq open
  BY DEF Others, Child, Unblock, Exit, Write, CloseStream, Dies, DescendantEnds, Tick, Over, vars,
         Ends, output
<1> USE DEF main, readers
<1>2. ASSUME NEW s \in Streams, Write(s), written' # written PROVE TimeInv'
  <2>1. /\ clock' = clock /\ wrote' = wrote \cup {clock} /\ open' = open
        /\ written' = [written EXCEPT ![s] = @ + 1]
    BY <1>2 DEF Write
  <2>2. Unread(s)' /\ \A r \in Streams : Unread(r) => Unread(r)'
    BY <1>1, <2>1 DEF Unread, Pending, Inv, TypeInv
  <2>3. clock \in 0..clock
    BY DEF TimeInv
  <2> QED  BY <1>1, <2>1, <2>2, <2>3 DEF TimeInv
<1>3. CASE Tick
  <2>1. clock' = clock + 1 /\ clock < MaxTime /\ UNCHANGED <<wrote, written, open>>
    BY <1>3 DEF Tick, output
  <2>2. \A s \in Streams : ~Unread(s) /\ ~Unread(s)'
    BY <1>1, <1>3, <2>1 DEF Tick, ReaderBlocked, Unread, Pending, Inv, TypeInv, ReaderInv
  <2>3. clock' \in 0..MaxTime /\ lastActivity' \in 0..clock' /\ wrote' \subseteq 0..clock'
    BY <1>1, <2>1, CaptureAssumption DEF TimeInv
  <2> QED  BY <1>1, <2>1, <2>2, <2>3 DEF TimeInv
<1>4. CASE UNCHANGED <<clock, wrote, written>>
  <2>1. \A s \in Streams : Unread(s)' <=> Unread(s)
    BY <1>1, <1>4 DEF Unread, Pending
  <2> QED  BY <1>1, <1>4, <2>1 DEF TimeInv
<1>5. ASSUME NEW s \in Streams, Write(s), written' = written
      PROVE  UNCHANGED <<clock, wrote>>
  <2>1. written'[s] = written[s] /\ written[s] \in Nat
    BY <1>5 DEF Inv, TypeInv
  <2> QED  BY <1>5, <2>1 DEF Write, Inv, TypeInv
<1> QED  BY <1>2, <1>3, <1>4, <1>5 DEF Others, Child, Unblock, Exit, CloseStream, Dies,
            DescendantEnds, Over, Ends, vars, output

LEMMA TimeNext == Inv /\ TimeInv /\ [Next]_vars => TimeInv'
<1>1. TimeInv /\ UNCHANGED vars => TimeInv'
  BY DEF TimeInv, Unread, Pending, vars, main, readers, output
<1> QED  BY <1>1, MainKeepsTime, ReadersKeepTime, OthersKeepTime DEF Next, Others

\* What was written before this instant and is not noticed is counted.
LEMMA QuietSinceActivity ==
  ASSUME TimeInv, activity = lastSeen, NEW t \in wrote, t < clock
  PROVE  t <= lastActivity
BY DEF TimeInv

\* When the idle limit fires the child had written nothing for the whole
\* window, although the main thread sees only a counter, between slices.
THEOREM IdleIsSilence == Spec => IdleMeansSilent
<1>1. ASSUME Inv, TimeInv, [Next]_vars, limit' = "idle", limit # "idle"
      PROVE  wrote \cap ((clock - IdleTimeout + 1)..(clock - 1)) = {}
  <2>1. EndOfSlice
    <3>1. CASE Readers \/ Others \/ UNCHANGED vars
      BY <1>1, <3>1 DEF Readers, Read, Bump, ReadEnds, Others, Child, Unblock, Exit, Write,
         CloseStream, Dies, DescendantEnds, Tick, Over, vars, main
    <3>2. CASE StartFails \/ Main
      BY <1>1, <3>2 DEF Main, StartFails, Start, BeginWait, WaitSignaled, WaitExpires,
         Terminate, KillWaitOver, Finish
    <3> QED  BY <1>1, <3>1, <3>2 DEF Next, Others
  <2>2. IdleTimeout \in Nat /\ clock \in Nat /\ lastActivity \in Nat /\ wrote \subseteq Nat
    BY <1>1, <2>1, LimitsAreTimes DEF EndOfSlice, Inv, MainInv, TimeInv
  <2>3. clock - lastActivity' >= IdleTimeout
    BY <1>1, <2>1 DEF EndOfSlice, ExpiredInSlice
  <2>4. CASE activity # lastSeen
    <3>1. lastActivity' = clock
      BY <2>1, <2>4 DEF EndOfSlice, Noticed
    <3> QED  BY <2>2, <2>3, <3>1
  <2>5. CASE activity = lastSeen
    <3>1. lastActivity' = lastActivity
      BY <2>1, <2>5 DEF EndOfSlice, Noticed
    <3>2. \A t \in wrote : t < clock => t <= lastActivity
      BY <1>1, <2>5, QuietSinceActivity
    <3> QED  BY <2>2, <2>3, <3>1, <3>2
  <2> QED  BY <2>4, <2>5
<1> QED  BY InvInit, InvNext, TimeInit, TimeNext, <1>1, PTL DEF Spec, IdleMeansSilent

-----------------------------------------------------------------------------
(* How late a limit may be.                                                *)

\* The first slice begins with the clock at 0.
LEMMA BeginWaitKeepsWait == Inv /\ TimeInv /\ WaitInv /\ BeginWait => WaitInv'
<1> SUFFICES ASSUME Inv, TimeInv, WaitInv, BeginWait PROVE WaitInv'
  OBVIOUS
<1>1. /\ pc' = "wait" /\ clock = 0 /\ waitEnd' = WaitEnd
      /\ lastActivity' = clock /\ lastSeen' = activity /\ activity' = activity
      /\ UNCHANGED <<options, clock, wrote>>
  BY DEF BeginWait, WaitInv, readers, output
<1>2. Timeout \in Nat \cup {NoLimit} /\ IdleTimeout \in Nat \cup {NoLimit}
  BY LimitsAreTimes
<1>3. IdleTimeout' = IdleTimeout /\ Timeout' = Timeout
  BY <1>1 DEF IdleTimeout, Timeout
<1>4. activity \in Nat /\ ~(activity' > lastSeen')
  BY <1>1 DEF TimeInv
<1>5. CASE IdleTimeout = NoLimit
  BY <1>1, <1>2, <1>3, <1>5 DEF WaitEnd, WaitInv, NoLimit
<1>6. CASE IdleTimeout # NoLimit
  <2>1. waitEnd' = Slice /\ Slice \in Nat \ {0} /\ waitEnd' \in Nat
    BY <1>1, <1>6, CaptureAssumption DEF WaitEnd
  <2>2. SliceInv'
    <3>1. 0 <= 0 + Slice /\ Slice < 0 + IdleTimeout + 2 * Slice
      BY <1>2, <1>6, <2>1
    <3>2. \E t \in wrote' \cup {0} : /\ lastActivity' <= t + Slice
                                     /\ waitEnd' < t + IdleTimeout' + 2 * Slice
      BY <1>1, <1>3, <2>1, <3>1
    <3>3. waitEnd' # NoLimit /\ clock' \in (waitEnd' - Slice)..waitEnd'
      BY <1>1, <2>1 DEF NoLimit
    <3>4. Timeout' # NoLimit => waitEnd' <= Timeout' + Slice
      BY <1>2, <1>3, <2>1
    <3> QED  BY <1>4, <3>2, <3>3, <3>4 DEF SliceInv
  <2>3. clock' <= waitEnd'
    BY <1>1, <2>1
  <2> QED  BY <1>1, <2>1, <2>2, <2>3 DEF WaitInv
<1> QED  BY <1>5, <1>6

\* A slice that ends without a limit begins the next one: since the last write
\* that was noticed, less than the idle limit and one slice have passed.
LEMMA EndOfSliceKeepsWait == Inv /\ TimeInv /\ WaitInv /\ EndOfSlice => WaitInv'
<1> SUFFICES ASSUME Inv, TimeInv, WaitInv, EndOfSlice PROVE WaitInv'
  OBVIOUS
<1>1. /\ pc = "slice" /\ Noticed /\ limit' = ExpiredInSlice
      /\ UNCHANGED <<options, clock, activity, wrote>>
  BY DEF EndOfSlice, readers, output
<1>2. IdleTimeout # NoLimit /\ SliceInv
  BY <1>1 DEF Inv, MainInv, WaitInv
<1>3. /\ Timeout \in Nat \cup {NoLimit} /\ IdleTimeout \in Nat
      /\ Slice \in Nat \ {0} /\ clock \in Nat /\ lastActivity \in Nat /\ waitEnd \in Nat
      /\ wrote \cup {0} \subseteq Nat /\ wrote \subseteq Nat
      /\ activity \in Nat /\ lastSeen \in Nat /\ lastSeen <= activity
  BY <1>2, LimitsAreTimes, CaptureAssumption DEF TimeInv, WaitInv, SliceInv
<1>4. IdleTimeout' = IdleTimeout /\ Timeout' = Timeout
  BY <1>1 DEF IdleTimeout, Timeout
<1>5. CASE limit' # "none"
  BY <1>1, <1>5 DEF EndOfSlice, WaitInv
<1>6. CASE limit' = "none"
  <2>1. pc' = "wait" /\ waitEnd' = clock + Slice
    BY <1>6 DEF EndOfSlice
  <2>2. clock - lastActivity' < IdleTimeout /\ (Timeout # NoLimit => clock < Timeout)
    <3>1. ~(clock - lastActivity' >= IdleTimeout) /\ ~TotalExpired
      BY <1>1, <1>6 DEF ExpiredInSlice
    <3>2. lastActivity' \in Nat
      BY <1>1, <1>3 DEF Noticed
    <3>3. clock \in Nat /\ IdleTimeout \in Nat
      BY <1>3
    <3>4. clock - lastActivity' < IdleTimeout
      <4>1. \A c, l, i \in Nat : ~(c - l >= i) => c - l < i
        OBVIOUS
      <4> QED  BY <3>1, <3>2, <3>3, <4>1
    <3>5. Timeout # NoLimit => Timeout \in Nat /\ clock < Timeout
      BY <1>3, <3>1 DEF TotalExpired
    <3> QED  BY <3>4, <3>5
  <2>3. PICK t \in wrote \cup {0} : lastActivity' <= t + Slice
    <3>1. CASE activity # lastSeen
      <4>1. PICK t \in wrote : waitEnd <= t + Slice
        BY <1>2, <1>3, <3>1 DEF SliceInv
      <4>2. lastActivity' = clock /\ clock <= waitEnd
        BY <1>1, <1>2, <3>1 DEF Noticed, SliceInv
      <4> QED  BY <1>3, <4>1, <4>2
    <3>2. CASE activity = lastSeen
      BY <1>1, <1>2, <3>2 DEF Noticed, SliceInv
    <3> QED  BY <3>1, <3>2
  <2>4. waitEnd' < t + IdleTimeout + 2 * Slice
    <3>1. lastActivity' \in Nat /\ t \in Nat
      BY <1>1, <1>3, <2>3 DEF Noticed
    <3>2. clock \in Nat /\ IdleTimeout \in Nat /\ Slice \in Nat
      BY <1>3
    <3>3. lastActivity' <= t + Slice /\ clock - lastActivity' < IdleTimeout
      BY <2>2, <2>3
    <3>4. \A c, l, i, u, n \in Nat :
            l <= u + n /\ c - l < i => c + n < u + i + 2 * n
      OBVIOUS
    <3> QED  BY <2>1, <3>1, <3>2, <3>3, <3>4
  <2>5. SliceInv'
    <3>1. waitEnd' # NoLimit /\ clock' \in (waitEnd' - Slice)..waitEnd'
      BY <1>1, <1>3, <2>1 DEF NoLimit
    <3>2. Timeout' # NoLimit => waitEnd' <= Timeout' + Slice
      BY <1>3, <1>4, <2>1, <2>2
    <3>3. ~(activity' > lastSeen')
      BY <1>1, <1>3 DEF Noticed
    <3>4. \E u \in wrote' \cup {0} : /\ lastActivity' <= u + Slice
                                     /\ waitEnd' < u + IdleTimeout' + 2 * Slice
      BY <1>1, <1>4, <2>3, <2>4
    <3> QED  BY <3>1, <3>2, <3>3, <3>4 DEF SliceInv
  <2>6. waitEnd' \in Nat /\ clock' <= waitEnd'
    BY <1>1, <1>3, <2>1
  <2> QED  BY <1>1, <2>1, <2>5, <2>6 DEF WaitInv
<1> QED  BY <1>5, <1>6

\* Every other step of the main thread ends a wait, or is outside of one.
LEMMA MainKeepsWait == Inv /\ TimeInv /\ WaitInv /\ (StartFails \/ Main) => WaitInv'
<1> SUFFICES ASSUME Inv, TimeInv, WaitInv, StartFails \/ Main PROVE WaitInv'
  OBVIOUS
<1>1. CASE Start \/ StartFails
  BY <1>1 DEF Start, StartFails, WaitInv
<1>2. CASE WaitSignaled \/ KillWaitOver \/ Finish
  BY <1>2 DEF WaitSignaled, KillWaitOver, Finish, WaitInv
<1>3. CASE Terminate
  <2>1. pc' = "killWait" /\ waitEnd' = clock + KillGrace /\ waitEnd' \in Nat
    BY <1>3, CaptureAssumption DEF Terminate, TimeInv
  <2> QED  BY <2>1 DEF WaitInv
<1>4. CASE WaitExpires
  <2>1. /\ pc = "wait" /\ pc' = (IF IdleTimeout = NoLimit THEN "kill" ELSE "slice")
        /\ UNCHANGED <<options, clock, waitEnd, lastActivity, lastSeen, activity, wrote>>
    BY <1>4 DEF WaitExpires, readers, output
  <2>2. SliceInv' <=> SliceInv
    BY <2>1 DEF SliceInv, IdleTimeout, Timeout
  <2>3. IdleTimeout' = IdleTimeout
    BY <2>1 DEF IdleTimeout
  <2> QED  BY <2>1, <2>2, <2>3 DEF WaitInv
<1> QED  BY <1>1, <1>2, <1>3, <1>4, BeginWaitKeepsWait, EndOfSliceKeepsWait DEF Main

\* What is counted was written at this instant, within the slice.
LEMMA ReadersKeepWait == Inv /\ TimeInv /\ WaitInv /\ Readers => WaitInv'
<1> SUFFICES ASSUME Inv, TimeInv, WaitInv, NEW s \in Streams,
                    Read(s) \/ Bump(s) \/ ReadEnds(s)
             PROVE  WaitInv'
  BY DEF Readers
<1>1. UNCHANGED <<options, pc, clock, waitEnd, lastActivity, lastSeen, wrote>>
  BY DEF Read, Bump, ReadEnds, main, output
<1>2. IdleTimeout' = IdleTimeout /\ Timeout' = Timeout
  BY <1>1 DEF IdleTimeout, Timeout
<1>3. CASE activity' = activity
  <2>1. SliceInv' <=> SliceInv
    BY <1>1, <1>2, <1>3 DEF SliceInv
  <2> QED  BY <1>1, <1>2, <2>1 DEF WaitInv
<1>4. CASE Bump(s)
  <2>1. clock \in wrote
    BY <1>4 DEF Bump, TimeInv, Unread
  <2>2. ASSUME SliceInv, waitEnd \in Nat PROVE SliceInv'
    <3>1. clock \in Nat /\ Slice \in Nat /\ waitEnd <= clock + Slice
      BY <2>2, CaptureAssumption DEF SliceInv, TimeInv
    <3>2. \E t \in wrote' : waitEnd' <= t + Slice
      BY <1>1, <2>1, <3>1
    <3> QED  BY <1>1, <1>2, <2>2, <3>2 DEF SliceInv
  <2>3. SliceInv => waitEnd \in Nat
    BY DEF SliceInv, WaitInv
  <2>4. SliceInv => SliceInv'
    BY <2>2, <2>3
  <2> QED  BY <1>1, <1>2, <2>4 DEF WaitInv
<1> QED  BY <1>3, <1>4 DEF Read, ReadEnds

\* Time does not pass the end of a wait.
LEMMA OthersKeepWait == Inv /\ TimeInv /\ WaitInv /\ Others => WaitInv'
<1> SUFFICES ASSUME Inv, TimeInv, WaitInv, Others PROVE WaitInv'
  OBVIOUS
<1>1. UNCHANGED <<options, pc, waitEnd, lastActivity, lastSeen, activity>>
  BY DEF Others, Child, Unblock, Exit, Write, CloseStream, Dies, DescendantEnds, Tick, Over,
         main, readers, vars
<1>2. wrote \subseteq wrote' /\ (clock' = clock \/ Tick)
  BY DEF Others, Child, Unblock, Exit, Write, CloseStream, Dies, DescendantEnds, Tick, Over,
         Ends, vars, output
<1>3. IdleTimeout' = IdleTimeout /\ Timeout' = Timeout
  BY <1>1 DEF IdleTimeout, Timeout
<1>4. CASE clock' = clock
  <2>1. SliceInv => SliceInv'
    BY <1>1, <1>2, <1>3, <1>4 DEF SliceInv
  <2> QED  BY <1>1, <1>3, <1>4, <2>1 DEF WaitInv
<1>5. CASE Tick
  <2>1. /\ clock' = clock + 1 /\ pc \in {"wait", "killWait", "join"}
        /\ pc = "wait" => waitEnd = NoLimit \/ clock < waitEnd
    BY <1>5 DEF Tick
  <2>2. clock \in Nat /\ Slice \in Nat
    BY CaptureAssumption DEF TimeInv
  <2>3. ASSUME SliceInv, pc = "wait" PROVE SliceInv'
    <3>1. waitEnd \in Nat /\ clock < waitEnd /\ clock >= waitEnd - Slice
      BY <2>1, <2>3 DEF SliceInv, WaitInv
    <3>2. clock' \in (waitEnd' - Slice)..waitEnd'
      BY <1>1, <2>1, <2>2, <3>1
    <3> QED  BY <1>1, <1>2, <1>3, <2>3, <3>2 DEF SliceInv
  <2>4. pc = "wait" /\ waitEnd # NoLimit => clock' <= waitEnd
    BY <2>1, <2>2 DEF WaitInv
  <2> QED  BY <1>1, <1>3, <2>1, <2>3, <2>4 DEF WaitInv
<1> QED  BY <1>2, <1>4, <1>5

LEMMA WaitNext == Inv /\ TimeInv /\ WaitInv /\ [Next]_vars => WaitInv'
<1>1. WaitInv /\ UNCHANGED vars => WaitInv'
  BY DEF WaitInv, SliceInv, IdleTimeout, Timeout, vars, main, readers, output
<1> QED  BY <1>1, MainKeepsWait, ReadersKeepWait, OthersKeepWait DEF Next, Others

\* While a child is waited for, its total limit is at most one slice overdue,
\* and its silence lasts less than the idle limit and two slices.
THEOREM LimitsHold == Spec => []LimitsArePunctual
<1>1. ASSUME Inv, TimeInv, WaitInv PROVE LimitsArePunctual
  <2> SUFFICES ASSUME pc = "wait"
               PROVE  /\ Timeout # NoLimit => clock <= Timeout + Slice
                      /\ IdleTimeout # NoLimit =>
                           \E t \in wrote \cup {0} : clock < t + IdleTimeout + 2 * Slice
    BY DEF LimitsArePunctual, Waits
  <2>1. /\ clock \in Nat /\ Slice \in Nat /\ wrote \cup {0} \subseteq Nat
        /\ Timeout \in Nat \cup {NoLimit} /\ IdleTimeout \in Nat \cup {NoLimit}
    BY <1>1, LimitsAreTimes, CaptureAssumption DEF TimeInv
  <2>2. CASE IdleTimeout = NoLimit
    BY <1>1, <2>1, <2>2 DEF Inv, MainInv, WaitInv
  <2>3. CASE IdleTimeout # NoLimit
    <3>1. SliceInv /\ waitEnd \in Nat /\ clock <= waitEnd
      BY <1>1, <2>3 DEF WaitInv, SliceInv
    <3>2. Timeout # NoLimit => waitEnd <= Timeout + Slice
      BY <3>1 DEF SliceInv
    <3>3. PICK t \in wrote \cup {0} : waitEnd < t + IdleTimeout + 2 * Slice
      BY <3>1 DEF SliceInv
    <3>4. t \in Nat /\ IdleTimeout \in Nat
      BY <2>1, <2>3
    <3>5. clock < t + IdleTimeout + 2 * Slice
      BY <2>1, <3>1, <3>3, <3>4
    <3> QED  BY <2>1, <3>1, <3>2, <3>5
  <2> QED  BY <2>2, <2>3
<1> QED  BY InvInit, InvNext, TimeInit, TimeNext, WaitNext, <1>1, PTL DEF Spec

-----------------------------------------------------------------------------
(* What is left of the types: a pipe never holds more than its capacity.   *)

BoundsInv ==
  /\ result \in [outcome : {"FailedToStart", "Exited", "TimedOut"},
                 code : Int, idle : BOOLEAN]
  /\ blocked \in Streams \cup {Nobody}
  /\ \A s \in Streams : written[s] <= MaxOutput /\ Pending(s) <= Capacity

LEMMA BoundsInit == Init => BoundsInv
BY CaptureAssumption DEF Init, BoundsInv, Pending

LEMMA BoundsNext == Inv /\ BoundsInv /\ [Next]_vars => BoundsInv'
<1> SUFFICES ASSUME Inv, BoundsInv, [Next]_vars PROVE BoundsInv'
  OBVIOUS
<1>1. CASE Finish
  <2>1. child.code \in Int
    BY DEF Inv, TypeInv
  <2> QED  BY <1>1, <2>1 DEF Finish, StillActive, readers, output, BoundsInv, Pending
<1>2. CASE (StartFails \/ Main) /\ ~Finish
  <2>1. UNCHANGED <<result, blocked, got, written>>
    BY <1>2 DEF Main, StartFails, Start, BeginWait, WaitSignaled, WaitExpires, EndOfSlice,
                Terminate, KillWaitOver, readers, output
  <2> QED  BY <2>1 DEF BoundsInv, Pending
<1>3. CASE Readers
  <2>1. PICK s \in Streams : Read(s) \/ Bump(s) \/ ReadEnds(s)
    BY <1>3 DEF Readers
  <2>2. UNCHANGED <<result, blocked, written>>
    BY <2>1 DEF Read, Bump, ReadEnds, main, output
  <2>3. got' = got \/ \E n \in (got[s] + 1)..written[s] : got' = [got EXCEPT ![s] = n]
    BY <2>1, TakenIsNew DEF Read, Bump, ReadEnds, Inv
  <2>4. \A r \in Streams : Pending(r)' <= Pending(r)
    BY <2>2, <2>3 DEF Pending, Inv, TypeInv
  <2>5. \A r \in Streams : Pending(r)' \in Int /\ Pending(r) \in Int
    BY <2>2, <2>3 DEF Pending, Inv, TypeInv
  <2> QED  BY <2>2, <2>4, <2>5, CaptureAssumption DEF BoundsInv
<1>4. ASSUME NEW s \in Streams, Write(s) PROVE BoundsInv'
  <2>1. UNCHANGED <<result, got>> /\ blocked' \in Streams \cup {Nobody}
    BY <1>4 DEF Write, main, readers, BoundsInv
  <2>2. CASE written' = written
    BY <2>1, <2>2 DEF BoundsInv, Pending
  <2>3. CASE written' # written
    <3>1. /\ written[s] < MaxOutput /\ Pending(s) # Capacity
          /\ written' = [written EXCEPT ![s] = @ + 1]
      BY <1>4, <2>3 DEF Write
    <3>2. Pending(s) \in Int /\ Pending(s) <= Capacity /\ Capacity \in Nat
      BY CaptureAssumption DEF BoundsInv, Pending, Inv, TypeInv
    <3>3. Pending(s)' = Pending(s) + 1
      BY <2>1, <3>1 DEF Pending, Inv, TypeInv
    <3>4. Pending(s)' <= Capacity /\ written'[s] <= MaxOutput
      BY <3>1, <3>2, <3>3, CaptureAssumption DEF Inv, TypeInv
    <3>5. \A r \in Streams \ {s} : Pending(r)' = Pending(r) /\ written'[r] = written[r]
      BY <2>1, <3>1 DEF Pending, Inv, TypeInv
    <3> QED  BY <2>1, <3>4, <3>5 DEF BoundsInv
  <2> QED  BY <2>2, <2>3
<1>5. CASE Others /\ ~(\E s \in Streams : Write(s))
  <2>1. UNCHANGED <<result, got, written>> /\ blocked' \in {blocked, Nobody}
    BY <1>5 DEF Others, Child, Unblock, Exit, CloseStream, Dies, DescendantEnds, Tick, Over,
                Ends, vars, main, readers, output
  <2> QED  BY <2>1 DEF BoundsInv, Pending
<1>6. CASE UNCHANGED vars
  BY <1>6 DEF BoundsInv, Pending, vars, main, readers, output
<1> QED  BY <1>1, <1>2, <1>3, <1>4, <1>5, <1>6 DEF Next, Others

\* Every variable keeps its type: no read takes more than was written, no pipe
\* holds more than its capacity, and what has been seen was counted.
THEOREM TypeCorrect == Spec => []TypeOK
<1>1. ASSUME Inv, TimeInv, WaitInv, BoundsInv PROVE TypeOK
  <2>1. child \in [state : {"none", "running", "dying", "ended"}, code : Nat]
    BY <1>1 DEF Inv, TypeInv
  <2>2. \A s \in Streams : got[s] \in 0..written[s] /\ written[s] \in 0..MaxOutput
    BY <1>1, CaptureAssumption DEF Inv, TypeInv, BoundsInv
  <2>3. wrote \subseteq 0..MaxTime /\ open \subseteq Streams
    BY <1>1, CaptureAssumption DEF TimeInv
  <2> QED  BY <1>1, <2>1, <2>2, <2>3 DEF TypeOK, Inv, TypeInv, TimeInv, WaitInv, BoundsInv,
              Waiting, Killing
<1> QED  BY InvInit, InvNext, TimeInit, TimeNext, WaitNext, BoundsInit, BoundsNext, <1>1,
            PTL DEF Spec
==================================================================================
