---------------------------- MODULE RunCapturedWin ----------------------------
(***************************************************************************)
(* run_captured on Windows (src/src/process/process_runner_win.cpp): one   *)
(* child whose stdout and stderr are pipes, a reader thread for each, and  *)
(* a main thread that waits for the process, not for the pipes: in one go  *)
(* without an idle limit, in slices with one, watching a counter that the  *)
(* readers bump.                                                           *)
(*                                                                         *)
(* As in RunCaptured, output is counted in small units and time only       *)
(* passes while all three threads are blocked.                             *)
(***************************************************************************)
EXTENDS Integers

CONSTANTS
  Timeouts,      \* the total limits a caller asks for, NoLimit among them
  IdleTimeouts,  \* the idle limits a caller asks for, NoLimit among them
  Slice,         \* kSliceMs
  KillGrace,     \* how long a terminated child is waited for (5000 ms)
  Capacity,      \* what a pipe holds before a writer blocks
  BufferSize,    \* what one ReadFile takes at most (4096 bytes)
  MaxOutput,     \* what the child writes to a stream, a bound
  MaxTime,       \* end of time, a bound
  Faults         \* subset of the set in CaptureAssumption

\* An option that is not set.
NoLimit == -1

ASSUME CaptureAssumption ==
  /\ Timeouts \subseteq Nat \cup {NoLimit}
  /\ IdleTimeouts \subseteq Nat \cup {NoLimit}
  /\ Slice \in Nat \ {0} /\ KillGrace \in Nat
  /\ Capacity \in Nat \ {0} /\ BufferSize \in Nat \ {0}
  /\ MaxOutput \in Nat /\ MaxTime \in Nat
  /\ Faults \subseteq {"pipe", "create", "close", "descendant"}

Streams == {"stdout", "stderr"}

\* What GetExitCodeProcess says of a process that still runs.
StillActive == 259

VARIABLES
  options,       \* options.timeout and options.idle_timeout, never change
  pc,            \* where the main thread is
  clock,         \* steady_clock, start_time is 0
  waitEnd,       \* when the wait in progress gives up, NoLimit for INFINITE
  lastActivity,  \* last_activity
  lastSeen,      \* last_seen
  activity,      \* the counter shared with the readers
  reader,        \* where each reader thread is
  got,           \* what is captured of each stream
  limit,         \* timed_out and idle_timed_out: "none", "total", "idle"
  result,        \* the ProcessResult
  child,         \* the child's state and exit code
  written,       \* what the child wrote to each stream
  open,          \* streams whose write end some process still holds
  blocked,       \* the stream whose full pipe the child is blocked on
  wrote          \* times at which the child wrote, for the properties

main == <<options, pc, waitEnd, lastActivity, lastSeen, limit, result>>
readers == <<activity, reader, got>>
output == <<written, open, blocked, wrote>>
vars == <<main, readers, clock, child, output>>

Nobody == "nobody"

Timeout     == options.timeout
IdleTimeout == options.idle_timeout

Init ==
  /\ options \in [timeout : Timeouts, idle_timeout : IdleTimeouts]
  /\ pc = "start"
  /\ clock = 0 /\ waitEnd = NoLimit
  /\ lastActivity = 0 /\ lastSeen = 0 /\ activity = 0
  /\ reader = [s \in Streams |-> "none"]
  /\ got = [s \in Streams |-> 0]
  /\ limit = "none"
  /\ result = [outcome |-> "FailedToStart", code |-> -1, idle |-> FALSE]
  /\ child = [state |-> "none", code |-> 0]
  /\ written = [s \in Streams |-> 0]
  /\ open = {} /\ blocked = Nobody /\ wrote = {}

-----------------------------------------------------------------------------
(* The main thread.                                                        *)

\* CreatePipe or CreateProcessW failed.
StartFails ==
  /\ pc = "start" /\ Faults \cap {"pipe", "create"} # {}
  /\ pc' = "done"
  /\ UNCHANGED <<options, waitEnd, lastActivity, lastSeen, limit, result,
                 readers, clock, child, output>>

\* Mutant: waits for the process without a limit unless there is an idle one.
WaitEndInfinite == IF IdleTimeout = NoLimit THEN NoLimit ELSE clock + Slice

\* When the next WaitForSingleObject gives up.
WaitEnd == IF IdleTimeout = NoLimit THEN Timeout ELSE clock + Slice

\* The child runs, the parent's copies of the write ends are closed, and both
\* readers have started.
Start ==
  /\ pc = "start"
  /\ pc' = "started"
  /\ child' = [child EXCEPT !.state = "running"]
  /\ open' = Streams
  /\ reader' = [s \in Streams |-> "reading"]
  /\ UNCHANGED <<options, waitEnd, lastActivity, lastSeen, limit, result,
                 activity, got, clock, written, blocked, wrote>>

\* The first wait begins; what the readers have already counted is not news.
BeginWait ==
  /\ pc = "started"
  /\ pc' = "wait"
  /\ waitEnd' = WaitEnd
  /\ lastActivity' = clock /\ lastSeen' = activity
  /\ UNCHANGED <<options, limit, result, readers, clock, child, output>>

WaitSignaled ==
  /\ pc = "wait" /\ child.state = "ended"
  /\ pc' = "join"
  /\ UNCHANGED <<options, waitEnd, lastActivity, lastSeen, limit, result,
                 readers, clock, child, output>>

\* WAIT_TIMEOUT: a total limit that is the only one has expired; a slice is
\* over.
WaitExpires ==
  /\ pc = "wait" /\ child.state # "ended"
  /\ waitEnd # NoLimit /\ clock >= waitEnd
  /\ IF IdleTimeout = NoLimit
       THEN pc' = "kill" /\ limit' = "total"
       ELSE pc' = "slice" /\ UNCHANGED limit
  /\ UNCHANGED <<options, waitEnd, lastActivity, lastSeen, result, readers,
                 clock, child, output>>

TotalExpired == Timeout # NoLimit /\ clock >= Timeout

\* Mutant: reads the counter but forgets what it has seen.
NoticedForgetful ==
  /\ lastActivity' = IF activity # lastSeen THEN clock ELSE lastActivity
  /\ UNCHANGED lastSeen

\* Mutant: notes the counter without restarting the idle window.
NoticedLate == lastSeen' = activity /\ UNCHANGED lastActivity

\* Output since the last slice restarts the idle window.
Noticed ==
  /\ lastActivity' = IF activity # lastSeen THEN clock ELSE lastActivity
  /\ lastSeen' = activity

\* The idle limit is looked at before the total one.
ExpiredInSlice ==
  IF clock - lastActivity' >= IdleTimeout THEN "idle"
  ELSE IF TotalExpired THEN "total" ELSE "none"

EndOfSlice ==
  /\ pc = "slice"
  /\ Noticed
  /\ limit' = ExpiredInSlice
  /\ IF limit' = "none" THEN pc' = "wait" /\ waitEnd' = clock + Slice
                        ELSE pc' = "kill" /\ UNCHANGED waitEnd
  /\ UNCHANGED <<options, result, readers, clock, child, output>>

\* TerminateProcess only asks for the end; a child that has ended ignores it.
Terminate ==
  /\ pc = "kill"
  /\ pc' = "killWait"
  /\ waitEnd' = clock + KillGrace
  /\ child' = IF child.state = "running"
                THEN [state |-> "dying", code |-> 1] ELSE child
  /\ UNCHANGED <<options, lastActivity, lastSeen, limit, result, readers,
                 clock, output>>

KillWaitOver ==
  /\ pc = "killWait"
  /\ child.state = "ended" \/ clock >= waitEnd
  /\ pc' = "join"
  /\ UNCHANGED <<options, waitEnd, lastActivity, lastSeen, limit, result,
                 readers, clock, child, output>>

\* Mutant: does not join the readers.
NotJoined == TRUE

\* The destructors of both readers have joined their threads.
Joined == \A s \in Streams : reader[s] = "done"

Finish ==
  /\ pc = "join" /\ Joined
  /\ pc' = "done"
  /\ result' = [outcome |-> IF limit = "none" THEN "Exited" ELSE "TimedOut",
                code |-> IF child.state = "ended" THEN child.code
                                                  ELSE StillActive,
                idle |-> limit = "idle"]
  /\ UNCHANGED <<options, waitEnd, lastActivity, lastSeen, limit, readers,
                 clock, child, output>>

-----------------------------------------------------------------------------
(* The reader threads.                                                     *)

Pending(s) == written[s] - got[s]

\* Mutant: appends the whole buffer, however much was read.
TakenBuffer(s) == got[s] + BufferSize

Taken(s) == IF Pending(s) > BufferSize THEN got[s] + BufferSize
                                       ELSE written[s]

\* ReadFile returned a chunk, which is appended; the counter comes after.
Read(s) ==
  /\ reader[s] = "reading" /\ Pending(s) > 0
  /\ got' = [got EXCEPT ![s] = Taken(s)]
  /\ reader' = [reader EXCEPT ![s] = "bumping"]
  /\ UNCHANGED <<main, activity, clock, child, output>>

Bump(s) ==
  /\ reader[s] = "bumping"
  /\ activity' = activity + 1
  /\ reader' = [reader EXCEPT ![s] = "reading"]
  /\ UNCHANGED <<main, got, clock, child, output>>

\* The pipe is empty and nobody holds its write end.
ReadEnds(s) ==
  /\ reader[s] = "reading" /\ Pending(s) = 0 /\ s \notin open
  /\ reader' = [reader EXCEPT ![s] = "done"]
  /\ UNCHANGED <<main, activity, got, clock, child, output>>

-----------------------------------------------------------------------------
(* The child, the kernel and time.                                         *)

\* A process ends; a descendant of it may go on holding the pipes.
Ends(code) ==
  /\ child' = [state |-> "ended", code |-> code]
  /\ blocked' = Nobody
  /\ \/ open' = {}
     \/ "descendant" \in Faults /\ UNCHANGED open
  /\ UNCHANGED <<written, wrote>>

Acts == child.state = "running" /\ blocked = Nobody

Write(s) ==
  /\ Acts /\ s \in open /\ written[s] < MaxOutput
  /\ IF Pending(s) = Capacity
       THEN blocked' = s /\ UNCHANGED <<written, open, wrote>>
       ELSE /\ written' = [written EXCEPT ![s] = @ + 1]
            /\ wrote' = wrote \cup {clock}
            /\ UNCHANGED <<open, blocked>>
  /\ UNCHANGED <<main, readers, clock, child>>

Unblock ==
  /\ child.state = "running" /\ blocked # Nobody
  /\ Pending(blocked) < Capacity
  /\ blocked' = Nobody
  /\ UNCHANGED <<main, readers, clock, child, written, open, wrote>>

CloseStream(s) ==
  /\ Acts /\ "close" \in Faults /\ s \in open
  /\ open' = open \ {s}
  /\ UNCHANGED <<main, readers, clock, child, written, blocked, wrote>>

Exit ==
  /\ Acts /\ Ends(0)
  /\ UNCHANGED <<main, readers, clock>>

\* The kernel carries out a TerminateProcess, unless a driver holds on to the
\* process.
Dies ==
  /\ child.state = "dying" /\ Ends(child.code)
  /\ UNCHANGED <<main, readers, clock>>

DescendantEnds ==
  /\ child.state = "ended" /\ open # {}
  /\ open' = {}
  /\ UNCHANGED <<main, readers, clock, child, written, blocked, wrote>>

ReaderBlocked(s) ==
  \/ reader[s] = "done"
  \/ reader[s] = "reading" /\ Pending(s) = 0 /\ s \in open

Tick ==
  /\ clock < MaxTime
  /\ \A s \in Streams : ReaderBlocked(s)
  /\ \/ /\ pc \in {"wait", "killWait"} /\ child.state # "ended"
        /\ waitEnd = NoLimit \/ clock < waitEnd
     \/ pc = "join" /\ ~Joined
  /\ clock' = clock + 1
  /\ UNCHANGED <<main, readers, child, output>>

\* run_captured has returned, or the end of time has come.
Over == (pc = "done" \/ clock = MaxTime) /\ UNCHANGED vars

Main ==
  \/ Start \/ BeginWait \/ WaitSignaled \/ WaitExpires \/ EndOfSlice
  \/ Terminate \/ KillWaitOver \/ Finish

Readers == \E s \in Streams : Read(s) \/ Bump(s) \/ ReadEnds(s)

Child ==
  \/ Unblock \/ Exit
  \/ \E s \in Streams : Write(s) \/ CloseStream(s)

Next ==
  \/ StartFails \/ Main \/ Readers
  \/ Child \/ Dies \/ DescendantEnds
  \/ Tick \/ Over

Spec == Init /\ [][Next]_vars

\* The threads of FluxInfer are scheduled and time passes.  Nothing is assumed
\* of the child, of its descendants, or of the driver it is stuck in.
FairSpec ==
  /\ Spec
  /\ WF_vars(Main) /\ WF_vars(Tick)
  /\ \A s \in Streams : WF_vars(Read(s) \/ Bump(s) \/ ReadEnds(s))
-----------------------------------------------------------------------------
(* Properties.                                                             *)

TypeOK ==
  /\ pc \in {"start", "started", "wait", "slice", "kill", "killWait",
             "join", "done"}
  /\ clock \in 0..MaxTime /\ lastActivity \in 0..clock
  /\ waitEnd \in Nat \cup {NoLimit}
  /\ lastSeen \in 0..activity
  /\ reader \in [Streams -> {"none", "reading", "bumping", "done"}]
  /\ \A s \in Streams : /\ got[s] \in 0..written[s]
                        /\ written[s] \in 0..MaxOutput
                        /\ Pending(s) <= Capacity
  /\ limit \in {"none", "total", "idle"}
  /\ result \in [outcome : {"FailedToStart", "Exited", "TimedOut"},
                 code : Int, idle : BOOLEAN]
  /\ child \in [state : {"none", "running", "dying", "ended"}, code : Nat]
  /\ open \subseteq Streams /\ blocked \in Streams \cup {Nobody}
  /\ wrote \subseteq 0..MaxTime

\* The idle limit tells "stuck" from "slow" (process_runner.hpp:60-65) although
\* output is only noticed between slices: it fires only when, before the moment
\* it did, the child had written nothing for the whole window.
IdleMeansSilent ==
  [][limit' = "idle" /\ limit # "idle" =>
       wrote \cap ((clock - IdleTimeout + 1)..(clock - 1)) = {}]_vars

Waits == pc = "wait" /\ child.state = "running"

\* A limit is never late by more than the slices cost: one for the total
\* limit; two for silence, one to notice the last output and one to notice
\* that nothing came after it.
LimitsArePunctual ==
  /\ Waits /\ Timeout # NoLimit => clock <= Timeout + Slice
  /\ Waits /\ IdleTimeout # NoLimit =>
       \E t \in wrote \cup {0} : clock < t + IdleTimeout + 2 * Slice

\* With a total limit run_captured returns by itself, whatever the child does
\* with its streams, once the processes that hold the pipes are gone: a
\* terminated child that dies, and descendants that end.
LimitedRunReturns ==
  WF_vars(Dies) /\ WF_vars(DescendantEnds) =>
    (Timeout # NoLimit ~> pc = "done")

Promise == INSTANCE BoundedRun WITH
  Codes    <- {0, 1},
  limited  <- Timeout # NoLimit \/ IdleTimeout # NoLimit,
  stage    <- IF pc = "start" THEN "idle"
              ELSE IF pc = "done" THEN "returned" ELSE "running",
  child    <- [state |-> IF child.state = "dying" THEN "running"
                                                  ELSE child.state,
               code  |-> IF child.state = "ended" THEN child.code ELSE 0],
  produced <- written,
  captured <- got,
  expired  <- limit # "none",
  faulty   <- FALSE,
  result   <- [outcome |-> result.outcome,
               code    |-> IF result.outcome = "Exited" THEN result.code
                                                        ELSE -1]

\* The Windows runner implements the bounded run, and never needs the excuse of
\* a fault: whatever it reports as Exited it captured to the last byte, although
\* the process is waited for before its pipes are drained.
KeepsPromise == Promise!Spec
=============================================================================
