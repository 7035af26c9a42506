----------------------------- MODULE RunCaptured -----------------------------
(***************************************************************************)
(* run_captured on POSIX (src/src/process/process_runner_posix.cpp): one   *)
(* child whose stdout and stderr are pipes, a poll loop that drains both    *)
(* under a total and an idle time limit, and the reaping of the child.      *)
(*                                                                         *)
(* Output is counted in bytes of a small unit; a pipe is what was written   *)
(* less what was read.  Time only passes while FluxInfer is blocked: its    *)
(* own steps take none, so what the time properties show is the best the    *)
(* code can do, not the scheduler's delay on top.                           *)
(***************************************************************************)
EXTENDS Integers

CONSTANTS
  Timeouts,      \* the total limits a caller asks for, NoLimit among them
  IdleTimeouts,  \* the idle limits a caller asks for, NoLimit among them
  Capacity,      \* bytes a pipe holds before a writer blocks
  BufferSize,    \* bytes one read() takes at most (4096 in the code)
  MaxOutput,     \* bytes the child writes to a stream, a bound
  MaxTime,       \* end of time, a bound
  Faults         \* subset of the set in CaptureAssumption

\* An option that is not set.
NoLimit == -1

ASSUME CaptureAssumption ==
  /\ Timeouts \subseteq Nat \cup {NoLimit}
  /\ IdleTimeouts \subseteq Nat \cup {NoLimit}
  /\ Capacity \in Nat \ {0}
  /\ BufferSize \in Nat \ {0}
  /\ MaxOutput \in Nat
  /\ MaxTime \in Nat
  /\ Faults \subseteq {"pipe", "fork", "exec", "poll", "signal", "close"}

Streams == {"stdout", "stderr"}

VARIABLES
  options,       \* options.timeout and options.idle_timeout, never change
  pc,            \* where run_captured is
  clock,         \* steady_clock, start_time is 0
  lastActivity,  \* last_activity
  deadline,      \* when the poll in progress gives up, NoLimit for never
  ready,         \* streams whose revents the poll has just set
  eof,           \* streams that are done (stdout_done, stderr_done)
  got,           \* bytes captured of each stream
  limit,         \* timed_out and idle_timed_out: "none", "total", "idle"
  result,        \* the ProcessResult
  child,         \* the child's state and exit status
  written,       \* bytes the child wrote to each stream
  open,          \* streams whose write end the child still holds
  blocked,       \* the stream whose full pipe the child is blocked on
  wrote          \* times at which the child wrote, for the properties

vars == <<options, pc, clock, lastActivity, deadline, ready, eof, got, limit,
          result, child, written, open, blocked, wrote>>
parent == <<options, pc, lastActivity, deadline, ready, eof, got, limit,
            result>>
output == <<written, open, blocked, wrote>>

Nobody == "nobody"

Timeout     == options.timeout
IdleTimeout == options.idle_timeout

Init ==
  /\ options \in [timeout : Timeouts, idle_timeout : IdleTimeouts]
  /\ pc = "start"
  /\ clock = 0 /\ lastActivity = 0 /\ deadline = NoLimit
  /\ ready = {} /\ eof = {}
  /\ got = [s \in Streams |-> 0]
  /\ limit = "none"
  /\ result = [outcome |-> "FailedToStart", code |-> -1, idle |-> FALSE]
  /\ child = [state |-> "none", code |-> 0, launched |-> FALSE]
  /\ written = [s \in Streams |-> 0]
  /\ open = {} /\ blocked = Nobody /\ wrote = {}

-----------------------------------------------------------------------------
(* Starting the child.                                                     *)

\* pipe() or fork() failed: the default-constructed result is returned.
StartFails ==
  /\ pc = "start" /\ Faults \cap {"pipe", "fork"} # {}
  /\ pc' = "done"
  /\ UNCHANGED <<options, clock, lastActivity, deadline, ready, eof, got,
                 limit, result, child, output>>

Start ==
  /\ pc = "start"
  /\ pc' = "limits"
  /\ child' = [child EXCEPT !.state = "running"]
  /\ open' = Streams
  /\ UNCHANGED <<options, clock, lastActivity, deadline, ready, eof, got,
                 limit, result, written, blocked, wrote>>

-----------------------------------------------------------------------------
(* The poll loop.                                                          *)

Pending(s) == written[s] - got[s]

\* POLLIN or POLLHUP.
Readable(s) == Pending(s) > 0 \/ s \notin open

\* Mutant: polls stderr only once stdout is at its end.
PolledInTurn == IF "stdout" \in eof THEN Streams \ eof ELSE {"stdout"}

Polled == Streams \ eof

TotalExpired == Timeout # NoLimit /\ clock >= Timeout

\* Mutant: measures silence from the start of the run.
IdleExpiredFromStart == IdleTimeout # NoLimit /\ clock >= IdleTimeout

IdleExpired == IdleTimeout # NoLimit /\ clock - lastActivity >= IdleTimeout

\* Mutant: the total limit is only looked at when something happens.
EarliestIdle ==
  IF IdleTimeout = NoLimit THEN NoLimit ELSE lastActivity + IdleTimeout

Earliest ==
  LET ends == {t \in {Timeout} : t # NoLimit}
                \cup {lastActivity + t : t \in {IdleTimeout} \ {NoLimit}}
  IN IF ends = {} THEN NoLimit
                  ELSE CHOOSE t \in ends : \A u \in ends : t <= u

\* The loop condition, then both limits, then the timeout given to poll.
Limits ==
  /\ pc = "limits"
  /\ limit' = IF eof = Streams THEN limit
              ELSE IF TotalExpired THEN "total"
              ELSE IF IdleExpired THEN "idle" ELSE limit
  /\ pc' = IF eof = Streams \/ limit' # "none" THEN "close" ELSE "poll"
  /\ deadline' = IF pc' = "poll" THEN Earliest ELSE deadline
  /\ UNCHANGED <<options, clock, lastActivity, ready, eof, got, result, child,
                 output>>

PollReady ==
  /\ pc = "poll"
  /\ ready' = {s \in Polled : Readable(s)}
  /\ ready' # {}
  /\ lastActivity' = clock
  /\ deadline' = NoLimit
  /\ pc' = "readStdout"
  /\ UNCHANGED <<options, clock, eof, got, limit, result, child, output>>

\* poll returns 0: the loop works out which limit expired.
PollExpires ==
  /\ pc = "poll"
  /\ deadline # NoLimit /\ clock >= deadline
  /\ \A s \in Polled : ~Readable(s)
  /\ deadline' = NoLimit
  /\ pc' = "limits"
  /\ UNCHANGED <<options, clock, lastActivity, ready, eof, got, limit, result,
                 child, output>>

\* A signal interrupts a poll that has nothing to report.
PollInterrupted ==
  /\ pc = "poll" /\ "signal" \in Faults
  /\ \A s \in Polled : ~Readable(s)
  /\ deadline' = NoLimit
  /\ pc' = "limits"
  /\ UNCHANGED <<options, clock, lastActivity, ready, eof, got, limit, result,
                 child, output>>

\* poll fails for any other reason: the loop ends without a limit.
PollFails ==
  /\ pc = "poll" /\ "poll" \in Faults
  /\ deadline' = NoLimit
  /\ pc' = "close"
  /\ UNCHANGED <<options, clock, lastActivity, ready, eof, got, limit, result,
                 child, output>>

\* Mutant: a hang-up ends the stream although bytes are left in the pipe.
DrainOrEndHup(s) ==
  /\ eof' = IF s \in ready \ open THEN eof \cup {s} ELSE eof
  /\ got' = IF s \in ready \cap open THEN [got EXCEPT ![s] = @ + 1] ELSE got

\* Mutant: appends the whole buffer, however many bytes were read.
DrainOrEndBuffer(s) ==
  IF s \notin ready THEN UNCHANGED <<got, eof>>
  ELSE IF Pending(s) > 0
    THEN got' = [got EXCEPT ![s] = @ + BufferSize] /\ UNCHANGED eof
    ELSE eof' = eof \cup {s} /\ UNCHANGED got

\* One read() of a stream poll reported: at most a buffer, and the end of the
\* stream when the pipe is empty.
DrainOrEnd(s) ==
  IF s \notin ready THEN UNCHANGED <<got, eof>>
  ELSE IF Pending(s) > 0
    THEN /\ got' = [got EXCEPT ![s] = IF Pending(s) > BufferSize
                                        THEN @ + BufferSize ELSE written[s]]
         /\ UNCHANGED eof
    ELSE eof' = eof \cup {s} /\ UNCHANGED got

ReadStdout ==
  /\ pc = "readStdout"
  /\ DrainOrEnd("stdout")
  /\ pc' = "readStderr"
  /\ UNCHANGED <<options, clock, lastActivity, deadline, ready, limit, result,
                 child, output>>

ReadStderr ==
  /\ pc = "readStderr"
  /\ DrainOrEnd("stderr")
  /\ ready' = {}
  /\ pc' = "limits"
  /\ UNCHANGED <<options, clock, lastActivity, deadline, limit, result, child,
                 output>>

-----------------------------------------------------------------------------
(* After the loop: the read ends are closed, a child over its limit is      *)
(* killed, and the child is waited for, however long that takes.            *)

\* A child that still runs is killed by SIGPIPE if it writes from here on.
CloseEnds ==
  /\ pc = "close"
  /\ pc' = IF limit = "none" THEN "wait" ELSE "kill"
  /\ UNCHANGED <<options, clock, lastActivity, deadline, ready, eof, got,
                 limit, result, child, output>>

\* The child ends: its write ends close.
Ends(code) ==
  /\ child' = [child EXCEPT !.state = "zombie", !.code = code]
  /\ open' = {} /\ blocked' = Nobody
  /\ UNCHANGED <<written, wrote>>

Kill ==
  /\ pc = "kill"
  /\ pc' = "wait"
  /\ IF child.state = "running" THEN Ends(137) ELSE UNCHANGED <<child, output>>
  /\ UNCHANGED <<options, clock, lastActivity, deadline, ready, eof, got,
                 limit, result>>

Wait ==
  /\ pc = "wait"
  /\ child.state = "zombie"
  /\ pc' = "done"
  /\ child' = [child EXCEPT !.state = "reaped"]
  /\ result' = IF limit = "none"
       THEN [outcome |-> "Exited", code |-> child.code, idle |-> FALSE]
       ELSE [outcome |-> "TimedOut", code |-> -1, idle |-> limit = "idle"]
  /\ UNCHANGED <<options, clock, lastActivity, deadline, ready, eof, got,
                 limit, output>>

-----------------------------------------------------------------------------
(* The child and time.                                                     *)

Acts == child.state = "running" /\ blocked = Nobody

\* execve succeeds, or the child exits with 127 (126 when chdir failed, which
\* run_captured treats alike).
Exec ==
  /\ Acts /\ ~child.launched
  /\ \/ child' = [child EXCEPT !.launched = TRUE] /\ UNCHANGED output
     \/ "exec" \in Faults /\ Ends(127)
  /\ UNCHANGED <<parent, clock>>

ReadersGone == pc \in {"kill", "wait", "done"}

\* write() blocks on a full pipe, and kills a writer that has no reader.
Write(s) ==
  /\ Acts /\ child.launched
  /\ s \in open /\ written[s] < MaxOutput
  /\ IF ReadersGone THEN Ends(141)
     ELSE IF Pending(s) = Capacity
       THEN blocked' = s /\ UNCHANGED <<child, written, open, wrote>>
       ELSE /\ written' = [written EXCEPT ![s] = @ + 1]
            /\ wrote' = wrote \cup {clock}
            /\ UNCHANGED <<child, open, blocked>>
  /\ UNCHANGED <<parent, clock>>

Unblock ==
  /\ child.state = "running" /\ blocked # Nobody
  /\ IF ReadersGone THEN Ends(141)
     ELSE /\ Pending(blocked) < Capacity
          /\ blocked' = Nobody
          /\ UNCHANGED <<child, written, open, wrote>>
  /\ UNCHANGED <<parent, clock>>

CloseStream(s) ==
  /\ Acts /\ child.launched /\ "close" \in Faults
  /\ s \in open
  /\ open' = open \ {s}
  /\ UNCHANGED <<parent, clock, child, written, blocked, wrote>>

Exit ==
  /\ Acts /\ child.launched
  /\ Ends(0)
  /\ UNCHANGED <<parent, clock>>

\* Time passes while FluxInfer is blocked in poll or in waitpid.
Tick ==
  /\ clock < MaxTime
  /\ \/ /\ pc = "poll"
        /\ \A s \in Polled : ~Readable(s)
        /\ deadline = NoLimit \/ clock < deadline
     \/ pc = "wait" /\ child.state = "running"
  /\ clock' = clock + 1
  /\ UNCHANGED <<parent, child, output>>

\* run_captured has returned, or the end of time has come.
Over == (pc = "done" \/ clock = MaxTime) /\ UNCHANGED vars

Runner ==
  \/ Start \/ Limits
  \/ PollReady \/ PollExpires
  \/ ReadStdout \/ ReadStderr
  \/ CloseEnds \/ Kill \/ Wait

\* What may happen to FluxInfer at any time and never has to.
Mishap == StartFails \/ PollInterrupted \/ PollFails

Child ==
  \/ Exec \/ Unblock \/ Exit
  \/ \E s \in Streams : Write(s) \/ CloseStream(s)

Next == Runner \/ Mishap \/ Child \/ Tick \/ Over

Spec == Init /\ [][Next]_vars

\* FluxInfer's thread is scheduled, and time passes even if signals keep
\* interrupting poll.  Nothing is assumed of the child.
FairSpec == Spec /\ WF_vars(Runner) /\ SF_vars(Tick)
-----------------------------------------------------------------------------
(* Properties.                                                             *)

Outcomes == {"FailedToStart", "Exited", "TimedOut"}

TypeOK ==
  /\ pc \in {"start", "limits", "poll", "readStdout", "readStderr", "close",
             "kill", "wait", "done"}
  /\ clock \in 0..MaxTime /\ lastActivity \in 0..clock
  /\ deadline \in Nat \cup {NoLimit}
  /\ ready \subseteq Streams /\ eof \subseteq Streams
  /\ \A s \in Streams : /\ got[s] \in 0..written[s]
                        /\ written[s] \in 0..MaxOutput
                        /\ Pending(s) <= Capacity
  /\ limit \in {"none", "total", "idle"}
  /\ result \in [outcome : Outcomes, code : Int, idle : BOOLEAN]
  /\ child \in [state : {"none", "running", "zombie", "reaped"}, code : Nat,
                launched : BOOLEAN]
  /\ open \subseteq Streams /\ blocked \in Streams \cup {Nobody}
  /\ wrote \subseteq 0..MaxTime

\* A run reported as Exited whose streams both reached their end was captured
\* to the last byte, in whatever order the child wrote, closed and exited
\* (process_runner_posix.cpp:273-293).
ExitedIsComplete ==
  pc = "done" /\ result.outcome = "Exited" /\ eof = Streams =>
    got = written

\* The idle limit tells "stuck" from "slow" (process_runner.hpp:60-65): it
\* fires only when, before the moment it did, the child had written nothing
\* for the whole window.
IdleMeansSilent ==
  [][limit' = "idle" /\ limit # "idle" =>
       wrote \cap ((clock - IdleTimeout + 1)..(clock - 1)) = {}]_vars

\* run_captured has closed its ends of the pipes without a limit having
\* fired, and waits for a child that runs on.
Abandoned == pc = "wait" /\ limit = "none" /\ child.state = "running"

\* With a total limit run_captured returns by itself, with a silent or a
\* chattering child, one that hangs, and one blocked on a full pipe: the only
\* child it can wait for forever is one whose streams it has given up.
LimitedRunReturns ==
  Timeout # NoLimit ~> (pc = "done" \/ Abandoned)

\* With a child that keeps running, and so ends sooner or later, run_captured
\* returns whatever the limits: both pipes are drained, so that the child is
\* never blocked on one while FluxInfer waits for the other.
DrainedRunReturns == WF_vars(Child) => <>(pc = "done")

Promise == INSTANCE BoundedRun WITH
  Codes    <- {0, 127, 137, 141},
  limited  <- Timeout # NoLimit \/ IdleTimeout # NoLimit,
  stage    <- IF pc = "start" THEN "idle"
              ELSE IF pc = "done" THEN "returned" ELSE "running",
  child    <- [state |-> IF child.state \in {"zombie", "reaped"}
                           THEN "ended" ELSE child.state,
               code  |-> child.code],
  produced <- written,
  captured <- got,
  expired  <- limit # "none",
  faulty   <- /\ child.state # "none" /\ limit = "none" /\ eof # Streams
              /\ pc \in {"close", "kill", "wait", "done"},
  result   <- [outcome |-> result.outcome, code |-> result.code]

\* The POSIX runner implements the bounded run; the one fault it passes on is a
\* poll that fails.
KeepsPromise == Promise!Spec

\* process_runner.hpp:32: timeout is a "Hard upper bound on total run time".
HardBound == Timeout # NoLimit => pc = "done" \/ clock <= Timeout
=============================================================================
