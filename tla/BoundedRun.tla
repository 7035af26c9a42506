------------------------------ MODULE BoundedRun ------------------------------
(***************************************************************************)
(* What process::run_captured promises its callers on every platform       *)
(* (src/include/fluxinfer/process/process_runner.hpp): a child is launched *)
(* at most once, its output is captured as it comes, and a single result   *)
(* says how the run went.  No pipes, threads, polls or clocks: a limit is  *)
(* something that may expire when the caller set one.                      *)
(***************************************************************************)
EXTENDS Integers

CONSTANTS
  Streams,    \* stdout and stderr
  MaxOutput,  \* what the child writes to a stream, a bound
  Codes       \* exit codes of the child

VARIABLES
  limited,   \* whether the caller set a limit, never changes
  stage,     \* "idle", "running", "returned"
  child,     \* [state, code] of the child process
  produced,  \* what the child wrote to each stream
  captured,  \* what of it has been captured
  expired,   \* a limit has expired
  faulty,    \* the operating system failed the runner while it captured
  result     \* [outcome, code]

vars == <<limited, stage, child, produced, captured, expired, faulty, result>>

NotStarted == [outcome |-> "FailedToStart", code |-> -1]

Init ==
  /\ limited \in BOOLEAN
  /\ stage = "idle"
  /\ child = [state |-> "none", code |-> 0]
  /\ produced = [s \in Streams |-> 0]
  /\ captured = [s \in Streams |-> 0]
  /\ expired = FALSE /\ faulty = FALSE
  /\ result = NotStarted

FailToStart ==
  /\ stage = "idle"
  /\ stage' = "returned"
  /\ UNCHANGED <<limited, child, produced, captured, expired, faulty, result>>

Launch ==
  /\ stage = "idle"
  /\ stage' = "running"
  /\ child' = [child EXCEPT !.state = "running"]
  /\ UNCHANGED <<limited, produced, captured, expired, faulty, result>>

Produce(s) ==
  /\ child.state = "running"
  /\ produced[s] < MaxOutput
  /\ produced' = [produced EXCEPT ![s] = @ + 1]
  /\ UNCHANGED <<limited, stage, child, captured, expired, faulty, result>>

\* Nothing is captured twice, invented or left out.
Capture(s) ==
  /\ stage = "running"
  /\ \E n \in (captured[s] + 1)..produced[s] :
       captured' = [captured EXCEPT ![s] = n]
  /\ UNCHANGED <<limited, stage, child, produced, expired, faulty, result>>

ChildEnds ==
  /\ child.state = "running"
  /\ \E c \in Codes : child' = [state |-> "ended", code |-> c]
  /\ UNCHANGED <<limited, stage, produced, captured, expired, faulty, result>>

Expire ==
  /\ stage = "running" /\ limited /\ ~expired
  /\ expired' = TRUE
  /\ UNCHANGED <<limited, stage, child, produced, captured, faulty, result>>

Mishap ==
  /\ stage = "running"
  /\ faulty' = TRUE
  /\ UNCHANGED <<limited, stage, child, produced, captured, expired, result>>

\* A run is Exited only when no limit expired and the child ended, and then,
\* unless the system failed the runner, everything it wrote was captured.
ReturnExited ==
  /\ stage = "running" /\ ~expired
  /\ child.state = "ended"
  /\ captured = produced \/ faulty
  /\ stage' = "returned"
  /\ result' = [outcome |-> "Exited", code |-> child.code]
  /\ UNCHANGED <<limited, child, produced, captured, expired, faulty>>

ReturnTimedOut ==
  /\ stage = "running" /\ expired
  /\ stage' = "returned"
  /\ result' = [outcome |-> "TimedOut", code |-> -1]
  /\ UNCHANGED <<limited, child, produced, captured, expired, faulty>>

Next ==
  \/ FailToStart \/ Launch
  \/ \E s \in Streams : Produce(s) \/ Capture(s)
  \/ ChildEnds \/ Expire \/ Mishap
  \/ ReturnExited \/ ReturnTimedOut

Spec == Init /\ [][Next]_vars
=============================================================================
