-------------------------- MODULE InteractiveChild --------------------------
(***************************************************************************)
(* `fluxinfer run` and `fluxinfer serve` from the launch of the llama.cpp  *)
(* program to the end of the command, on POSIX: launch_interactive, the    *)
(* signal handlers of main.cpp and PosixInteractiveProcess                 *)
(* (src/src/process/process_runner_posix.cpp).                             *)
(*                                                                         *)
(* FluxInfer has one thread.  A handler interrupts it between any two       *)
(* system calls and runs on the same stack, so the state of the program is *)
(* a stack of frames: cmd_run at the bottom, and a call of terminate() for  *)
(* each signal being handled.  A signal is blocked while its own handler    *)
(* runs, but the other one may interrupt that.                              *)
(*                                                                         *)
(* The handlers are installed with std::signal, which restarts the          *)
(* interrupted waitpid.  Signals whose disposition is still the default     *)
(* kill FluxInfer.                                                         *)
(***************************************************************************)
EXTENDS Integers, Sequences, SequencesExt

CONSTANTS
  Grace,       \* polls terminate() makes before it escalates (50 in the code)
  MaxSignals   \* signals the user sends, a bound on the environment

ASSUME InteractiveAssumption == Grace \in Nat /\ MaxSignals \in Nat

Signals == {"INT", "TERM"}

\* decode_exit_code: the code of a child killed by a signal is 128 + signal;
\* 126 and 127 are child_exec's own when chdir or execve fails.
KilledBy == [INT |-> 130, TERM |-> 143, KILL |-> 137]
OwnCodes == {0, 1, 126, 127}
Codes    == OwnCodes \cup {130, 137, 143}

VARIABLES
  stack,     \* FluxInfer's frames, the running one last
  exited,    \* exited_
  exitCode,  \* exit_code_
  handled,   \* signals whose handler is installed
  pending,   \* signals waiting to be delivered to FluxInfer
  budget,    \* signals the user may still send
  child,     \* the child's state, status and the signals it was sent
  reaper     \* which call of waitpid returned the child's status

vars == <<stack, exited, exitCode, handled, pending, budget, child, reaper>>

Frame == [call : {"cmd_run"} \cup Signals, pc : {"launch", "installInt",
          "installTerm", "entry", "kill", "poll", "note", "force", "wait",
          "block", "record", "returned", "failed", "dead"},
          polls : 0..Grace, status : Codes]

Top  == stack[Len(stack)]
Main == stack[1]

\* The running frame moves on to pc.
Goto(pc) == stack' = [stack EXCEPT ![Len(stack)].pc = pc]

\* The running call returns to its caller.
Return ==
  stack' = IF Len(stack) > 1 THEN Front(stack)
                             ELSE <<[Main EXCEPT !.pc = "returned"]>>

Init ==
  /\ stack = <<[call |-> "cmd_run", pc |-> "launch", polls |-> 0,
                status |-> 0]>>
  /\ exited = FALSE
  /\ exitCode = -1
  /\ handled = {}
  /\ pending = {}
  /\ budget = MaxSignals
  /\ child \in [state : {"none"}, status : {0}, sent : {{}},
                stubborn : BOOLEAN]
  /\ reaper = "none"

-----------------------------------------------------------------------------
(* cmd_run: fork, then one std::signal call per signal, then wait().       *)

Launch ==
  /\ Top.pc = "launch"
  /\ Goto("installInt")
  /\ child' = [child EXCEPT !.state = "running"]
  /\ UNCHANGED <<exited, exitCode, handled, pending, budget, reaper>>

\* fork() failed: the command reports it and returns 1.
LaunchFails ==
  /\ Top.pc = "launch"
  /\ Goto("failed")
  /\ UNCHANGED <<exited, exitCode, handled, pending, budget, child, reaper>>

InstallInt ==
  /\ Top.pc = "installInt"
  /\ handled' = {"INT"}
  /\ Goto("installTerm")
  /\ UNCHANGED <<exited, exitCode, pending, budget, child, reaper>>

InstallTerm ==
  /\ Top.pc = "installTerm"
  /\ handled' = Signals
  /\ Goto("wait")
  /\ UNCHANGED <<exited, exitCode, pending, budget, child, reaper>>

-----------------------------------------------------------------------------
(* wait(), called by cmd_run and by terminate().                           *)

WaitEntry ==
  /\ Top.pc = "wait"
  /\ IF exited THEN Return ELSE Goto("block")
  /\ UNCHANGED <<exited, exitCode, handled, pending, budget, child, reaper>>

\* Mutant: gives up instead of blocking when the child still runs.
WaitBlockNot ==
  /\ Top.pc = "block"
  /\ stack' = [stack EXCEPT ![Len(stack)].pc = "record"]
  /\ child' = IF child.state = "zombie" THEN [child EXCEPT !.state = "reaped"]
                                        ELSE child
  /\ UNCHANGED <<exited, exitCode, handled, pending, budget, reaper>>

\* waitpid(pid, &status, 0): returns the status of a child that has ended, and
\* fails at once, leaving status 0, when there is no such child any more.
WaitBlock ==
  /\ Top.pc = "block"
  /\ child.state \in {"zombie", "reaped"}
  /\ stack' = [stack EXCEPT
       ![Len(stack)].pc = "record",
       ![Len(stack)].status = IF child.state = "zombie" THEN child.status
                                                        ELSE 0]
  /\ child' = [child EXCEPT !.state = "reaped"]
  /\ reaper' = IF child.state = "zombie" THEN Top.call ELSE reaper
  /\ UNCHANGED <<exited, exitCode, handled, pending, budget>>

\* Mutant: the first status recorded is kept.
WaitRecordFirst ==
  /\ Top.pc = "record"
  /\ exited' = TRUE
  /\ exitCode' = IF exited THEN exitCode ELSE Top.status
  /\ Return
  /\ UNCHANGED <<handled, pending, budget, child, reaper>>

WaitRecord ==
  /\ Top.pc = "record"
  /\ exited' = TRUE
  /\ exitCode' = Top.status
  /\ Return
  /\ UNCHANGED <<handled, pending, budget, child, reaper>>

-----------------------------------------------------------------------------
(* terminate(), called by the handler.                                     *)

TerminateEntry ==
  /\ Top.pc = "entry"
  /\ IF exited THEN Return ELSE Goto("kill")
  /\ UNCHANGED <<exited, exitCode, handled, pending, budget, child, reaper>>

\* kill() only reaches a child that still runs.
Sent(signal) ==
  IF child.state = "running" THEN [child EXCEPT !.sent = @ \cup {signal}]
                             ELSE child

TerminateKill ==
  /\ Top.pc = "kill"
  /\ child' = Sent("TERM")
  /\ Goto("poll")
  /\ UNCHANGED <<exited, exitCode, handled, pending, budget, reaper>>

\* Mutant: the loop polls once more than its bound.
GraceOverLate == Top.polls > Grace

GraceOver == Top.polls = Grace

\* Mutant: the loop condition lost its bound.
PollUnbounded ==
  /\ Top.pc = "poll"
  /\ IF exited THEN Goto("force") ELSE
       IF child.state = "zombie"
         THEN stack' = [stack EXCEPT ![Len(stack)].pc = "note",
                                     ![Len(stack)].status = child.status]
         ELSE UNCHANGED stack
  /\ child' = IF ~exited /\ child.state = "zombie"
                THEN [child EXCEPT !.state = "reaped"] ELSE child
  /\ reaper' = IF ~exited /\ child.state = "zombie" THEN Top.call ELSE reaper
  /\ UNCHANGED <<exited, exitCode, handled, pending, budget>>

\* i < 50 && is_running(): without a status to report, waitpid(WNOHANG) says
\* "running", also when the child has already been reaped.
Reaps == ~GraceOver /\ ~exited /\ child.state = "zombie"

Poll ==
  /\ Top.pc = "poll"
  /\ \/ /\ GraceOver \/ exited
        /\ Goto("force")
     \/ /\ Reaps
        /\ stack' = [stack EXCEPT ![Len(stack)].pc = "note",
                                  ![Len(stack)].status = child.status]
     \/ /\ ~GraceOver /\ ~exited /\ ~Reaps
        /\ stack' = [stack EXCEPT ![Len(stack)].polls = @ + 1]
  /\ child' = IF Reaps THEN [child EXCEPT !.state = "reaped"] ELSE child
  /\ reaper' = IF Reaps THEN Top.call ELSE reaper
  /\ UNCHANGED <<exited, exitCode, handled, pending, budget>>

PollNote ==
  /\ Top.pc = "note"
  /\ exited' = TRUE
  /\ exitCode' = Top.status
  /\ Goto("force")
  /\ UNCHANGED <<handled, pending, budget, child, reaper>>

\* Mutant: SIGKILL is sent but the child is not waited for.
ForceOnly ==
  /\ Top.pc = "force"
  /\ Return
  /\ child' = IF exited THEN child ELSE Sent("KILL")
  /\ UNCHANGED <<exited, exitCode, handled, pending, budget, reaper>>

TerminateForce ==
  /\ Top.pc = "force"
  /\ IF exited THEN Return /\ UNCHANGED child
               ELSE Goto("wait") /\ child' = Sent("KILL")
  /\ UNCHANGED <<exited, exitCode, handled, pending, budget, reaper>>

-----------------------------------------------------------------------------
(* The child, the user and the kernel.                                     *)

ChildExits ==
  /\ child.state = "running"
  /\ \E code \in OwnCodes :
       child' = [child EXCEPT !.state = "zombie", !.status = code]
  /\ UNCHANGED <<stack, exited, exitCode, handled, pending, budget, reaper>>

\* A stubborn child ignores everything but SIGKILL.
ChildKilled ==
  /\ child.state = "running"
  /\ \E signal \in child.sent :
       /\ signal = "KILL" \/ ~child.stubborn
       /\ child' = [child EXCEPT !.state = "zombie",
                                 !.status = KilledBy[signal]]
  /\ UNCHANGED <<stack, exited, exitCode, handled, pending, budget, reaper>>

Alive == Main.pc \notin {"launch", "returned", "failed", "dead"}

\* Ctrl+C reaches every process of the terminal's foreground group; a SIGTERM
\* is sent to FluxInfer alone.  Without a handler it kills FluxInfer.
Arrives(signal) ==
  /\ Alive /\ budget > 0
  /\ budget' = budget - 1
  /\ child' = IF signal = "INT" THEN Sent("INT") ELSE child
  /\ IF signal \in handled
       THEN pending' = pending \cup {signal} /\ UNCHANGED stack
       ELSE stack' = <<[Main EXCEPT !.pc = "dead"]>> /\ UNCHANGED pending
  /\ UNCHANGED <<exited, exitCode, handled, reaper>>

Blocked(signal) == \E i \in 1..Len(stack) : stack[i].call = signal

Deliver(signal) ==
  /\ Alive
  /\ signal \in pending /\ ~Blocked(signal)
  /\ pending' = pending \ {signal}
  /\ stack' = Append(stack, [call |-> signal, pc |-> "entry", polls |-> 0,
                             status |-> 0])
  /\ UNCHANGED <<exited, exitCode, handled, budget, child, reaper>>

\* The command is over.
Ended == Main.pc \in {"returned", "failed", "dead"} /\ UNCHANGED vars

Program ==
  \/ Launch \/ LaunchFails \/ InstallInt \/ InstallTerm
  \/ WaitEntry \/ WaitBlock \/ WaitRecord
  \/ TerminateEntry \/ TerminateKill \/ Poll \/ PollNote \/ TerminateForce

Next ==
  \/ Program
  \/ ChildExits \/ ChildKilled
  \/ \E signal \in Signals : Arrives(signal) \/ Deliver(signal)
  \/ Ended

Spec == Init /\ [][Next]_vars

\* FluxInfer's thread keeps running and the kernel delivers what is pending,
\* be it a signal to FluxInfer or a SIGKILL to the child.  A child need not
\* ever exit of its own accord, nor obey a SIGTERM.
Fairness ==
  /\ WF_vars(Program)
  /\ WF_vars(ChildKilled)
  /\ \A signal \in Signals : WF_vars(Deliver(signal))

FairSpec == Spec /\ Fairness
-----------------------------------------------------------------------------
(* Properties.                                                             *)

TypeOK ==
  /\ stack \in Seq(Frame) /\ Len(stack) \in 1..3
  /\ exited \in BOOLEAN
  /\ exitCode \in Codes \cup {-1}
  /\ handled \subseteq Signals /\ pending \subseteq handled
  /\ budget \in 0..MaxSignals
  /\ child \in [state : {"none", "running", "zombie", "reaped"},
                status : Codes, sent : SUBSET {"INT", "TERM", "KILL"},
                stubborn : BOOLEAN]
  /\ reaper \in {"none", "cmd_run"} \cup Signals

\* However handlers interrupt wait() and each other, exited_ is never set
\* while the child runs or waits to be reaped, so the command never returns
\* before its child is gone (process_runner.hpp:82-84).
ExitedMeansReaped ==
  exited \/ Main.pc = "returned" => child.state = "reaped"

\* terminate() "escalates to a forceful kill" (process_runner.hpp:84): when a
\* call of it returns, the child no longer runs, even if another handler
\* interrupted it or the child ignored SIGTERM.
TerminateEndsTheChild ==
  [][Len(stack') < Len(stack) /\ Main'.pc # "dead" =>
       child.state = "reaped"]_vars

\* When cmd_run's own waitpid got the status, no handler that runs between
\* that call and the assignment of exit_code_ can replace the code that
\* FluxInfer exits with (process_runner_posix.cpp:131-137).
OwnStatusSurvives ==
  Main.pc = "returned" /\ reaper = "cmd_run" => exitCode = child.status

\* "Ctrl+C / SIGTERM stop FluxInfer *and* the child" (main.cpp:83-84): once a
\* signal is pending for the handlers, the command ends, stubborn child or
\* not, even though nothing but the SIGKILL is certain to stop the child.
SignalEndsTheCommand == pending # {} ~> Main.pc \in {"returned", "dead"}

\* process_runner.hpp:83: wait() "blocks until the child exits, returns its
\* exit code".
WaitReturnsTheCode == Main.pc = "returned" => exitCode = child.status
=============================================================================
