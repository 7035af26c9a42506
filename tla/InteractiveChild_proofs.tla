------------------------- MODULE InteractiveChild_proofs -------------------------
(***************************************************************************)
(* The child is gone and its own status survives, however often and        *)
(* wherever the signal handlers interrupt wait() and each other, proved    *)
(* for any number of signals and of polls.                                 *)
(***************************************************************************)
EXTENDS InteractiveChild, TLAPS

MainPlaces    == {"launch", "installInt", "installTerm", "wait", "block", "record",
                  "returned", "failed", "dead"}
HandlerPlaces == {"entry", "kill", "poll", "note", "force", "wait", "block", "record"}

\* cmd_run is at the bottom, with handlers on top of it.
StackInv ==
  /\ stack \in Seq(Frame) /\ Len(stack) >= 1
  /\ Main.call = "cmd_run" /\ Main.pc \in MainPlaces
  /\ \A i \in 2..Len(stack) : stack[i].call \in Signals /\ stack[i].pc \in HandlerPlaces
  /\ Len(stack) # 1 => Main.pc \notin {"launch", "returned", "failed", "dead"}

ChildInv ==
  /\ exited \in BOOLEAN
  /\ exitCode \in Codes \cup {-1}
  /\ child \in [state : {"none", "running", "zombie", "reaped"}, status : Codes,
                sent : SUBSET {"INT", "TERM", "KILL"}, stubborn : BOOLEAN]

\* Whoever has a status to record has reaped the child, or has found that it
\* was reaped already.
ReapedInv ==
  /\ Main.pc = "launch" => child.state = "none"
  /\ exited \/ Main.pc = "returned" => child.state = "reaped"
  /\ \A i \in 1..Len(stack) : stack[i].pc \in {"record", "note"} => child.state = "reaped"

\* A status that cmd_run's own waitpid got waits in cmd_run's frame, where no
\* handler reaches it.
OwnInv ==
  reaper = "cmd_run" =>
    /\ child.state = "reaped"
    /\ \/ Main.pc = "record" /\ Main.status = child.status
       \/ Main.pc = "returned" /\ exitCode = child.status
       \/ Main.pc = "dead"

Inv == StackInv /\ ChildInv /\ ReapedInv /\ OwnInv

LEMMA InvInit == Init => Inv
<1> SUFFICES ASSUME Init PROVE Inv
  OBVIOUS
<1> DEFINE f == [call |-> "cmd_run", pc |-> "launch", polls |-> 0, status |-> 0]
<1>1. f \in Frame
  BY InteractiveAssumption DEF Frame, Codes, OwnCodes
<1>2. stack = <<f>>
  BY DEF Init
<1> HIDE DEF f
<1>3. stack \in Seq(Frame) /\ Len(stack) = 1 /\ Main = f
  BY <1>1, <1>2 DEF Main
<1>4. f.call = "cmd_run" /\ f.pc = "launch"
  BY DEF f
<1>5. StackInv
  BY <1>3, <1>4 DEF StackInv, MainPlaces
<1>6. ChildInv
  BY DEF Init, ChildInv, Codes, OwnCodes
<1>7. ReapedInv /\ OwnInv
  BY <1>3, <1>4 DEF Init, ReapedInv, OwnInv, Main
<1> QED  BY <1>5, <1>6, <1>7 DEF Inv

-----------------------------------------------------------------------------
(* What the two moves of a frame do to the stack.                          *)

\* A frame moves on; the frames below it stay as they are.
LEMMA TopMoves ==
  ASSUME StackInv, NEW f \in Frame, f.call = Top.call,
         IF Len(stack) = 1 THEN f.pc \in MainPlaces ELSE f.pc \in HandlerPlaces,
         stack' = [stack EXCEPT ![Len(stack)] = f]
  PROVE  /\ StackInv' /\ Len(stack') = Len(stack) /\ Top' = f
         /\ \A i \in 1..(Len(stack) - 1) : stack'[i] = stack[i]
         /\ Main' = (IF Len(stack) = 1 THEN f ELSE Main)
<1> USE DEF StackInv, Top, Main
<1>1. stack' \in Seq(Frame) /\ Len(stack') = Len(stack)
  OBVIOUS
<1>2. \A i \in 1..Len(stack) : stack'[i] = IF i = Len(stack) THEN f ELSE stack[i]
  OBVIOUS
<1>3. Main' = (IF Len(stack) = 1 THEN f ELSE Main) /\ Top' = f
  BY <1>1, <1>2
<1>4. Main'.call = "cmd_run" /\ Main'.pc \in MainPlaces
  BY <1>3
<1>5. ASSUME NEW i \in 2..Len(stack)
      PROVE  stack'[i].call \in Signals /\ stack'[i].pc \in HandlerPlaces
  BY <1>2
<1>8. Len(stack') # 1 => Main'.pc \notin {"launch", "returned", "failed", "dead"}
  <2>1. CASE Len(stack) = 1
    BY <1>1, <2>1
  <2>2. CASE Len(stack) # 1
    BY <1>1, <1>3, <2>2
  <2> QED  BY <2>1, <2>2
<1>6. StackInv'
  BY <1>1, <1>4, <1>5, <1>8
<1>7. \A i \in 1..(Len(stack) - 1) : stack'[i] = stack[i]
  BY <1>2
<1> HIDE DEF StackInv, Top, Main
<1> QED  BY <1>1, <1>3, <1>6, <1>7

\* A call of terminate() returns to what it interrupted; cmd_run returns to
\* main.
LEMMA Returns ==
  ASSUME StackInv, Return
  PROVE  /\ StackInv' /\ Len(stack') <= Len(stack)
         /\ \A i \in 1..Len(stack') :
              stack'[i] = stack[i] \/ stack'[i].pc = "returned"
         /\ IF Len(stack) = 1 THEN Main'.pc = "returned"
                              ELSE Main' = Main /\ Len(stack') = Len(stack) - 1
<1> USE DEF StackInv, Main
<1>1. CASE Len(stack) = 1
  <2> DEFINE f == [Main EXCEPT !.pc = "returned"]
  <2>1. stack' = <<f>>
    BY <1>1 DEF Return
  <2>2. Main \in Frame
    <3>1. stack \in Seq(Frame) /\ 1 \in 1..Len(stack)
      BY <1>1
    <3> HIDE DEF StackInv
    <3> QED  BY <3>1
  <2>3. f \in Frame /\ f.call = "cmd_run" /\ f.pc = "returned"
    BY <2>2 DEF Frame
  <2> HIDE DEF f
  <2>4. stack' \in Seq(Frame) /\ Len(stack') = 1 /\ stack'[1] = f
    BY <2>1, <2>3
  <2>5. StackInv'
    BY <2>3, <2>4 DEF MainPlaces
  <2>6. \A i \in 1..Len(stack') : stack'[i].pc = "returned"
    BY <2>3, <2>4
  <2> QED  BY <1>1, <2>3, <2>4, <2>5, <2>6
<1>2. CASE Len(stack) > 1
  <2>1. stack' = SubSeq(stack, 1, Len(stack) - 1)
    BY <1>2 DEF Return, Front
  <2>2. stack' \in Seq(Frame) /\ Len(stack') = Len(stack) - 1
    BY <1>2, <2>1
  <2>3. \A i \in 1..Len(stack') : stack'[i] = stack[i]
    BY <1>2, <2>1
  <2>4. Main' = Main
    BY <1>2, <2>2, <2>3
  <2>5. StackInv'
    BY <1>2, <2>2, <2>3, <2>4
  <2>6. Len(stack') <= Len(stack) /\ Len(stack) # 1
    BY <1>2, <2>2
  <2> HIDE DEF StackInv, Main
  <2> QED  BY <2>2, <2>3, <2>4, <2>5, <2>6
<1>3. Len(stack) = 1 \/ Len(stack) > 1
  <2>1. Len(stack) \in Nat
    OBVIOUS
  <2>2. Len(stack) >= 1
    OBVIOUS
  <2>3. \A n \in Nat : n >= 1 => n = 1 \/ n > 1
    OBVIOUS
  <2> HIDE DEF StackInv
  <2> QED  BY <2>1, <2>2, <2>3
<1> QED  BY <1>1, <1>2, <1>3

\* The running frame is at p now, with status st; nothing else moved.
Moved(p, st) ==
  /\ StackInv' /\ Len(stack') = Len(stack)
  /\ Top'.pc = p /\ Top'.status = st
  /\ \A i \in 1..(Len(stack) - 1) : stack'[i] = stack[i]
  /\ Main' = (IF Len(stack) = 1 THEN Top' ELSE Main)

Place(p) == IF Len(stack) = 1 THEN p \in MainPlaces ELSE p \in HandlerPlaces

LEMMA TopIsFrame ==
  ASSUME StackInv
  PROVE  /\ Top \in Frame /\ Place(Top.pc)
         /\ Len(stack) = 1 => Top = Main
         /\ Len(stack) # 1 => Top.call \in Signals
         /\ Len(stack) = 1 => Top.call = "cmd_run"
<1>1. Len(stack) \in Nat /\ Len(stack) >= 1
  BY DEF StackInv
<1>2. Len(stack) \in 1..Len(stack)
  BY <1>1
<1>3. Top \in Frame
  BY <1>2 DEF StackInv, Top
<1>4. CASE Len(stack) = 1
  BY <1>3, <1>4 DEF StackInv, Top, Main, Place
<1>5. CASE Len(stack) # 1
  <2>1. Len(stack) \in 2..Len(stack)
    BY <1>1, <1>5
  <2>2. Top.call \in Signals /\ Top.pc \in HandlerPlaces
    BY <2>1 DEF StackInv, Top
  <2> QED  BY <1>3, <1>5, <2>2 DEF Place
<1> QED  BY <1>4, <1>5

LEMMA MovesTo ==
  ASSUME StackInv, NEW p, Place(p), NEW n \in 0..Grace, NEW st \in Codes,
         stack' = [stack EXCEPT ![Len(stack)] =
                     [call |-> Top.call, pc |-> p, polls |-> n, status |-> st]]
  PROVE  Moved(p, st)
<1> DEFINE f == [call |-> Top.call, pc |-> p, polls |-> n, status |-> st]
<1>1. Top.call \in {"cmd_run"} \cup Signals
  BY TopIsFrame DEF Frame
<1>2. f \in Frame
  BY <1>1 DEF Place, Frame, MainPlaces, HandlerPlaces
<1>3. f.call = Top.call /\ f.pc = p /\ f.status = st
  OBVIOUS
<1> HIDE DEF f
<1>4. stack' = [stack EXCEPT ![Len(stack)] = f]
  BY DEF f
<1>5. IF Len(stack) = 1 THEN f.pc \in MainPlaces ELSE f.pc \in HandlerPlaces
  BY <1>3 DEF Place
<1>6. /\ StackInv' /\ Len(stack') = Len(stack) /\ Top' = f
      /\ \A i \in 1..(Len(stack) - 1) : stack'[i] = stack[i]
      /\ Main' = (IF Len(stack) = 1 THEN f ELSE Main)
  BY <1>2, <1>3, <1>4, <1>5, TopMoves
<1> QED  BY <1>3, <1>6 DEF Moved

\* What the changes of a frame do to its record.
LEMMA FrameChanges ==
  ASSUME NEW r \in Frame, NEW p, NEW st
  PROVE  [r EXCEPT !.pc = p, !.status = st] =
           [call |-> r.call, pc |-> p, polls |-> r.polls, status |-> st]
<1>1. [r EXCEPT !.pc = p] =
        [call |-> r.call, pc |-> p, polls |-> r.polls, status |-> r.status]
  BY DEF Frame
<1>2. [[call |-> r.call, pc |-> p, polls |-> r.polls, status |-> r.status]
         EXCEPT !.status = st] =
        [call |-> r.call, pc |-> p, polls |-> r.polls, status |-> st]
  OBVIOUS
<1> QED  BY <1>1, <1>2

LEMMA GotoMoves ==
  ASSUME StackInv, NEW p, Place(p), Goto(p)
  PROVE  Moved(p, Top.status)
<1>1. Top \in Frame
  BY TopIsFrame
<1>2. Top.polls \in 0..Grace /\ Top.status \in Codes
  BY <1>1 DEF Frame
<1>3. [Top EXCEPT !.pc = p] =
        [call |-> Top.call, pc |-> p, polls |-> Top.polls, status |-> Top.status]
  BY <1>1 DEF Frame
<1>4. stack' = [stack EXCEPT ![Len(stack)] = [Top EXCEPT !.pc = p]]
  BY DEF Goto, Top
<1> QED  BY <1>2, <1>3, <1>4, MovesTo

LEMMA StatusMoves ==
  ASSUME StackInv, NEW p, Place(p), NEW st \in Codes,
         stack' = [stack EXCEPT ![Len(stack)].pc = p, ![Len(stack)].status = st]
  PROVE  Moved(p, st)
<1>1. Top \in Frame
  BY TopIsFrame
<1>2. Top.polls \in 0..Grace
  BY <1>1 DEF Frame
<1>3. [Top EXCEPT !.pc = p, !.status = st] =
        [call |-> Top.call, pc |-> p, polls |-> Top.polls, status |-> st]
  BY <1>1, FrameChanges
<1>4. stack' = [stack EXCEPT ![Len(stack)] = [Top EXCEPT !.pc = p, !.status = st]]
  BY DEF Top, StackInv
<1>5. stack' = [stack EXCEPT ![Len(stack)] =
                  [call |-> Top.call, pc |-> p, polls |-> Top.polls, status |-> st]]
  BY <1>3, <1>4
<1> QED  BY <1>2, <1>5, MovesTo

LEMMA PollMoves ==
  ASSUME StackInv, Top.pc = "poll", ~GraceOver,
         stack' = [stack EXCEPT ![Len(stack)].polls = @ + 1]
  PROVE  Moved("poll", Top.status)
<1>1. Top \in Frame /\ Place("poll")
  BY TopIsFrame
<1>2. Top.polls + 1 \in 0..Grace /\ Top.status \in Codes
  BY <1>1, InteractiveAssumption DEF Frame, GraceOver
<1>3. [Top EXCEPT !.polls = @ + 1] =
        [call |-> Top.call, pc |-> "poll", polls |-> Top.polls + 1, status |-> Top.status]
  BY <1>1 DEF Frame
<1>4. stack' = [stack EXCEPT ![Len(stack)] = [Top EXCEPT !.polls = @ + 1]]
  BY DEF Top
<1>5. stack' = [stack EXCEPT ![Len(stack)] =
                  [call |-> Top.call, pc |-> "poll", polls |-> Top.polls + 1,
                   status |-> Top.status]]
  BY <1>3, <1>4
<1> QED  BY <1>1, <1>2, <1>5, MovesTo

-----------------------------------------------------------------------------
(* The invariant, action by action.                                        *)

LEMMA MoveKeepsInv ==
  ASSUME Inv, NEW p, NEW st, Moved(p, st), ChildInv',
         child.state = "reaped" => child'.state = "reaped" /\ child'.status = child.status,
         exited' \/ p \in {"record", "note"} => child'.state = "reaped",
         p \notin {"launch", "returned"}, Top.pc \notin {"record", "returned", "dead"},
         reaper' = "cmd_run" =>
           \/ reaper = "cmd_run"
           \/ Len(stack) = 1 /\ p = "record" /\ st = child'.status
  PROVE  Inv'
<1>1. StackInv'
  BY DEF Moved
<1>2. Len(stack) # 1 => /\ Main' = Main
                        /\ Main.pc \notin {"launch", "returned", "failed", "dead"}
  BY DEF Moved, Inv, StackInv
<1>3. Len(stack) = 1 => Main' = Top' /\ Main'.pc = p /\ Main'.status = st /\ Top = Main
  BY TopIsFrame DEF Moved, Inv
<1>4. ASSUME NEW i \in 1..Len(stack'), stack'[i].pc \in {"record", "note"}
      PROVE  child'.state = "reaped"
  <2>1. Len(stack) \in Nat /\ Len(stack') = Len(stack)
    BY DEF Inv, StackInv, Moved
  <2>2. CASE i = Len(stack)
    <3>1. stack'[i].pc = p
      BY <2>1, <2>2 DEF Moved, Top
    <3> QED  BY <1>4, <3>1
  <2>3. CASE i # Len(stack)
    <3>1. i \in 1..(Len(stack) - 1) /\ i \in 1..Len(stack)
      BY <2>1, <2>3
    <3>2. stack'[i] = stack[i]
      BY <3>1 DEF Moved
    <3> QED  BY <1>4, <3>1, <3>2 DEF Inv, ReapedInv
  <2> QED  BY <2>2, <2>3
<1>5. ReapedInv'
  <2>1. Main'.pc \notin {"launch", "returned"}
    BY <1>2, <1>3
  <2> QED  BY <1>4, <2>1 DEF ReapedInv
<1>6. OwnInv'
  <2>1. CASE reaper = "cmd_run"
    <3>1. Len(stack) # 1 /\ child.state = "reaped"
      BY <1>3, <2>1 DEF Inv, OwnInv
    <3>2. Main.pc = "record" /\ Main.status = child.status
      BY <1>2, <2>1, <3>1 DEF Inv, OwnInv
    <3> QED  BY <1>2, <3>1, <3>2 DEF OwnInv
  <2>2. CASE reaper # "cmd_run"
    BY <1>3, <2>2 DEF OwnInv
  <2> QED  BY <2>1, <2>2
<1> QED  BY <1>1, <1>5, <1>6 DEF Inv

LEMMA ReturnKeepsInv ==
  ASSUME Inv, Return, UNCHANGED <<child, reaper>>, ChildInv', child.state = "reaped",
         Len(stack) = 1 /\ reaper = "cmd_run" => exitCode' = child.status
  PROVE  Inv'
<1>1. StackInv' /\ Len(stack') <= Len(stack)
  BY Returns DEF Inv
<1>2. CASE Len(stack) = 1
  <2>1. Main'.pc = "returned"
    BY <1>2, Returns DEF Inv
  <2> QED  BY <1>1, <1>2, <2>1 DEF Inv, ReapedInv, OwnInv
<1>3. CASE Len(stack) # 1
  <2>1. Main' = Main /\ Main.pc \notin {"launch", "returned", "failed", "dead"}
    BY <1>3, Returns DEF Inv, StackInv
  <2> QED  BY <1>1, <2>1 DEF Inv, ReapedInv, OwnInv
<1> QED  BY <1>2, <1>3

\* A child sent a signal is the same child.
LEMMA SentKeepsChild ==
  ASSUME ChildInv, NEW signal \in {"INT", "TERM", "KILL"}
  PROVE  /\ Sent(signal) \in [state : {"none", "running", "zombie", "reaped"},
                              status : Codes, sent : SUBSET {"INT", "TERM", "KILL"},
                              stubborn : BOOLEAN]
         /\ Sent(signal).state = child.state /\ Sent(signal).status = child.status
BY DEF ChildInv, Sent

\* What a child that is reaped, or whose state is changed alone, becomes.
LEMMA StateKeepsChild ==
  ASSUME ChildInv, NEW s \in {"none", "running", "zombie", "reaped"}
  PROVE  /\ [child EXCEPT !.state = s]
              \in [state : {"none", "running", "zombie", "reaped"},
                   status : Codes, sent : SUBSET {"INT", "TERM", "KILL"},
                   stubborn : BOOLEAN]
         /\ [child EXCEPT !.state = s].state = s
         /\ [child EXCEPT !.state = s].status = child.status
BY DEF ChildInv

LEMMA StartKeepsInv ==
  Inv /\ (Launch \/ LaunchFails \/ InstallInt \/ InstallTerm) => Inv'
<1> SUFFICES ASSUME Inv, Launch \/ LaunchFails \/ InstallInt \/ InstallTerm PROVE Inv'
  OBVIOUS
<1>1. PICK p \in {"installInt", "failed", "installTerm", "wait"} : Goto(p)
  BY DEF Launch, LaunchFails, InstallInt, InstallTerm
<1>2. Top.pc \in {"launch", "installInt", "installTerm"}
  BY DEF Launch, LaunchFails, InstallInt, InstallTerm
<1>3. Place(p) /\ Top = Main
  <2>1. Len(stack) = 1
    BY <1>2, TopIsFrame DEF Inv, Place, HandlerPlaces
  <2> QED  BY <2>1, TopIsFrame DEF Inv, Place, MainPlaces
<1>4. Moved(p, Top.status)
  BY <1>1, <1>3, GotoMoves DEF Inv
<1>5. UNCHANGED <<exited, exitCode, reaper>>
  BY DEF Launch, LaunchFails, InstallInt, InstallTerm
<1>6. \/ child' = child
      \/ Main.pc = "launch" /\ child' = [child EXCEPT !.state = "running"]
  BY <1>3 DEF Launch, LaunchFails, InstallInt, InstallTerm
<1>7. ChildInv'
  BY <1>5, <1>6, StateKeepsChild DEF Inv, ChildInv
<1>8. child.state = "reaped" => child' = child
  BY <1>6 DEF Inv, ReapedInv
<1> QED  BY <1>2, <1>4, <1>5, <1>7, <1>8, MoveKeepsInv DEF Inv, ReapedInv

LEMMA WaitKeepsInv == Inv /\ (WaitEntry \/ WaitBlock \/ WaitRecord) => Inv'
<1> SUFFICES ASSUME Inv, WaitEntry \/ WaitBlock \/ WaitRecord PROVE Inv'
  OBVIOUS
<1>0. Place("block") /\ Place("record")
  BY DEF Place, MainPlaces, HandlerPlaces
<1>1. CASE WaitEntry
  <2>1. UNCHANGED <<exited, exitCode, child, reaper>> /\ ChildInv' /\ Top.pc = "wait"
    BY <1>1 DEF WaitEntry, Inv, ChildInv
  <2>2. CASE exited
    <3>1. Return
      BY <1>1, <2>2 DEF WaitEntry
    <3>2. Len(stack) = 1 => reaper # "cmd_run"
      BY <2>1, TopIsFrame DEF Inv, OwnInv
    <3> QED  BY <2>1, <2>2, <3>1, <3>2, ReturnKeepsInv DEF Inv, ReapedInv
  <2>3. CASE ~exited
    <3>1. Moved("block", Top.status)
      BY <1>0, <1>1, <2>3, GotoMoves DEF WaitEntry, Inv
    <3> QED  BY <2>1, <2>3, <3>1, MoveKeepsInv DEF Inv
  <2> QED  BY <2>2, <2>3
<1>2. CASE WaitBlock
  <2> DEFINE st == IF child.state = "zombie" THEN child.status ELSE 0
  <2>1. /\ Top.pc = "block" /\ child.state \in {"zombie", "reaped"}
        /\ child' = [child EXCEPT !.state = "reaped"]
        /\ reaper' = (IF child.state = "zombie" THEN Top.call ELSE reaper)
        /\ UNCHANGED <<exited, exitCode>>
    BY <1>2 DEF WaitBlock
  <2>2. st \in Codes
    BY DEF Inv, ChildInv, Codes, OwnCodes
  <2>3. stack' = [stack EXCEPT ![Len(stack)].pc = "record", ![Len(stack)].status = st]
    BY <1>2 DEF WaitBlock
  <2>4. Moved("record", st)
    BY <1>0, <2>2, <2>3, StatusMoves DEF Inv
  <2>5. ChildInv' /\ child'.state = "reaped" /\ child'.status = child.status
    BY <2>1, StateKeepsChild DEF Inv, ChildInv
  <2>6. reaper' = "cmd_run" =>
          reaper = "cmd_run" \/ (Len(stack) = 1 /\ st = child'.status)
    BY <2>1, <2>5, TopIsFrame DEF Inv, Signals
  <2> HIDE DEF st
  <2> QED  BY <2>1, <2>4, <2>5, <2>6, MoveKeepsInv
<1>3. CASE WaitRecord
  <2>1. /\ Top.pc = "record" /\ exitCode' = Top.status /\ exited' = TRUE /\ Return
        /\ UNCHANGED <<child, reaper>>
    BY <1>3 DEF WaitRecord
  <2>2. child.state = "reaped"
    <3>1. Len(stack) \in 1..Len(stack)
      BY DEF Inv, StackInv
    <3> QED  BY <2>1, <3>1 DEF Inv, ReapedInv, Top
  <2>3. ChildInv'
    BY <2>1, TopIsFrame DEF Inv, ChildInv, Frame
  <2>4. Len(stack) = 1 /\ reaper = "cmd_run" => exitCode' = child.status
    BY <2>1, TopIsFrame DEF Inv, OwnInv
  <2> QED  BY <2>1, <2>2, <2>3, <2>4, ReturnKeepsInv
<1> QED  BY <1>1, <1>2, <1>3

LEMMA TerminateKeepsInv ==
  Inv /\ (TerminateEntry \/ TerminateKill \/ Poll \/ PollNote \/ TerminateForce) => Inv'
<1> SUFFICES ASSUME Inv,
                    TerminateEntry \/ TerminateKill \/ Poll \/ PollNote \/ TerminateForce
             PROVE  Inv'
  OBVIOUS
<1>1. Top.pc \in {"entry", "kill", "poll", "note", "force"}
  BY DEF TerminateEntry, TerminateKill, Poll, PollNote, TerminateForce
<1>2. Len(stack) # 1 /\ Top.call # "cmd_run"
  BY <1>1, TopIsFrame DEF Inv, Place, MainPlaces, Signals
<1>3. \A p \in HandlerPlaces : Place(p)
  BY <1>2 DEF Place
<1>4. CASE TerminateEntry \/ TerminateForce
  <2>1. UNCHANGED <<exited, exitCode, reaper>>
    BY <1>4 DEF TerminateEntry, TerminateForce
  <2>2. CASE exited
    <3>1. Return /\ UNCHANGED child
      BY <1>4, <2>2 DEF TerminateEntry, TerminateForce
    <3> QED  BY <1>2, <2>1, <2>2, <3>1, ReturnKeepsInv DEF Inv, ReapedInv, ChildInv
  <2>3. CASE ~exited
    <3>1. PICK p \in {"kill", "wait"} : Goto(p)
      BY <1>4, <2>3 DEF TerminateEntry, TerminateForce
    <3>2. Moved(p, Top.status)
      BY <1>3, <3>1, GotoMoves DEF Inv, HandlerPlaces
    <3>3. child' = child \/ child' = Sent("KILL")
      BY <1>4, <2>3 DEF TerminateEntry, TerminateForce
    <3>4. ChildInv' /\ child'.state = child.state /\ child'.status = child.status
      BY <2>1, <3>3, SentKeepsChild DEF Inv, ChildInv
    <3> QED  BY <1>1, <2>1, <2>3, <3>2, <3>4, MoveKeepsInv
  <2> QED  BY <2>2, <2>3
<1>5. CASE TerminateKill
  <2>1. child' = Sent("TERM") /\ UNCHANGED <<exited, exitCode, reaper>>
    BY <1>5 DEF TerminateKill
  <2>2. Moved("poll", Top.status)
    BY <1>3, <1>5, GotoMoves DEF TerminateKill, Inv, HandlerPlaces
  <2>3. ChildInv' /\ child'.state = child.state /\ child'.status = child.status
    BY <2>1, SentKeepsChild DEF Inv, ChildInv
  <2> QED  BY <1>1, <2>1, <2>2, <2>3, MoveKeepsInv DEF Inv, ReapedInv
<1>6. CASE Poll
  <2>1. UNCHANGED <<exited, exitCode>> /\ Top.pc = "poll"
    BY <1>6 DEF Poll
  <2>2. CASE Reaps
    <3>1. child' = [child EXCEPT !.state = "reaped"] /\ reaper' = Top.call
      BY <1>6, <2>2 DEF Poll
    <3>2. ChildInv' /\ child'.state = "reaped" /\ child'.status = child.status
      BY <2>1, <3>1, StateKeepsChild DEF Inv, ChildInv
    <3>3. stack' = [stack EXCEPT ![Len(stack)].pc = "note",
                                 ![Len(stack)].status = child.status]
      BY <1>6, <2>2 DEF Poll, Reaps
    <3>4. Moved("note", child.status)
      BY <1>3, <3>3, StatusMoves DEF Inv, ChildInv, HandlerPlaces
    <3> QED  BY <1>1, <1>2, <2>1, <3>1, <3>2, <3>4, MoveKeepsInv
  <2>3. CASE ~Reaps
    <3>1. UNCHANGED <<child, reaper>> /\ ChildInv'
      BY <1>6, <2>1, <2>3 DEF Poll, Inv, ChildInv
    <3>2. \E p \in {"force", "poll"} : Moved(p, Top.status)
      <4>1. CASE Goto("force")
        BY <1>3, <4>1, GotoMoves DEF Inv, HandlerPlaces
      <4>2. CASE ~GraceOver /\ stack' = [stack EXCEPT ![Len(stack)].polls = @ + 1]
        BY <2>1, <4>2, PollMoves DEF Inv
      <4> QED  BY <1>6, <2>3, <4>1, <4>2 DEF Poll
    <3> QED  BY <1>1, <2>1, <3>1, <3>2, MoveKeepsInv DEF Inv, ReapedInv
  <2> QED  BY <2>2, <2>3
<1>7. CASE PollNote
  <2>1. /\ Top.pc = "note" /\ exited' = TRUE /\ exitCode' = Top.status
        /\ Goto("force") /\ UNCHANGED <<child, reaper>>
    BY <1>7 DEF PollNote
  <2>2. child.state = "reaped"
    <3>1. Len(stack) \in 1..Len(stack)
      BY DEF Inv, StackInv
    <3> QED  BY <2>1, <3>1 DEF Inv, ReapedInv, Top
  <2>3. ChildInv'
    BY <2>1, TopIsFrame DEF Inv, ChildInv, Frame
  <2>4. Moved("force", Top.status)
    BY <1>3, <2>1, GotoMoves DEF Inv, HandlerPlaces
  <2> QED  BY <1>1, <2>1, <2>2, <2>3, <2>4, MoveKeepsInv
<1> QED  BY <1>4, <1>5, <1>6, <1>7

\* The child only ever ends by itself, and signals come one by one.
LEMMA OthersKeepInv ==
  ASSUME Inv,
         \/ ChildExits \/ ChildKilled
         \/ \E signal \in Signals : Arrives(signal) \/ Deliver(signal)
  PROVE  Inv'
<1>1. CASE ChildExits \/ ChildKilled
  <2>1. PICK code \in Codes :
          child' = [child EXCEPT !.state = "zombie", !.status = code]
    <3>1. CASE ChildExits
      BY <3>1 DEF ChildExits, Codes
    <3>2. CASE ChildKilled
      <4>1. PICK signal \in child.sent :
              child' = [child EXCEPT !.state = "zombie", !.status = KilledBy[signal]]
        BY <3>2 DEF ChildKilled
      <4>2. signal \in {"INT", "TERM", "KILL"}
        BY <4>1 DEF Inv, ChildInv
      <4>3. KilledBy[signal] \in Codes
        BY <4>2 DEF KilledBy, Codes
      <4> QED  BY <4>1, <4>3
    <3> QED  BY <1>1, <3>1, <3>2
  <2>2. child.state = "running" /\ UNCHANGED <<stack, exited, exitCode, reaper>>
    BY <1>1 DEF ChildExits, ChildKilled
  <2>3. ChildInv'
    BY <2>1, <2>2 DEF Inv, ChildInv
  <2>4. StackInv'
    BY <2>2 DEF Inv, StackInv, Main
  <2>5. ReapedInv' /\ OwnInv'
    BY <2>2 DEF Inv, ReapedInv, OwnInv, Main
  <2> QED  BY <2>3, <2>4, <2>5 DEF Inv
<1>2. ASSUME NEW signal \in Signals, Arrives(signal) PROVE Inv'
  <2>1. child' = child \/ child' = Sent("INT")
    BY <1>2 DEF Arrives
  <2>2. UNCHANGED <<exited, exitCode, reaper>>
    BY <1>2 DEF Arrives
  <2>3. ChildInv' /\ child'.state = child.state /\ child'.status = child.status
    BY <2>1, <2>2, SentKeepsChild DEF Inv, ChildInv
  <2>4. CASE UNCHANGED stack
    BY <2>2, <2>3, <2>4 DEF Inv, StackInv, ReapedInv, OwnInv, Main
  <2>5. CASE stack' = <<[Main EXCEPT !.pc = "dead"]>>
    <3> DEFINE f == [Main EXCEPT !.pc = "dead"]
    <3>1. 1 \in 1..Len(stack) /\ stack \in Seq(Frame)
      BY DEF Inv, StackInv
    <3>2. Main \in Frame
      BY <3>1 DEF Main
    <3>3. f \in Frame /\ f.call = Main.call /\ f.pc = "dead"
      BY <3>2 DEF Frame
    <3> HIDE DEF f
    <3>4. stack' \in Seq(Frame) /\ Len(stack') = 1 /\ Main' = f
      BY <2>5, <3>3 DEF f, Main
    <3>5. StackInv'
      BY <3>3, <3>4 DEF Inv, StackInv, MainPlaces
    <3>6. ReapedInv' /\ OwnInv'
      BY <2>2, <2>3, <3>3, <3>4 DEF Inv, ReapedInv, OwnInv, Main
    <3> QED  BY <2>3, <3>5, <3>6 DEF Inv
  <2> QED  BY <1>2, <2>4, <2>5 DEF Arrives
<1>3. ASSUME NEW signal \in Signals, Deliver(signal) PROVE Inv'
  <2> DEFINE f == [call |-> signal, pc |-> "entry", polls |-> 0, status |-> 0]
  <2>1. f \in Frame /\ f.call = signal /\ f.pc = "entry"
    BY InteractiveAssumption DEF Frame, Codes, OwnCodes, Signals
  <2>2. stack' = Append(stack, f) /\ UNCHANGED <<exited, exitCode, child, reaper>> /\ Alive
    BY <1>3 DEF Deliver
  <2> HIDE DEF f
  <2>3. stack \in Seq(Frame) /\ Len(stack) \in Nat /\ Len(stack) >= 1
    BY DEF Inv, StackInv
  <2>4. /\ stack' \in Seq(Frame) /\ Len(stack') = Len(stack) + 1
        /\ \A i \in 1..Len(stack) : stack'[i] = stack[i]
        /\ stack'[Len(stack) + 1] = f
    BY <2>1, <2>2, <2>3
  <2>5. Main' = Main /\ Main.pc \notin {"launch", "returned", "failed", "dead"}
    BY <2>2, <2>3, <2>4 DEF Main, Alive
  <2>6. \A i \in 1..Len(stack') : i \in 1..Len(stack) \/ stack'[i] = f
    BY <2>3, <2>4
  <2>7. \A i \in 2..Len(stack') : i \in 2..Len(stack) \/ stack'[i] = f
    BY <2>3, <2>4
  <2>8. \A i \in 2..Len(stack) : stack'[i] = stack[i]
    BY <2>3, <2>4
  <2>9. StackInv'
    BY <2>1, <2>3, <2>4, <2>5, <2>7, <2>8 DEF Inv, StackInv, HandlerPlaces
  <2>10. ReapedInv' /\ OwnInv'
    BY <2>1, <2>2, <2>4, <2>5, <2>6 DEF Inv, ReapedInv, OwnInv
  <2> QED  BY <2>2, <2>9, <2>10 DEF Inv, ChildInv
<1> QED  BY <1>1, <1>2, <1>3

LEMMA InvNext == Inv /\ [Next]_vars => Inv'
<1>1. Inv /\ UNCHANGED vars => Inv'
  BY DEF Inv, StackInv, ChildInv, ReapedInv, OwnInv, Main, vars
<1> QED  BY <1>1, StartKeepsInv, WaitKeepsInv, TerminateKeepsInv, OthersKeepInv
         DEF Next, Program, Ended

-----------------------------------------------------------------------------
(* What follows.                                                           *)

\* The command never returns before its child is gone, for any number of
\* signals and of polls (process_runner_posix.cpp:126-165).
THEOREM ReapedBeforeExited == Spec => []ExitedMeansReaped
<1>1. Inv => ExitedMeansReaped
  BY DEF Inv, ReapedInv, ExitedMeansReaped
<1> QED  BY InvInit, InvNext, <1>1, PTL DEF Spec

\* A status that cmd_run's own waitpid obtained is what FluxInfer exits with,
\* whichever handlers run before it is recorded.
THEOREM StatusSurvives == Spec => []OwnStatusSurvives
<1>1. Inv => OwnStatusSurvives
  BY DEF Inv, OwnInv, OwnStatusSurvives
<1> QED  BY InvInit, InvNext, <1>1, PTL DEF Spec

\* A call of terminate() that returns leaves no child behind.
THEOREM TerminateIsFinal == Spec => TerminateEndsTheChild
<1>1. ASSUME Inv, [Next]_vars, Len(stack') < Len(stack), Main'.pc # "dead"
      PROVE  child.state = "reaped"
  <2>1. stack \in Seq(Frame) /\ Len(stack) \in 1..Len(stack) /\ Len(stack) \in Nat
    <3>1. stack \in Seq(Frame) /\ Len(stack) >= 1
      BY <1>1 DEF Inv, StackInv
    <3> QED  BY <3>1
  <2>2. \A p : ~Goto(p)
    BY <1>1, <2>1 DEF Goto
  <2>3. ~Poll /\ ~WaitBlock
    BY <1>1, <2>1 DEF Poll, WaitBlock, Goto
  <2>4. ASSUME NEW signal \in Signals PROVE ~Arrives(signal) /\ ~Deliver(signal)
    <3>1. stack' # <<[Main EXCEPT !.pc = "dead"]>>
      <4>1. SUFFICES ASSUME stack' = <<[Main EXCEPT !.pc = "dead"]>> PROVE FALSE
        OBVIOUS
      <4>2. 1 \in 1..Len(stack)
        BY <2>1
      <4>3. Main \in Frame
        BY <2>1, <4>2 DEF Main
      <4>4. Main' = [Main EXCEPT !.pc = "dead"]
        BY <4>1 DEF Main
      <4> QED  BY <1>1, <4>3, <4>4 DEF Frame
    <3>2. ~Arrives(signal)
      BY <1>1, <2>1, <3>1 DEF Arrives
    <3>3. ~Deliver(signal)
      BY <1>1, <2>1 DEF Deliver
    <3> QED  BY <3>2, <3>3
  <2>5. stack' # stack
    BY <1>1, <2>1
  <2>6. exited \/ Top.pc = "record"
    BY <1>1, <2>2, <2>3, <2>4, <2>5
       DEF Next, Program, Launch, LaunchFails, InstallInt, InstallTerm, WaitEntry,
           WaitRecord, TerminateEntry, TerminateKill, PollNote, TerminateForce, ChildExits,
           ChildKilled, Ended, vars
  <2> QED  BY <1>1, <2>1, <2>6 DEF Inv, ReapedInv, Top
<1> QED  BY InvInit, InvNext, <1>1, PTL DEF Spec, TerminateEndsTheChild

-----------------------------------------------------------------------------
(* Signals.  One is only pending once its handler is installed, and none    *)
(* runs on top of its own handler, so the stack has three frames at most.   *)

SignalInv ==
  /\ handled \subseteq Signals /\ pending \subseteq handled
  /\ Main.pc \in {"launch", "installInt"} => handled = {}
  /\ budget \in 0..MaxSignals
  /\ reaper \in {"none", "cmd_run"} \cup Signals
  /\ \A i, j \in 1..Len(stack) : stack[i].call = stack[j].call => i = j

LEMMA SignalInit == Init => SignalInv
<1> SUFFICES ASSUME Init PROVE SignalInv
  OBVIOUS
<1>1. Len(stack) = 1
  BY DEF Init
<1> QED  BY <1>1, InteractiveAssumption DEF Init, SignalInv

\* A frame that moves on belongs to the same call.
LEMMA CallsStay ==
  ASSUME StackInv, NEW r, r.call = Top.call, stack' = [stack EXCEPT ![Len(stack)] = r]
  PROVE  /\ Len(stack') = Len(stack)
         /\ \A i \in 1..Len(stack) : stack'[i].call = stack[i].call
         /\ Main' \in {Main, r}
<1>1. stack \in Seq(Frame) /\ Len(stack) \in 1..Len(stack) /\ 1 \in 1..Len(stack)
  BY DEF StackInv
<1>2. Len(stack') = Len(stack)
  BY <1>1
<1>3. \A i \in 1..Len(stack) : stack'[i] = IF i = Len(stack) THEN r ELSE stack[i]
  BY <1>1
<1>4. Main' \in {Main, r}
  BY <1>1, <1>3 DEF Main
<1> QED  BY <1>2, <1>3, <1>4 DEF Top

\* What a step of the program does to the stack, as far as signals go.
Advances ==
  /\ Len(stack') \in Nat /\ Len(stack') <= Len(stack)
  /\ \A i \in 1..Len(stack') : stack'[i].call = stack[i].call
  /\ Main'.pc \in {"launch", "installInt"} => Main.pc \in {"launch", "installInt"}

LEMMA MoveAdvances ==
  ASSUME Inv, NEW r, r.call = Top.call, stack' = [stack EXCEPT ![Len(stack)] = r],
         r.pc \in {"launch", "installInt"} => Top.pc = "launch"
  PROVE  Advances
<1>1. StackInv /\ Len(stack) \in Nat
  BY DEF Inv, StackInv
<1>2. /\ Len(stack') = Len(stack)
      /\ \A i \in 1..Len(stack) : stack'[i].call = stack[i].call
      /\ Main' \in {Main, r}
  BY <1>1, CallsStay
<1>3. Top.pc = "launch" => Main.pc = "launch"
  BY <1>1, TopIsFrame DEF Place, HandlerPlaces
<1>4. \A k, n \in Nat : k = n => k <= n
  OBVIOUS
<1>5. Len(stack') \in Nat /\ Len(stack') <= Len(stack)
  BY <1>1, <1>2, <1>4
<1>6. \A i \in 1..Len(stack') : stack'[i].call = stack[i].call
  BY <1>2
<1>7. Main'.pc \in {"launch", "installInt"} => Main.pc \in {"launch", "installInt"}
  BY <1>2, <1>3
<1> QED  BY <1>5, <1>6, <1>7 DEF Advances

LEMMA ReturnAdvances ==
  ASSUME Inv, Return
  PROVE  Advances
<1>1. stack \in Seq(Frame) /\ Len(stack) \in Nat /\ Len(stack) >= 1
  BY DEF Inv, StackInv
<1>2. CASE Len(stack) = 1
  <2> DEFINE f == [Main EXCEPT !.pc = "returned"]
  <2>1. f.call = Main.call /\ f.pc = "returned"
    <3>1. 1 \in 1..Len(stack)
      BY <1>2
    <3>2. Main \in Frame
      BY <1>1, <3>1 DEF Main
    <3> QED  BY <3>2 DEF Frame
  <2>2. stack' = <<f>>
    BY <1>2 DEF Return
  <2> HIDE DEF f
  <2>3. Len(stack') = 1 /\ stack'[1] = f
    BY <2>2
  <2>4. Main' = f
    BY <2>3 DEF Main
  <2>5. \A i \in 1..Len(stack') : stack'[i].call = stack[i].call
    BY <2>1, <2>3 DEF Main
  <2> QED  BY <1>2, <2>1, <2>3, <2>4, <2>5 DEF Advances
<1>3. CASE Len(stack) # 1
  <2>1. stack' = SubSeq(stack, 1, Len(stack) - 1)
    <3>1. \A n \in Nat : n >= 1 /\ n # 1 => n > 1
      OBVIOUS
    <3>2. Len(stack) > 1
      BY <1>1, <1>3, <3>1
    <3> QED  BY <3>2 DEF Return, Front
  <2>2. Len(stack) - 1 \in Nat /\ Len(stack) - 1 <= Len(stack)
    BY <1>1
  <2>3. Len(stack') = Len(stack) - 1
    BY <1>3, Returns DEF Inv
  <2>4. \A i \in 1..Len(stack') : stack'[i] = stack[i]
    BY <1>1, <2>1, <2>2
  <2>5. Main' = Main
    BY <1>3, Returns DEF Inv
  <2> QED  BY <2>2, <2>3, <2>4, <2>5 DEF Advances
<1> QED  BY <1>2, <1>3

LEMMA ProgramAdvances == Inv /\ Program => Advances
<1> SUFFICES ASSUME Inv, Program PROVE Advances
  OBVIOUS
<1>0. Top \in Frame
  BY TopIsFrame DEF Inv
<1>1. ASSUME NEW p, Goto(p), p \in {"launch", "installInt"} => Top.pc = "launch"
      PROVE  Advances
  <2> DEFINE r == [Top EXCEPT !.pc = p]
  <2>1. stack' = [stack EXCEPT ![Len(stack)] = r]
    BY <1>1 DEF Goto, Top
  <2>2. r.call = Top.call /\ r.pc = p
    BY <1>0 DEF Frame
  <2> HIDE DEF r
  <2> QED  BY <1>1, <2>1, <2>2, MoveAdvances
<1>2. ASSUME NEW p \in {"note", "record"}, NEW st,
             stack' = [stack EXCEPT ![Len(stack)].pc = p, ![Len(stack)].status = st]
      PROVE  Advances
  <2> DEFINE r == [Top EXCEPT !.pc = p, !.status = st]
  <2>1. stack' = [stack EXCEPT ![Len(stack)] = r]
    BY <1>2 DEF Inv, StackInv, Top
  <2>2. r.call = Top.call /\ r.pc = p
    BY <1>0, FrameChanges
  <2>3. r.pc \notin {"launch", "installInt"}
    BY <1>2, <2>2
  <2> HIDE DEF r
  <2> QED  BY <2>1, <2>2, <2>3, MoveAdvances
<1>3. ASSUME Top.pc = "poll", stack' = [stack EXCEPT ![Len(stack)].polls = @ + 1]
      PROVE  Advances
  <2> DEFINE r == [Top EXCEPT !.polls = @ + 1]
  <2>1. stack' = [stack EXCEPT ![Len(stack)] = r]
    BY <1>3 DEF Top
  <2>2. r.call = Top.call /\ r.pc = "poll"
    BY <1>0, <1>3 DEF Frame
  <2>3. r.pc \notin {"launch", "installInt"}
    BY <2>2
  <2> HIDE DEF r
  <2> QED  BY <2>1, <2>2, <2>3, MoveAdvances
<1>4. CASE Launch \/ LaunchFails \/ InstallInt \/ InstallTerm \/ TerminateKill \/ PollNote
  BY <1>1, <1>4 DEF Launch, LaunchFails, InstallInt, InstallTerm, TerminateKill, PollNote
<1>5. CASE WaitEntry \/ TerminateEntry \/ TerminateForce
  BY <1>1, <1>5, ReturnAdvances DEF WaitEntry, TerminateEntry, TerminateForce
<1>6. CASE WaitBlock
  <2> DEFINE st == IF child.state = "zombie" THEN child.status ELSE 0
  <2>1. stack' = [stack EXCEPT ![Len(stack)].pc = "record", ![Len(stack)].status = st]
    BY <1>6 DEF WaitBlock
  <2> HIDE DEF st
  <2> QED  BY <1>2, <2>1
<1>7. CASE WaitRecord
  BY <1>7, ReturnAdvances DEF WaitRecord
<1>8. CASE Poll
  <2>1. Top.pc = "poll"
    BY <1>8 DEF Poll
  <2>2. CASE Goto("force")
    BY <1>1, <2>2
  <2>3. CASE stack' = [stack EXCEPT ![Len(stack)].pc = "note",
                                    ![Len(stack)].status = child.status]
    BY <1>2, <2>3
  <2>4. CASE stack' = [stack EXCEPT ![Len(stack)].polls = @ + 1]
    BY <1>3, <2>1, <2>4
  <2> QED  BY <1>8, <2>2, <2>3, <2>4 DEF Poll
<1> QED  BY <1>4, <1>5, <1>6, <1>7, <1>8 DEF Program

LEMMA ProgramKeepsSignals == Inv /\ SignalInv /\ Program => SignalInv'
<1> SUFFICES ASSUME Inv, SignalInv, Program PROVE SignalInv'
  OBVIOUS
<1>1. Advances /\ Len(stack) \in Nat
  BY ProgramAdvances DEF Inv, StackInv
<1>2. \A i, j \in 1..Len(stack') : stack'[i].call = stack'[j].call => i = j
  <2>1. \A i \in 1..Len(stack') : i \in 1..Len(stack)
    BY <1>1 DEF Advances
  <2> QED  BY <1>1, <2>1 DEF Advances, SignalInv
<1>3. budget' = budget /\ pending' = pending
  BY DEF Program, Launch, LaunchFails, InstallInt, InstallTerm, WaitEntry, WaitBlock, WaitRecord,
         TerminateEntry, TerminateKill, Poll, PollNote, TerminateForce
<1>4. reaper' \in {reaper, Top.call}
  BY DEF Program, Launch, LaunchFails, InstallInt, InstallTerm, WaitEntry, WaitBlock, WaitRecord,
         TerminateEntry, TerminateKill, Poll, PollNote, TerminateForce
<1>5. reaper' \in {"none", "cmd_run"} \cup Signals
  BY <1>4, TopIsFrame DEF Inv, SignalInv, Frame
<1>6. handled' = handled \/ InstallInt \/ InstallTerm
  BY DEF Program, Launch, LaunchFails, WaitEntry, WaitBlock, WaitRecord,
         TerminateEntry, TerminateKill, Poll, PollNote, TerminateForce
<1>7. /\ handled' \subseteq Signals /\ pending' \subseteq handled'
      /\ Main'.pc \in {"launch", "installInt"} => handled' = {}
  <2>1. CASE handled' = handled
    BY <1>1, <1>3, <2>1 DEF Advances, SignalInv
  <2>2. CASE InstallInt \/ InstallTerm
    <3>1. PICK p \in {"installTerm", "wait"} : Goto(p)
      BY <2>2 DEF InstallInt, InstallTerm
    <3>2. Top.pc \in {"installInt", "installTerm"}
      BY <2>2 DEF InstallInt, InstallTerm
    <3>3. Len(stack) = 1 /\ Top = Main
      BY <3>2, TopIsFrame DEF Inv, Place, HandlerPlaces
    <3>4. Place(p)
      BY <3>1, <3>3 DEF Place, MainPlaces
    <3>5. Main'.pc = p
      BY <3>1, <3>3, <3>4, GotoMoves DEF Inv, Moved
    <3>6. InstallInt => handled = {} /\ handled' = {"INT"}
      BY <3>3 DEF InstallInt, SignalInv
    <3>7. InstallTerm => handled' = Signals
      BY DEF InstallTerm
    <3> QED  BY <1>3, <2>2, <3>1, <3>5, <3>6, <3>7 DEF SignalInv, Signals
  <2> QED  BY <1>6, <2>1, <2>2
<1> QED  BY <1>2, <1>3, <1>5, <1>7 DEF SignalInv

LEMMA OthersKeepSignals ==
  ASSUME Inv, SignalInv,
         \/ ChildExits \/ ChildKilled
         \/ \E signal \in Signals : Arrives(signal) \/ Deliver(signal)
  PROVE  SignalInv'
<1>1. CASE ChildExits \/ ChildKilled
  BY <1>1 DEF ChildExits, ChildKilled, SignalInv, Main
<1>2. ASSUME NEW signal \in Signals, Arrives(signal) PROVE SignalInv'
  <2>1. budget' \in 0..MaxSignals /\ handled' = handled /\ reaper' = reaper
    BY <1>2, InteractiveAssumption DEF Arrives, SignalInv
  <2>2. CASE signal \in handled
    BY <1>2, <2>1, <2>2 DEF Arrives, SignalInv, Main
  <2>3. CASE signal \notin handled
    <3> DEFINE f == [Main EXCEPT !.pc = "dead"]
    <3>1. stack' = <<f>> /\ pending' = pending
      BY <1>2, <2>3 DEF Arrives
    <3>2. f.pc = "dead"
      <4>1. 1 \in 1..Len(stack) /\ stack \in Seq(Frame)
        BY DEF Inv, StackInv
      <4>2. Main \in Frame
        BY <4>1 DEF Main
      <4> QED  BY <4>2 DEF Frame
    <3> HIDE DEF f
    <3>3. Len(stack') = 1 /\ Main' = f
      BY <3>1 DEF Main
    <3> QED  BY <2>1, <3>1, <3>2, <3>3 DEF SignalInv
  <2> QED  BY <2>2, <2>3
<1>3. ASSUME NEW signal \in Signals, Deliver(signal) PROVE SignalInv'
  <2> DEFINE f == [call |-> signal, pc |-> "entry", polls |-> 0, status |-> 0]
  <2>1. /\ stack' = Append(stack, f) /\ f.call = signal
        /\ pending' \subseteq pending /\ UNCHANGED <<handled, budget, reaper>>
        /\ \A i \in 1..Len(stack) : stack[i].call # signal
    BY <1>3 DEF Deliver, Blocked
  <2> HIDE DEF f
  <2>2. stack \in Seq(Frame) /\ Len(stack) \in Nat /\ Len(stack) >= 1
    BY DEF Inv, StackInv
  <2>3. /\ Len(stack') = Len(stack) + 1
        /\ \A i \in 1..Len(stack) : stack'[i] = stack[i]
        /\ stack'[Len(stack) + 1] = f
    BY <2>1, <2>2
  <2>4. Main' = Main
    BY <2>2, <2>3 DEF Main
  <2>5. \A i \in 1..Len(stack') : i \in 1..Len(stack) \/ i = Len(stack) + 1
    BY <2>2, <2>3
  <2>6. \A i, j \in 1..Len(stack') : stack'[i].call = stack'[j].call => i = j
    BY <2>1, <2>3, <2>5 DEF SignalInv
  <2> QED  BY <2>1, <2>4, <2>6 DEF SignalInv
<1> QED  BY <1>1, <1>2, <1>3

LEMMA SignalNext == Inv /\ SignalInv /\ [Next]_vars => SignalInv'
<1>1. SignalInv /\ UNCHANGED vars => SignalInv'
  BY DEF SignalInv, Main, vars
<1> QED  BY <1>1, ProgramKeepsSignals, OthersKeepSignals DEF Next, Ended

\* However many signals arrive, at most two handlers run on top of wait(), one
\* for each, and none runs before it is installed.
THEOREM TypeCorrect == Spec => []TypeOK
<1>1. ASSUME Inv, SignalInv PROVE TypeOK
  <2>1. Len(stack) \in Nat /\ Len(stack) >= 1
    BY <1>1 DEF Inv, StackInv
  <2>2. Len(stack) <= 3
    <3>1. SUFFICES ASSUME Len(stack) >= 4 PROVE FALSE
      BY <2>1
    <3>2. 2 \in 2..Len(stack) /\ 3 \in 2..Len(stack) /\ 4 \in 2..Len(stack)
      BY <2>1, <3>1
    <3>3. 2 \in 1..Len(stack) /\ 3 \in 1..Len(stack) /\ 4 \in 1..Len(stack)
      BY <2>1, <3>1
    <3>4. stack[2].call \in Signals /\ stack[3].call \in Signals /\ stack[4].call \in Signals
      BY <1>1, <3>2 DEF Inv, StackInv
    <3>5. /\ stack[2].call # stack[3].call /\ stack[3].call # stack[4].call
          /\ stack[2].call # stack[4].call
      BY <1>1, <3>3 DEF SignalInv
    <3> QED  BY <3>4, <3>5 DEF Signals
  <2>3. stack \in Seq(Frame) /\ Len(stack) \in 1..3
    <3>1. \A n \in Nat : n >= 1 /\ n <= 3 => n \in 1..3
      OBVIOUS
    <3> QED  BY <1>1, <2>1, <2>2, <3>1 DEF Inv, StackInv
  <2>4. /\ exited \in BOOLEAN /\ exitCode \in Codes \cup {-1}
        /\ child \in [state : {"none", "running", "zombie", "reaped"}, status : Codes,
                       sent : SUBSET {"INT", "TERM", "KILL"}, stubborn : BOOLEAN]
    BY <1>1 DEF Inv, ChildInv
  <2>5. /\ handled \subseteq Signals /\ pending \subseteq handled
        /\ budget \in 0..MaxSignals /\ reaper \in {"none", "cmd_run"} \cup Signals
    BY <1>1 DEF SignalInv
  <2> QED  BY <2>3, <2>4, <2>5 DEF TypeOK
<1> QED  BY InvInit, InvNext, SignalInit, SignalNext, <1>1, PTL DEF Spec
==================================================================================
