------------------------- MODULE ExecTimeoutProofs -------------------------
(***************************************************************************)
(* The safety of exec_with_timeout() and its signal handler, for any       *)
(* number of commands.                                                     *)
(***************************************************************************)
EXTENDS ExecTimeout, TLAPS

USE ExecAssumption

(* The children before and after the current one.                          *)
OtherChildren ==
  \A p \in Pid : /\ p > cmds => proc[p] = "none" /\ got[p] = << >>
                 /\ p < cmds /\ pc # "dead" => proc[p] = "reaped"

(* The current child, at each statement.                                   *)
CurrentChild ==
  /\ pc = "start" => proc[cmds] = "none" /\ got[cmds] = << >> /\ child_pid < cmds
  /\ pc = "forked" => /\ ~have_spawn_h /\ child_pid < cmds /\ got[cmds] = << >>
                      /\ proc[cmds] \in {"starting", "running", "zombie"}
  /\ pc \in {"alarm", "alarm_on"} => got[cmds] = << >>
  /\ pc \in {"alarm", "alarm_on", "waitpid"} =>
       /\ child_pid = cmds
       /\ proc[cmds] \in {"starting", "running", "killed", "zombie"}
       /\ have_spawn_h => proc[cmds] # "starting"
  /\ pc \in {"alarm_off", "alarm_0", "idle"} /\ cmds > 0 =>
       proc[cmds] = "reaped" /\ child_pid = cmds

(* The alarm, at each statement.                                           *)
Alarms ==
  /\ pc \in {"idle", "start", "forked", "alarm"} => ~alarm
  /\ pc \in {"idle", "start", "forked", "alarm", "alarm_on", "alarm_0"} => alarm_on = 0

(* What the current child has been sent, and what timed_out says of it.    *)
Progress ==
  /\ have_spawn_h /\ pc \in {"start", "alarm", "alarm_on"} => ~timed_out
  /\ have_spawn_h /\ pc = "waitpid" =>
       Len(got[cmds]) = 3 - alarm_on /\ (timed_out <=> alarm_on < 3)
  /\ pc \in {"waitpid", "alarm_off", "alarm_0", "idle"} /\ cmds > 0 =>
       (got[cmds] # << >> => timed_out)

Inv == TypeOK /\ SignalsEscalate /\ OtherChildren /\ CurrentChild /\ Alarms /\ Progress

-----------------------------------------------------------------------------
(* The signal that the handler sends when k are left is the next one.      *)
LEMMA NextSignal ==
  ASSUME NEW s \in Seq(Signal), Escalates(s), NEW k \in 1..3, Len(s) = 3 - k,
         NEW sig, sig = IF k - 1 > 0 THEN "SIGTERM" ELSE "SIGKILL"
  PROVE  /\ Append(s, sig) \in Seq(Signal) /\ Escalates(Append(s, sig))
         /\ Len(Append(s, sig)) = 3 - (k - 1) /\ Append(s, sig) # << >>
<1>1. sig \in Signal
  BY DEF Signal
<1>2. /\ Append(s, sig) \in Seq(Signal) /\ Len(Append(s, sig)) = Len(s) + 1
      /\ Append(s, sig)[Len(s) + 1] = sig
      /\ \A i \in 1..Len(s) : Append(s, sig)[i] = s[i]
  BY <1>1
<1>3. Append(s, sig) # << >>
  BY <1>2
<1>4. QED
  BY <1>2, <1>3 DEF Escalates

(* The invariant holds at the start.                                       *)
LEMMA InitInv == Init => Inv
<1> SUFFICES ASSUME Init PROVE Inv
  OBVIOUS
<1>1. TypeOK
  <2>1. got \in [Pid -> Seq(Signal)]
    BY DEF Init
  <2>2. cmds \in 0..MaxCmds /\ child_pid \in 0..cmds /\ alarm_on \in 0..3
    BY DEF Init
  <2>3. proc \in [Pid -> {"none", "starting", "running", "killed", "zombie", "reaped"}]
    BY DEF Init
  <2>4. QED
    BY <2>1, <2>2, <2>3, Zenon DEF Init, TypeOK
<1>2. SignalsEscalate
  BY DEF Init, SignalsEscalate, Escalates
<1>3. OtherChildren /\ CurrentChild /\ Alarms /\ Progress
  BY DEF Init, OtherChildren, CurrentChild, Alarms, Progress
<1>4. QED
  BY <1>1, <1>2, <1>3 DEF Inv

(* A new command: the child of the previous one has been reaped.           *)
LEMMA CallInv == ASSUME Inv, Call PROVE Inv'
<1> USE DEF Inv, Call, From, fixed
<1>1. TypeOK'
  <2>1. cmds' \in 0..MaxCmds /\ child_pid' \in 0..cmds' /\ cmds' > 0
    BY DEF TypeOK
  <2>2. QED
    BY <2>1, Zenon DEF TypeOK
<1>2. SignalsEscalate'
  BY DEF SignalsEscalate
<1>3. OtherChildren'
  <2> SUFFICES ASSUME NEW p \in Pid
               PROVE  /\ p > cmds' => proc'[p] = "none" /\ got'[p] = << >>
                      /\ p < cmds' => proc'[p] = "reaped"
    BY DEF OtherChildren
  <2>1. CASE p = cmds
    BY <2>1 DEF CurrentChild, Pid
  <2>2. CASE p # cmds
    BY <2>2 DEF TypeOK, OtherChildren, Pid
  <2>3. QED
    BY <2>1, <2>2
<1>4. CurrentChild'
  BY DEF TypeOK, OtherChildren, CurrentChild, Pid
<1>5. Alarms'
  BY DEF Alarms
<1>6. Progress'
  BY DEF Progress
<1>7. QED
  BY <1>1, <1>2, <1>3, <1>4, <1>5, <1>6

(* posix_spawn() returns.                                                  *)
LEMMA SpawnInv == ASSUME Inv, Spawn PROVE Inv'
<1> USE DEF Inv, Spawn, From, fixed
<1>1. TypeOK'
  BY DEF TypeOK, Pid
<1>2. SignalsEscalate'
  BY DEF SignalsEscalate
<1>3. OtherChildren'
  BY DEF OtherChildren
<1>4. CurrentChild'
  BY DEF TypeOK, CurrentChild, Pid
<1>5. Alarms'
  BY DEF Alarms
<1>6. Progress'
  BY DEF Progress
<1>7. QED
  BY <1>1, <1>2, <1>3, <1>4, <1>5, <1>6

(* fork() creates the child.                                               *)
LEMMA ForkInv == ASSUME Inv, Fork PROVE Inv'
<1> USE DEF Inv, Fork, From, fixed
<1>1. TypeOK'
  BY DEF TypeOK
<1>2. SignalsEscalate'
  BY DEF SignalsEscalate
<1>3. OtherChildren'
  BY DEF OtherChildren
<1>4. CurrentChild'
  BY DEF TypeOK, CurrentChild, Pid
<1>5. Alarms'
  BY DEF Alarms
<1>6. Progress'
  BY DEF Progress
<1>7. QED
  BY <1>1, <1>2, <1>3, <1>4, <1>5, <1>6

(* fork() returns in the tool.                                             *)
LEMMA ForkReturnsInv == ASSUME Inv, ForkReturns PROVE Inv'
<1> USE DEF Inv, ForkReturns, From, fixed
<1>1. TypeOK'
  BY DEF TypeOK
<1>2. SignalsEscalate'
  BY DEF SignalsEscalate
<1>3. OtherChildren'
  BY DEF OtherChildren
<1>4. CurrentChild'
  BY DEF CurrentChild
<1>5. Alarms'
  BY DEF Alarms
<1>6. Progress'
  BY DEF CurrentChild, Progress
<1>7. QED
  BY <1>1, <1>2, <1>3, <1>4, <1>5, <1>6

(* No process could be created.                                            *)
LEMMA StartFailsInv == ASSUME Inv, StartFails PROVE Inv'
<1> USE DEF Inv, StartFails, From, fixed
<1>1. TypeOK'
  BY DEF TypeOK
<1>2. SignalsEscalate'
  BY DEF SignalsEscalate
<1>3. OtherChildren'
  BY DEF OtherChildren
<1>4. CurrentChild'
  BY DEF CurrentChild
<1>5. Alarms'
  BY DEF Alarms
<1>6. Progress'
  BY DEF Progress
<1>7. QED
  BY <1>1, <1>2, <1>3, <1>4, <1>5, <1>6

(* alarm(timeout).                                                         *)
LEMMA SetAlarmInv == ASSUME Inv, SetAlarm PROVE Inv'
<1> USE DEF Inv, SetAlarm, From, fixed
<1>1. TypeOK'
  BY DEF TypeOK
<1>2. SignalsEscalate'
  BY DEF SignalsEscalate
<1>3. OtherChildren'
  BY DEF OtherChildren
<1>4. CurrentChild'
  BY DEF CurrentChild
<1>5. Alarms'
  BY DEF Alarms
<1>6. Progress'
  BY DEF Progress
<1>7. QED
  BY <1>1, <1>2, <1>3, <1>4, <1>5, <1>6

(* alarm_on = 3, before any signal was sent to this child.                 *)
LEMMA SetAlarmOnInv == ASSUME Inv, SetAlarmOn PROVE Inv'
<1> USE DEF Inv, SetAlarmOn, From, fixed
<1>1. TypeOK'
  BY DEF TypeOK
<1>2. SignalsEscalate'
  BY DEF SignalsEscalate
<1>3. OtherChildren'
  BY DEF OtherChildren
<1>4. CurrentChild'
  BY DEF CurrentChild
<1>5. Alarms'
  BY DEF Alarms
<1>6. Progress'
  BY DEF CurrentChild, Progress
<1>7. QED
  BY <1>1, <1>2, <1>3, <1>4, <1>5, <1>6

(* waitpid() returns: the child is a zombie, and is reaped.                *)
LEMMA WaitInv == ASSUME Inv, Wait PROVE Inv'
<1> USE DEF Inv, Wait, From, fixed
<1>1. TypeOK'
  BY DEF TypeOK
<1>2. SignalsEscalate'
  BY DEF SignalsEscalate
<1>3. OtherChildren'
  BY DEF OtherChildren
<1>4. CurrentChild'
  BY DEF TypeOK, CurrentChild, Pid
<1>5. Alarms'
  BY DEF Alarms
<1>6. Progress'
  BY DEF Progress
<1>7. QED
  BY <1>1, <1>2, <1>3, <1>4, <1>5, <1>6

(* alarm_on = 0.                                                           *)
LEMMA ClearAlarmOnInv == ASSUME Inv, ClearAlarmOn PROVE Inv'
<1> USE DEF Inv, ClearAlarmOn, From, fixed
<1>1. TypeOK'
  BY DEF TypeOK
<1>2. SignalsEscalate'
  BY DEF SignalsEscalate
<1>3. OtherChildren'
  BY DEF OtherChildren
<1>4. CurrentChild'
  BY DEF CurrentChild
<1>5. Alarms'
  BY DEF Alarms
<1>6. Progress'
  BY DEF Progress
<1>7. QED
  BY <1>1, <1>2, <1>3, <1>4, <1>5, <1>6

(* alarm(0), and exec_with_timeout() returns.                              *)
LEMMA ReturnInv == ASSUME Inv, Return PROVE Inv'
<1> USE DEF Inv, Return, From, fixed
<1>1. TypeOK'
  BY DEF TypeOK
<1>2. SignalsEscalate'
  BY DEF SignalsEscalate
<1>3. OtherChildren'
  BY DEF OtherChildren
<1>4. CurrentChild'
  BY DEF CurrentChild
<1>5. Alarms'
  BY DEF Alarms
<1>6. Progress'
  BY DEF Progress
<1>7. QED
  BY <1>1, <1>2, <1>3, <1>4, <1>5, <1>6


-----------------------------------------------------------------------------
(* kill() signals nobody but the current child, and between two commands   *)
(* nobody.                                                                 *)
LEMMA KillFacts ==
  ASSUME Inv, pc # "dead", NEW sig \in Signal, kill(sig)
  PROVE  /\ proc' \in [Pid -> {"none", "starting", "running", "killed", "zombie", "reaped"}]
         /\ got' \in [Pid -> Seq(Signal)]
         /\ \A p \in Pid : p # cmds => proc'[p] = proc[p] /\ got'[p] = got[p]
         /\ pc \notin {"alarm", "alarm_on", "waitpid"} =>
              proc' = proc /\ got' = got
<1> USE DEF Inv
<1>1. CASE child_pid # 0 /\ proc[child_pid] \in {"running", "killed", "zombie"}
  <2>1. child_pid = cmds /\ cmds \in Pid /\ pc \in {"alarm", "alarm_on", "waitpid"}
    BY <1>1 DEF TypeOK, OtherChildren, CurrentChild, Pid
  <2>2. Append(got[cmds], sig) \in Seq(Signal)
    BY <2>1 DEF TypeOK
  <2>3. QED
    BY <1>1, <2>1, <2>2 DEF TypeOK, kill
<1>2. CASE ~(child_pid # 0 /\ proc[child_pid] \in {"running", "killed", "zombie"})
  BY <1>2 DEF TypeOK, kill
<1>3. QED
  BY <1>1, <1>2

(* The handler during waitpid(), where it sends the next signal to the     *)
(* current child, and just after, where there is no child left to signal.  *)
LEMMA OnAlarmInv == ASSUME Inv, OnAlarm PROVE Inv'
<1> USE DEF Inv, OnAlarm, fixed
<1> DEFINE sig == IF alarm_on' > 0 THEN "SIGTERM" ELSE "SIGKILL"
<1>1. sig \in Signal /\ kill(sig)
  BY DEF Signal
<1> HIDE DEF sig
<1>2. TypeOK'
  <2>1. alarm_on' \in 0..3 /\ alarm' \in BOOLEAN
    BY DEF TypeOK
  <2>2. QED
    BY <1>1, <2>1, KillFacts, Zenon DEF TypeOK
<1>3. pc \in {"waitpid", "alarm_off"} /\ cmds \in Pid
  BY DEF TypeOK, Alarms, Pid
<1>4. OtherChildren'
  BY <1>1, <1>3, KillFacts DEF OtherChildren, TypeOK, Pid
<1>5. CASE pc = "waitpid"
  <2>1. child_pid = cmds /\ proc[cmds] \in {"starting", "running", "killed", "zombie"}
    BY <1>5 DEF CurrentChild
  <2>2. have_spawn_h => /\ got'[cmds] = Append(got[cmds], sig)
                        /\ proc'[cmds] \in {"running", "killed", "zombie"}
    BY <1>1, <1>3, <1>5, <2>1 DEF kill, TypeOK, CurrentChild, Pid
  <2>3. have_spawn_h => /\ Escalates(got'[cmds]) /\ Len(got'[cmds]) = 3 - alarm_on'
    <3> SUFFICES ASSUME have_spawn_h PROVE Escalates(got'[cmds]) /\ Len(got'[cmds]) = 3 - alarm_on'
      OBVIOUS
    <3>1. /\ got[cmds] \in Seq(Signal) /\ Escalates(got[cmds])
          /\ Len(got[cmds]) = 3 - alarm_on /\ alarm_on \in 1..3
      BY <1>3, <1>5 DEF TypeOK, SignalsEscalate, Progress
    <3>2. sig = IF alarm_on - 1 > 0 THEN "SIGTERM" ELSE "SIGKILL"
      BY <3>1 DEF sig
    <3>3. QED
      BY <2>2, <3>1, <3>2, NextSignal
  <2>4. SignalsEscalate'
    BY <1>1, <1>3, <2>3, KillFacts DEF SignalsEscalate
  <2>5. proc'[cmds] \in {"starting", "running", "killed", "zombie"}
    BY <1>1, <1>3, <2>1 DEF kill, TypeOK
  <2>6. CurrentChild'
    BY <1>5, <2>1, <2>2, <2>5 DEF CurrentChild
  <2>7. Alarms'
    BY <1>5 DEF Alarms
  <2>8. Progress'
    BY <1>5, <2>3 DEF TypeOK, Progress
  <2>9. QED
    BY <1>2, <1>4, <2>4, <2>6, <2>7, <2>8
<1>6. CASE pc = "alarm_off"
  <2>1. proc' = proc /\ got' = got
    BY <1>1, <1>6, KillFacts
  <2>2. SignalsEscalate' /\ CurrentChild' /\ Alarms' /\ Progress'
    BY <1>6, <2>1 DEF SignalsEscalate, CurrentChild, Alarms, Progress
  <2>3. QED
    BY <1>2, <1>4, <2>2
<1>7. QED
  BY <1>3, <1>5, <1>6

(* A signal that ends the tool.                                            *)
LEMMA DieInv ==
  ASSUME Inv, pc # "dead", NEW sig \in {"SIGALRM", "SIGINT"}, Die(sig), alarm' \in BOOLEAN
  PROVE  Inv'
<1> USE DEF Inv, Die, fixed
<1>1. sig \in Signal
  BY DEF Signal
<1>2. TypeOK'
  BY <1>1, KillFacts, Zenon DEF TypeOK
<1>3. OtherChildren'
  BY <1>1, KillFacts DEF OtherChildren, TypeOK, Pid
<1>4. SignalsEscalate' /\ CurrentChild' /\ Alarms' /\ Progress'
  BY DEF SignalsEscalate, CurrentChild, Alarms, Progress
<1>5. QED
  BY <1>2, <1>3, <1>4

(* A child starts or ends, whichever it is.                                *)
LEMMA ChildInv ==
  ASSUME Inv, NEW p \in Pid,
         ChildStarts(p) \/ ChildFails(p) \/ ChildEnds(p) \/ ChildIsKilled(p)
  PROVE  Inv'
<1> USE DEF Inv, fixed, Child, ChildStarts, ChildFails, ChildEnds, ChildIsKilled
<1>1. TypeOK'
  BY DEF TypeOK
<1>2. /\ proc[p] \in {"starting", "running", "killed"}
      /\ proc'[p] \in {"running", "zombie"}
      /\ \A q \in Pid : q # p => proc'[q] = proc[q]
  BY DEF TypeOK
<1>3. SignalsEscalate' /\ Alarms' /\ Progress'
  BY DEF SignalsEscalate, Alarms, Progress
<1>4. OtherChildren'
  BY <1>2 DEF OtherChildren
<1>5. CurrentChild'
  <2>1. CASE p = cmds
    BY <1>2, <2>1 DEF CurrentChild
  <2>2. CASE p # cmds
    <3>1. cmds > 0 => cmds \in Pid /\ proc'[cmds] = proc[cmds]
      BY <1>2, <2>2 DEF TypeOK, Pid
    <3>2. pc \notin {"idle", "dead"} => cmds > 0
      BY DEF TypeOK
    <3>3. QED
      BY <3>1, <3>2 DEF CurrentChild
  <2>3. QED
    BY <2>1, <2>2
<1>6. QED
  BY <1>1, <1>3, <1>4, <1>5

(* Every step keeps the invariant.                                         *)
LEMMA NextInv == Inv /\ [Next]_vars => Inv'
<1> SUFFICES ASSUME Inv, [Next]_vars PROVE Inv'
  OBVIOUS
<1>1. CASE Call
  BY <1>1, CallInv
<1>2. CASE exec_with_timeout
  BY <1>2, SpawnInv, ForkInv, ForkReturnsInv, StartFailsInv, SetAlarmInv, SetAlarmOnInv,
     WaitInv, ClearAlarmOnInv, ReturnInv DEF exec_with_timeout
<1>3. CASE OnAlarm
  BY <1>3, OnAlarmInv
<1>4. CASE OnLateAlarm
  BY <1>4, DieInv DEF OnLateAlarm
<1>5. CASE OnTermination
  <2>1. alarm' \in BOOLEAN
    BY <1>5 DEF OnTermination, Inv, TypeOK
  <2>2. QED
    BY <1>5, <2>1, DieInv DEF OnTermination
<1>6. CASE \E p \in Pid : ChildStarts(p) \/ ChildFails(p) \/ ChildEnds(p) \/ ChildIsKilled(p)
  BY <1>6, ChildInv
<1>7. CASE UNCHANGED vars
  BY <1>7 DEF vars, fixed, Inv, TypeOK, SignalsEscalate, OtherChildren, CurrentChild,
     Alarms, Progress
<1>8. QED
  BY <1>1, <1>2, <1>3, <1>4, <1>5, <1>6, <1>7 DEF Next, sig_handler, Finished

(* The invariant holds in every reachable state.                           *)
THEOREM InvHolds == Spec => []Inv
BY InitInv, NextInv, PTL DEF Spec

(* A child that is reaped, or has not started, gets no signal; the one     *)
(* that runs gets SIGTERM, SIGTERM and SIGKILL in this order, for any      *)
(* number of commands and every interleaving of the alarms with            *)
(* exec_with_timeout().                                                    *)
THEOREM SignalsAreInOrder == Spec => [](TypeOK /\ SignalsEscalate)
<1>1. Inv => TypeOK /\ SignalsEscalate
  BY DEF Inv
<1>2. QED
  BY <1>1, InvHolds, PTL

(* The caller of exec_with_timeout() learns from timed_out, and of this    *)
(* command only, that a command was signalled.                             *)
THEOREM TimeoutsAreReported == Spec => []CallerIsTold
<1>1. Inv => CallerIsTold
  <2> SUFFICES ASSUME Inv PROVE CallerIsTold
    OBVIOUS
  <2> USE DEF Inv
  <2>1. ASSUME have_spawn_h, pc \in {"start", "alarm", "alarm_on"}
        PROVE  timed_out <=> got[cmds] # << >>
    BY <2>1 DEF Progress, CurrentChild
  <2>2. ASSUME have_spawn_h, pc = "waitpid"
        PROVE  timed_out <=> got[cmds] # << >>
    <3>1. cmds \in Pid /\ got[cmds] \in Seq(Signal)
      BY <2>2 DEF TypeOK, Pid
    <3>2. got[cmds] = << >> <=> Len(got[cmds]) = 0
      BY <3>1
    <3>3. QED
      BY <2>2, <3>2 DEF Progress, TypeOK
  <2>3. QED
    BY <2>1, <2>2 DEF CallerIsTold, Progress
<1>2. QED
  BY <1>1, InvHolds, PTL

(* When exec_with_timeout() returns it leaves no alarm and no child.       *)
THEOREM NothingIsLeft == Spec => []NothingPending
<1>1. Inv => NothingPending
  <2> SUFFICES ASSUME Inv, pc = "idle" PROVE NothingPending
    BY DEF NothingPending
  <2> USE DEF Inv
  <2>1. ~alarm /\ alarm_on = 0
    BY DEF Alarms
  <2>2. ASSUME NEW p \in Pid PROVE proc[p] \in {"none", "reaped"}
    <3>1. p \in Nat /\ p > 0 /\ cmds \in Nat
      BY DEF TypeOK, Pid
    <3>2. CASE p = cmds
      BY <3>1, <3>2 DEF CurrentChild
    <3>3. CASE p # cmds
      BY <3>1, <3>3 DEF OtherChildren
    <3>4. QED
      BY <3>2, <3>3
  <2>3. QED
    BY <2>1, <2>2 DEF NothingPending
<1>2. QED
  BY <1>1, InvHolds, PTL

-----------------------------------------------------------------------------
(* The end of the tool: it has a cause, and with posix_spawn() no child is *)
(* seen before it is in its group.                                         *)
Ending ==
  /\ pc # "dead" => cause = "none"
  /\ have_spawn_h => \A p \in Pid : proc[p] # "starting"
  /\ TerminationIsForwarded

(* A signal that ends the tool reaches the child that runs.                *)
LEMMA DieEnding ==
  ASSUME Inv, Ending, pc # "dead", NEW sig \in Signal, Die(sig)
  PROVE  Ending'
<1> USE DEF Inv, Die, fixed
<1>1. pc' = "dead" /\ have_spawn_h' = have_spawn_h /\ cause' = sig
  OBVIOUS
<1>2. /\ proc' \in [Pid -> {"none", "starting", "running", "killed", "zombie", "reaped"}]
      /\ \A p \in Pid : p # cmds => proc'[p] = proc[p] /\ got'[p] = got[p]
      /\ pc \notin {"alarm", "alarm_on", "waitpid"} => proc' = proc /\ got' = got
  BY KillFacts
<1>3. ASSUME have_spawn_h, NEW p \in Pid PROVE proc'[p] # "starting"
  <2>1. proc[p] # "starting"
    BY <1>3 DEF Ending
  <2>2. QED
    BY <2>1, <1>2 DEF kill, TypeOK
<1>4. ASSUME have_spawn_h, NEW p \in Pid, proc'[p] = "running"
      PROVE  got'[p] # << >>
  <2>1. p \in Nat /\ cmds \in Nat /\ p > 0
    BY DEF TypeOK, Pid
  <2>2. p = cmds
    BY <1>2, <1>4, <2>1 DEF OtherChildren
  <2>3. pc \in {"alarm", "alarm_on", "waitpid"}
    BY <1>2, <1>4, <2>1, <2>2 DEF CurrentChild, TypeOK
  <2>4. child_pid = cmds /\ proc[cmds] \in {"running", "killed", "zombie"}
    BY <1>4, <2>3 DEF CurrentChild
  <2>5. got' = [got EXCEPT ![cmds] = Append(@, sig)]
    BY <2>1, <2>2, <2>4 DEF kill
  <2>6. got[cmds] \in Seq(Signal) /\ got'[cmds] = Append(got[cmds], sig)
    BY <2>2, <2>5 DEF TypeOK
  <2>7. QED
    BY <2>2, <2>6
<1>5. TerminationIsForwarded'
  BY <1>1, <1>3, <1>4 DEF TerminationIsForwarded
<1>6. QED
  BY <1>1, <1>3, <1>5 DEF Ending

(* Every step keeps it: after the end of the tool only children move, and  *)
(* they only end.                                                          *)
LEMMA NextEnding == Inv /\ Ending /\ [Next]_vars => Ending'
<1> SUFFICES ASSUME Inv, Ending, [Next]_vars PROVE Ending'
  OBVIOUS
<1> USE DEF Ending, TerminationIsForwarded
<1>1. CASE Call
  BY <1>1 DEF Call, From, fixed
<1>2. CASE exec_with_timeout
  <2>1. CASE Spawn \/ Wait
    BY <1>2, <2>1 DEF Inv, TypeOK, Spawn, Wait, From, fixed
  <2>2. CASE Fork
    BY <1>2, <2>2 DEF Fork, From, fixed
  <2>3. CASE StartFails
    BY <1>2, <2>3 DEF StartFails, fixed
  <2>4. CASE ForkReturns \/ SetAlarm \/ SetAlarmOn \/ ClearAlarmOn \/ Return
    BY <1>2, <2>4 DEF ForkReturns, SetAlarm, SetAlarmOn, ClearAlarmOn, Return, From, fixed
  <2>5. QED
    BY <1>2, <2>1, <2>2, <2>3, <2>4 DEF exec_with_timeout
<1>3. CASE OnAlarm
  <2>1. cause = "none" /\ cause' = cause /\ have_spawn_h' = have_spawn_h
    BY <1>3 DEF OnAlarm, fixed
  <2>2. ASSUME have_spawn_h, NEW p \in Pid PROVE proc'[p] # "starting"
    BY <1>3, <2>2 DEF OnAlarm, kill, Inv, TypeOK
  <2>3. QED
    BY <2>1, <2>2
<1>4. CASE OnLateAlarm \/ OnTermination
  BY <1>4, DieEnding DEF OnLateAlarm, OnTermination, Signal
<1>5. ASSUME NEW p \in Pid,
             ChildStarts(p) \/ ChildFails(p) \/ ChildEnds(p) \/ ChildIsKilled(p)
      PROVE  Ending'
  <2> USE DEF Child, ChildStarts, ChildFails, ChildEnds, ChildIsKilled
  <2>1. /\ UNCHANGED <<have_spawn_h, pc, got, cause>>
        /\ have_spawn_h => proc'[p] = "zombie"
        /\ \A q \in Pid : q # p => proc'[q] = proc[q]
    BY <1>5 DEF Inv, TypeOK, fixed
  <2>2. QED
    BY <2>1
<1>6. CASE UNCHANGED vars
  BY <1>6 DEF vars, fixed
<1>7. QED
  BY <1>1, <1>2, <1>3, <1>4, <1>5, <1>6 DEF Next, sig_handler, Finished

(* A termination signal that ends the tool, at whatever statement, has     *)
(* been forwarded to the child that runs, which is in a group of its own.  *)
THEOREM ChildrenAreTold == Spec => []TerminationIsForwarded
<1>1. Init => Ending
  BY DEF Init, Ending, TerminationIsForwarded
<1>2. Ending => TerminationIsForwarded
  BY DEF Ending
<1>3. QED
  BY <1>1, <1>2, InvHolds, NextEnding, PTL DEF Spec
=============================================================================
