---------------------------- MODULE ExecTimeout ----------------------------
(***************************************************************************)
(* exec_with_timeout() and sig_handler() of bin/common_trans.cc: how       *)
(* ltlcross, autcross and ltldo run a command in a process group of its    *)
(* own, wait for it, and signal it when it takes too long.  The handler    *)
(* interrupts the tool between any two of its statements, while the child  *)
(* runs and ends as it likes.                                              *)
(*                                                                         *)
(* Time is abstract: a pending alarm may ring at any moment.  The child of *)
(* the k-th command has process number k, and no number is used twice.     *)
(***************************************************************************)
EXTENDS Integers, Sequences

CONSTANT MaxCmds      \* bound on the commands run

ASSUME ExecAssumption == MaxCmds \in Nat \ {0}

Pid == 1..MaxCmds

VARIABLES
  have_spawn_h,   \* posix_spawn() is used, instead of fork() and exec()
  timeout,        \* option --timeout is given
  pc,             \* the statement the tool executes next
  cmds,           \* the commands started so far
  child_pid,      \* 0 stands for the initial -1
  proc,           \* the state of each child
  alarm,          \* an alarm is pending
  alarm_on,       \* the signals the handler may still send
  timed_out,      \* what the callers test
  got,            \* the signals each child got
  cause           \* why the tool ended

fixed == <<have_spawn_h, timeout>>

vars == <<fixed, pc, cmds, child_pid, proc, alarm, alarm_on, timed_out, got, cause>>

Init ==
  /\ have_spawn_h \in BOOLEAN /\ timeout \in BOOLEAN
  /\ pc = "idle" /\ cmds = 0 /\ child_pid = 0
  /\ proc = [p \in Pid |-> "none"] /\ got = [p \in Pid |-> << >>]
  /\ alarm = FALSE /\ alarm_on = 0 /\ timed_out = FALSE
  /\ cause = "none"

-----------------------------------------------------------------------------
(* exec_with_timeout()                                                     *)

(* The tool goes from one statement to the next one.                       *)
From(a, b) == pc = a /\ pc' = b /\ UNCHANGED <<fixed, cause>>

(* Mutant: timed_out is not reset.                                         *)
Call_StaleTimedOut ==
  /\ From("idle", "start") /\ cmds < MaxCmds
  /\ cmds' = cmds + 1
  /\ UNCHANGED <<child_pid, proc, alarm, alarm_on, timed_out, got>>

Call ==
  /\ From("idle", "start") /\ cmds < MaxCmds
  /\ cmds' = cmds + 1 /\ timed_out' = FALSE
  /\ UNCHANGED <<child_pid, proc, alarm, alarm_on, got>>

(* Mutant: the number of the child is stored elsewhere.                    *)
Spawn_Elsewhere ==
  /\ have_spawn_h /\ From("start", "alarm")
  /\ proc' = [proc EXCEPT ![cmds] = "running"]
  /\ UNCHANGED <<cmds, child_pid, alarm, alarm_on, timed_out, got>>

(* posix_spawn() puts the child in its group, and only then the tool gets  *)
(* signals again and knows its number.                                     *)
Spawn ==
  /\ have_spawn_h /\ From("start", "alarm")
  /\ child_pid' = cmds /\ proc' = [proc EXCEPT ![cmds] = "running"]
  /\ UNCHANGED <<cmds, alarm, alarm_on, timed_out, got>>

(* fork() returns in the tool before its result is stored, and before the  *)
(* child calls setpgid() and exec().                                       *)
Fork ==
  /\ ~have_spawn_h /\ From("start", "forked")
  /\ proc' = [proc EXCEPT ![cmds] = "starting"]
  /\ UNCHANGED <<cmds, child_pid, alarm, alarm_on, timed_out, got>>

ForkReturns ==
  /\ From("forked", "alarm")
  /\ child_pid' = cmds
  /\ UNCHANGED <<cmds, proc, alarm, alarm_on, timed_out, got>>

(* No process could be created: error(2, ...).                             *)
StartFails ==
  /\ pc = "start" /\ pc' = "dead" /\ cause' = "error"
  /\ child_pid' = IF have_spawn_h THEN child_pid ELSE 0
  /\ UNCHANGED <<fixed, cmds, proc, alarm, alarm_on, timed_out, got>>

SetAlarm ==
  /\ From("alarm", "alarm_on")
  /\ alarm' = timeout
  /\ UNCHANGED <<cmds, child_pid, proc, alarm_on, timed_out, got>>

SetAlarmOn ==
  /\ From("alarm_on", "waitpid")
  /\ alarm_on' = 3
  /\ UNCHANGED <<cmds, child_pid, proc, alarm, timed_out, got>>

Wait ==
  /\ From("waitpid", "alarm_off") /\ proc[cmds] = "zombie"
  /\ proc' = [proc EXCEPT ![cmds] = "reaped"]
  /\ UNCHANGED <<cmds, child_pid, alarm, alarm_on, timed_out, got>>

ClearAlarmOn ==
  /\ From("alarm_off", "alarm_0")
  /\ alarm_on' = 0
  /\ UNCHANGED <<cmds, child_pid, proc, alarm, timed_out, got>>

(* Mutant: the alarm is left as it is.                                     *)
Return_KeepsAlarm ==
  /\ From("alarm_0", "idle")
  /\ UNCHANGED <<cmds, child_pid, proc, alarm, alarm_on, timed_out, got>>

(* alarm(0), and the status is returned.                                   *)
Return ==
  /\ From("alarm_0", "idle")
  /\ alarm' = FALSE
  /\ UNCHANGED <<cmds, child_pid, proc, alarm_on, timed_out, got>>

-----------------------------------------------------------------------------
(* sig_handler()                                                           *)

(* kill(-child_pid, sig): nothing happens when there is no such group.     *)
kill(sig) ==
  IF child_pid # 0 /\ proc[child_pid] \in {"running", "killed", "zombie"}
  THEN /\ got' = [got EXCEPT ![child_pid] = Append(@, sig)]
       /\ proc' = IF sig = "SIGKILL" /\ proc[child_pid] = "running"
                  THEN [proc EXCEPT ![child_pid] = "killed"] ELSE proc
  ELSE UNCHANGED <<got, proc>>

(* Mutants: the alarm is not set again; SIGKILL comes first.               *)
OnAlarm_Once ==
  /\ alarm /\ pc # "dead" /\ alarm_on > 0
  /\ timed_out' = TRUE /\ alarm_on' = alarm_on - 1
  /\ kill(IF alarm_on' > 0 THEN "SIGTERM" ELSE "SIGKILL")
  /\ alarm' = FALSE
  /\ UNCHANGED <<fixed, pc, cmds, child_pid, cause>>

OnAlarm_KillFirst ==
  /\ alarm /\ pc # "dead" /\ alarm_on > 0
  /\ timed_out' = TRUE /\ alarm_on' = alarm_on - 1
  /\ kill(IF alarm_on' = 0 THEN "SIGTERM" ELSE "SIGKILL")
  /\ alarm' = (alarm_on' > 0)
  /\ UNCHANGED <<fixed, pc, cmds, child_pid, cause>>

(* SIGALRM while alarm_on is set.                                          *)
OnAlarm ==
  /\ alarm /\ pc # "dead" /\ alarm_on > 0
  /\ timed_out' = TRUE /\ alarm_on' = alarm_on - 1
  /\ kill(IF alarm_on' > 0 THEN "SIGTERM" ELSE "SIGKILL")
  /\ alarm' = (alarm_on' > 0)
  /\ UNCHANGED <<fixed, pc, cmds, child_pid, cause>>

(* Any other signal is forwarded, and ends the tool.                       *)
Die(sig) ==
  /\ kill(sig) /\ pc' = "dead" /\ cause' = sig
  /\ UNCHANGED <<fixed, cmds, child_pid, alarm_on, timed_out>>

OnLateAlarm == alarm /\ pc # "dead" /\ alarm_on = 0 /\ alarm' = FALSE /\ Die("SIGALRM")

(* Somebody sends SIGHUP, SIGINT, SIGQUIT or SIGTERM to the tool.          *)
OnTermination == pc # "dead" /\ Die("SIGINT") /\ UNCHANGED alarm

-----------------------------------------------------------------------------
(* The children                                                            *)

Child(p, a, b) ==
  /\ proc[p] \in a /\ proc' = [proc EXCEPT ![p] = b]
  /\ UNCHANGED <<fixed, pc, cmds, child_pid, alarm, alarm_on, timed_out, got, cause>>

(* setpgid(0, 0) and exec_command().                                       *)
ChildStarts(p) == Child(p, {"starting"}, "running")

(* exec_command() failed, or the child, whose child_pid is 0, was in the   *)
(* handler.                                                                *)
ChildFails(p) == Child(p, {"starting"}, "zombie")

(* It ends by itself, or because it does not ignore SIGTERM.               *)
ChildEnds(p) == Child(p, {"running"}, "zombie")

(* Nothing ignores SIGKILL.                                                *)
ChildIsKilled(p) == Child(p, {"killed"}, "zombie")

-----------------------------------------------------------------------------
exec_with_timeout ==
  \/ Spawn \/ Fork \/ ForkReturns \/ StartFails
  \/ SetAlarm \/ SetAlarmOn \/ Wait \/ ClearAlarmOn \/ Return

sig_handler == OnAlarm \/ OnLateAlarm \/ OnTermination

(* The tool has ended, or has no more command to run.                      *)
Finished ==
  /\ pc = "dead" \/ (pc = "idle" /\ cmds = MaxCmds)
  /\ UNCHANGED vars

Next ==
  \/ Call
  \/ exec_with_timeout
  \/ sig_handler
  \/ \E p \in Pid : \/ ChildStarts(p) \/ ChildFails(p)
                    \/ ChildEnds(p) \/ ChildIsKilled(p)
  \/ Finished

Spec == Init /\ [][Next]_vars

(* The tool executes its statements, alarms ring and SIGKILL works.        *)
(* Children need not end by themselves.                                    *)
FairSpec ==
  /\ Spec
  /\ WF_vars(exec_with_timeout) /\ WF_vars(OnAlarm \/ OnLateAlarm)
  /\ \A p \in Pid : WF_vars(ChildIsKilled(p))

-----------------------------------------------------------------------------
Signal == {"SIGTERM", "SIGKILL", "SIGALRM", "SIGINT"}

(* The type of the state of the tool, its children and its alarm.          *)
TypeOK ==
  /\ have_spawn_h \in BOOLEAN /\ timeout \in BOOLEAN
  /\ pc \in {"idle", "start", "forked", "alarm", "alarm_on", "waitpid",
             "alarm_off", "alarm_0", "dead"}
  /\ cmds \in 0..MaxCmds /\ child_pid \in 0..cmds
  /\ pc \notin {"idle", "dead"} => cmds > 0
  /\ proc \in [Pid -> {"none", "starting", "running", "killed", "zombie", "reaped"}]
  /\ got \in [Pid -> Seq(Signal)]
  /\ alarm \in BOOLEAN /\ alarm_on \in 0..3 /\ timed_out \in BOOLEAN
  /\ cause \in {"none", "error"} \cup Signal

(* A prefix of SIGTERM, SIGTERM, SIGKILL.                                  *)
Escalates(s) ==
  /\ Len(s) <= 3
  /\ \A i \in 1..Len(s) : s[i] = IF i = 3 THEN "SIGKILL" ELSE "SIGTERM"

(* "Upon SIGALRM, the child will receive up to 3 signals: SIGTERM,         *)
(* SIGTERM, SIGKILL", in this order, however the alarms and the end of the *)
(* child interleave, and a child of an earlier command gets no signal of a *)
(* later one.                                                              *)
SignalsEscalate ==
  have_spawn_h /\ pc # "dead" => \A p \in Pid : Escalates(got[p])

(* Until the child is reaped, timed_out says exactly whether it has been   *)
(* signalled, whatever happened to the commands before it, and a command   *)
(* that was signalled because it took too long is reported to the caller   *)
(* as a timeout, never as one terminated by a signal.                      *)
CallerIsTold ==
  /\ have_spawn_h /\ pc \in {"start", "alarm", "alarm_on", "waitpid"} =>
       (timed_out <=> got[cmds] # << >>)
  /\ pc = "idle" /\ cmds > 0 => (got[cmds] # << >> => timed_out)

(* Between two commands no alarm is pending and no child of ours is left.  *)
NothingPending ==
  pc = "idle" => /\ ~alarm /\ alarm_on = 0
                 /\ \A p \in Pid : proc[p] \in {"none", "reaped"}

(* With --timeout the tool does not wait forever for a command, even for   *)
(* one that ignores SIGTERM.                                               *)
EveryCommandEnds ==
  (have_spawn_h /\ timeout /\ pc = "waitpid") ~> pc # "waitpid"

(* "Catch termination signals, so we can kill the subprocess": when such a *)
(* signal ends the tool, at whatever statement, the child it has started   *)
(* has got it too, and is not left behind.                                 *)
TerminationIsForwarded ==
  have_spawn_h /\ cause = "SIGINT" =>
    \A p \in Pid : proc[p] \in {"starting", "running"} => got[p] # << >>
=============================================================================
