----------------------------- MODULE ProcessGroup -----------------------------
(***************************************************************************)
(* How the local worker of atlas_work_items.py proves that the process     *)
(* group of a child is gone: _finish_started_process waits for the leader, *)
(* _stop_process_group reads /proc, or signals the group and probes it.    *)
(* The leader and its kin fork, exit and are killed meanwhile.             *)
(*                                                                         *)
(* The group id is the leader's pid: it cannot name another group before   *)
(* the leader is reaped and the last member is gone.  Kin that moves to a  *)
(* session of its own is out of the group's reach and out of this module.  *)
(***************************************************************************)
EXTENDS FiniteSets

CONSTANT Kin  \* processes the leader and its descendants may fork

VARIABLES
  leader, \* the direct child: alive, zombie or reaped, and whether SIGKILL reached it
  kin,    \* each member besides the leader
  boss,   \* the worker's place in its calls, and what it has seen
  late,   \* history: the kin forked since /proc was listed
  stray,  \* history: a signal was sent to an id that was no longer the group's
  kept    \* the exit status of the leader waits for the worker (SIGCHLD is not ignored)

groupVars == <<leader, kin, boss, late, stray, kept>>

NoBoss == [pc |-> "poll", exited |-> FALSE, interrupted |-> FALSE, todo |-> {}, unread |-> FALSE, how |-> "none"]

GroupInit ==
  /\ leader = [state |-> "alive", dying |-> FALSE]
  /\ kin = [k \in Kin |-> "unborn"]
  /\ boss = NoBoss
  /\ late = {}
  /\ stray = FALSE
  /\ kept \in BOOLEAN

Living == {k \in Kin : kin[k] \in {"alive", "dying"}}
Reaped == leader.state = "reaped"
-----------------------------------------------------------------------------
(* The processes of the group.                                              *)

CanFork == (leader.state = "alive" /\ ~leader.dying) \/ \E k \in Kin : kin[k] = "alive"

Fork(k) ==
  /\ kin[k] = "unborn" /\ CanFork
  /\ kin' = [kin EXCEPT ![k] = "alive"]
  /\ late' = late \cup {k}
  /\ UNCHANGED <<leader, boss, stray, kept>>

ExitKin(k) ==
  /\ k \in Living
  /\ kin' = [kin EXCEPT ![k] = "gone"]
  /\ UNCHANGED <<leader, boss, late, stray, kept>>

ExitLeader ==
  /\ leader.state = "alive"
  /\ leader' = [leader EXCEPT !.state = IF kept THEN "zombie" ELSE "reaped"]
  /\ UNCHANGED <<kin, boss, late, stray, kept>>

Group == ExitLeader \/ \E k \in Kin : Fork(k) \/ ExitKin(k)
-----------------------------------------------------------------------------
(* The worker.                                                              *)

At(pc) == boss.pc = pc
Go(pc) == boss' = [boss EXCEPT !.pc = pc]
End(how) == boss' = [boss EXCEPT !.pc = "done", !.how = how]

\* Mutant of Held: the pid alone is trusted.
HeldAlways == TRUE

\* _holds_unreaped_child: the leader can still be waited for.
Held == ~Reaped

\* _process_group_exists; an id that is free again may be another group's by then.
Exists == ~Reaped \/ Living # {}

\* killpg: SIGTERM asks (members may exit at any time anyway), SIGKILL ends all of them.
Strays == stray' = (stray \/ ~Exists)
Kill == /\ Strays
        /\ leader' = [leader EXCEPT !.dying = TRUE]
        /\ kin' = [k \in Kin |-> IF kin[k] = "alive" THEN "dying" ELSE kin[k]]

\* The leader is seen to have exited; or the time is up or the work cancelled; or
\* there is no such child to wait for.
Poll ==
  /\ At("poll")
  /\ \/ leader.state = "zombie" /\ boss' = [boss EXCEPT !.pc = "check", !.exited = TRUE]
     \/ Go("check")
     \/ Reaped /\ End("custody_lost")
  /\ UNCHANGED <<leader, kin, late, stray, kept>>

Check ==
  /\ At("check")
  /\ IF Held THEN Go("list") ELSE End("custody_lost")
  /\ UNCHANGED <<leader, kin, late, stray, kept>>

\* _process_group_has_descendants: the pids are listed (or there is no /proc) ...
List ==
  /\ At("list")
  /\ \/ boss' = [boss EXCEPT !.pc = "scan", !.todo = Living, !.unread = FALSE]
     \/ boss' = [boss EXCEPT !.pc = "scan", !.todo = {}, !.unread = TRUE]
  /\ late' = {}
  /\ UNCHANGED <<leader, kin, stray, kept>>

\* Mutant of ReadStat: a stat file that cannot be read counts for nothing.
ReadStatLenient(k) ==
  /\ At("scan") /\ k \in boss.todo
  /\ \/ k \in Living /\ Go("probe")
     \/ boss' = [boss EXCEPT !.todo = @ \ {k}]
  /\ UNCHANGED <<leader, kin, late, stray, kept>>

\* ... and one stat file after the other is read: of a member, unreadable, or gone.
ReadStat(k) ==
  /\ At("scan") /\ k \in boss.todo
  /\ \/ k \in Living /\ Go("probe")
     \/ k \in Living /\ boss' = [boss EXCEPT !.todo = @ \ {k}, !.unread = TRUE]
     \/ k \notin Living /\ boss' = [boss EXCEPT !.todo = @ \ {k}]
  /\ UNCHANGED <<leader, kin, late, stray, kept>>

\* Nobody was found, by an exited leader: it is reaped, and the group called gone.
EndScan ==
  /\ At("scan") /\ boss.todo = {}
  /\ IF boss.exited /\ ~boss.unread
     THEN End("observed") /\ leader' = [leader EXCEPT !.state = "reaped"]
     ELSE Go("probe") /\ UNCHANGED leader
  /\ UNCHANGED <<kin, late, stray, kept>>

\* If the group is still there the next signal is due.
ProbeGroup(pc, signal) ==
  /\ At(pc)
  /\ \/ Go(signal)
     \/ ~Exists /\ Go("wait")
  /\ UNCHANGED <<leader, kin, late, stray, kept>>

\* Custody is checked before each signal; SIGTERM, and after a grace SIGKILL.
Custody(pc, next) ==
  /\ At(pc)
  /\ IF Held THEN Go(next) ELSE End("custody_lost")
  /\ UNCHANGED <<leader, kin, late, stray, kept>>

SendTerm == At("send_term") /\ Strays /\ Go("grace") /\ UNCHANGED <<leader, kin, late, kept>>

SendKill(pc, next) == At(pc) /\ Kill /\ Go(next) /\ UNCHANGED <<late, kept>>

\* proc.wait with a timeout.
Wait(pc, next, timeout) ==
  /\ At(pc) /\ UNCHANGED <<kin, late, stray, kept>>
  /\ \/ leader.state # "alive" /\ leader' = [leader EXCEPT !.state = "reaped"] /\ next
     \/ leader.state = "alive" /\ UNCHANGED leader /\ timeout

\* The group is probed until it is gone or the grace is over.
LastProbe ==
  /\ At("last")
  /\ \/ ~Exists /\ End("absent")
     \/ End("present")
  /\ UNCHANGED <<leader, kin, late, stray, kept>>

\* An exception anywhere in between: one SIGKILL, if the leader is still ours.
\* Cleaning up, it is caught and the outcome stays as it was.
Interrupt ==
  /\ boss.pc \notin {"done", "emergency", "emergency_kill", "emergency_wait"}
  /\ boss' = [boss EXCEPT !.pc = IF boss.how = "none" THEN "emergency" ELSE "done", !.interrupted = TRUE]
  /\ UNCHANGED <<leader, kin, late, stray, kept>>

\* What run() does about a leader that is not reaped when all of this has failed.
CleanUp ==
  /\ At("done") /\ boss.how \in {"unknown", "present"} /\ Held
  /\ boss' = [boss EXCEPT !.pc = "check", !.exited = FALSE, !.interrupted = TRUE]
  /\ UNCHANGED <<leader, kin, late, stray, kept>>

Worker ==
  \/ Poll \/ Check \/ List \/ EndScan \/ SendTerm \/ LastProbe \/ Interrupt \/ CleanUp
  \/ \E k \in Kin : ReadStat(k)
  \/ ProbeGroup("probe", "term") \/ ProbeGroup("grace", "kill")
  \/ Custody("term", "send_term") \/ Custody("kill", "send_kill") \/ SendKill("send_kill", "wait")
  \/ Wait("wait", Go("last"), Go("kill_again"))
  \/ Custody("kill_again", "send_kill_again") \/ SendKill("send_kill_again", "wait_again")
  \/ Wait("wait_again", Go("last"), End("present"))
  \/ Custody("emergency", "emergency_kill") \/ SendKill("emergency_kill", "emergency_wait")
  \/ Wait("emergency_wait", \/ ~Exists' /\ End("absent")
                            \/ End("unknown"), End("unknown"))

GroupNext == Group \/ Worker
-----------------------------------------------------------------------------
\* A group whose end counts as proved has been reaped and has no member left; if
\* only /proc was looked at, none but kin forked while it was being read, which
\* neither the listing nor the stat files read afterwards show
\* (_process_group_has_descendants, _process_group_exists).  And no signal ever goes
\* to a group id that may name other processes by now, as long as nobody but the
\* worker reaps the leader, whatever interrupts the worker ("Stop only the process
\* group created and held by this invocation").
OnlyItsGroupIsGone ==
  /\ kept => ~stray
  /\ boss.how \in {"absent", "observed"} => Reaped
  /\ boss.how = "absent" => Living = {}
  /\ boss.how = "observed" => Living \subseteq late

GroupSpec == GroupInit /\ [][GroupNext]_groupVars
=============================================================================
