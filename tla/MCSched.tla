------------------------------- MODULE MCSched ------------------------------
(***************************************************************************)
(* Instances of Sched.  OneSpec has a single workload, the one of the      *)
(* configuration.  TasksSpec has two.  "exit": user threads are suspended, *)
(* resumed and end, and others wait for their term event.  "kill": kernel  *)
(* threads share an auto-reset event, and one is killed from either CPU.   *)
(***************************************************************************)
EXTENDS Sched

CONSTANTS c1, c2, t1, t2, t3, t4, m, e

VARIABLE part

FirstAlone == [t \in Task |-> IF t = t1 THEN c1 ELSE c2]

MCAuto == [s \in Sem |-> IF s = m THEN "sem" ELSE "auto"]

MCManual == [s \in Sem |-> IF s = m THEN "sem" ELSE "manual"]

MCOne == [s \in Sem |-> 1]

NoTerm == [t \in Task |-> NoSem]

JoinLast == [t \in Task |-> IF t = t3 THEN e ELSE NoSem]

OneInit == part = "one" /\ Init
OneNext == Next /\ UNCHANGED part
OneSpec == OneInit /\ [][OneNext]_<<vars, part>>

NoUser == {}
Victims == {t3}
Everyone == {t1, t2, t3}

Kill == INSTANCE Sched WITH
            Kind <- MCAuto, UserTask <- NoUser, HeldTask <- NoUser, Killable <- Victims,
            Boot <- Everyone, TermEvent <- NoTerm

TasksInit ==
    /\ part \in {"exit", "kill"}
    /\ IF part = "exit" THEN Init ELSE Kill!Init

TasksNext ==
    /\ UNCHANGED part
    /\ \/ part = "exit" /\ Next
       \/ part = "kill" /\ Kill!Next

TasksSpec == TasksInit /\ [][TasksNext]_<<vars, part>>

----------------------------------------------------------------------------
(* Properties *)

(* A resume_process is never lost against the suspension it answers, a     *)
(* signalled manual-reset event leaves no waiter behind, and a join        *)
(* returns only when the joined task was reaped.                           *)
WakeUpsKept == part = "exit" => /\ ResumeNotLost
                                /\ SignalLeavesNoWaiter
                                /\ JoinAfterReap

(* Though tasks are killed from another CPU at any point, a waiting task   *)
(* is blocked on the object it waits for, a timer belongs to a wait in     *)
(* progress, and a CPU turns its timer off only when it has nothing to do  *)
(* (sched/scheduler.rs, sync/semaphore.rs).                                *)
WaitsSurviveKills == part = "kill" => /\ Kill!BlockedWait
                                      /\ Kill!TimersCurrent
                                      /\ Kill!SleepsOnlyWhenIdle
=============================================================================
