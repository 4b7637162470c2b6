----------------------------- MODULE ThreadPool -----------------------------
(***************************************************************************)
(* The worker pool of magiskd (native/src/core/thread.rs).                 *)
(*                                                                         *)
(* One mutex (PoolInfo) guards a single task slot and two counters; two    *)
(* condition variables announce that the slot was filled or emptied.  One  *)
(* thread submits: the daemon's accept loop (daemon.rs) or the companion   *)
(* loop (zygisk/mod.rs).  Each critical section is one action.  A wait     *)
(* releases the mutex, so a waiter passes through "wait" and, once it was  *)
(* notified, woke spuriously or timed out, through "woken" or "expired"    *)
(* before it owns the mutex again: the window in which others may act.     *)
(***************************************************************************)
EXTENDS Naturals, FiniteSets

CONSTANTS
    Threads,          \* identities for pool threads
    CorePoolSize,     \* CORE_POOL_SIZE
    MaxTasks,         \* bound: tasks submitted in a behaviour
    MaxFailures       \* bound: failed pthread_create calls

ASSUME PoolAssumption ==
    /\ IsFiniteSet(Threads)
    /\ CorePoolSize \in Nat \ {0}
    /\ MaxTasks \in Nat
    /\ MaxFailures \in Nat

VARIABLES
    task,      \* PoolInfo.task: 0 for None, else the number of the closure
    idle,      \* PoolInfo.idle_threads
    total,     \* PoolInfo.total_threads
    pc,        \* where each thread is
    core,      \* the thread's is_core_pool argument
    cur,       \* the closure a thread runs, 0 for none
    main,      \* where the submitting thread is
    submitted, \* closures handed to exec_task so far
    done,      \* closures that returned
    failed     \* threads counted in total that were never created

vars == <<task, idle, total, pc, core, cur, main, submitted, done, failed>>

Locations == {"none", "loop", "wait", "woken", "expired", "run"}
Idle(t)   == pc[t] \in {"wait", "woken", "expired"}
Alive     == {t \in Threads : pc[t] # "none"}
IdleSet   == {t \in Threads : Idle(t)}
CoreAlive == {t \in Threads : pc[t] # "none" /\ core[t]}

TypeOK ==
    /\ task \in 0..MaxTasks
    /\ idle \in Nat
    /\ total \in Nat
    /\ pc \in [Threads -> Locations]
    /\ core \in [Threads -> BOOLEAN]
    /\ cur \in [Threads -> 0..MaxTasks]
    /\ main \in {"ready", "waiting", "woken"}
    /\ submitted \in 0..MaxTasks
    /\ done \subseteq 1..MaxTasks
    /\ failed \in 0..MaxFailures

Init ==
    /\ task = 0
    /\ idle = 0
    /\ total = 0
    /\ pc = [t \in Threads |-> "none"]
    /\ core = [t \in Threads |-> FALSE]
    /\ cur = [t \in Threads |-> 0]
    /\ main = "ready"
    /\ submitted = 0
    /\ done = {}
    /\ failed = 0

-----------------------------------------------------------------------------
(* exec_task_impl, run by the submitting thread *)

\* The caller holds the mutex and finds the slot full: wait for task_is_none.
WaitTaskIsNone ==
    /\ main \in {"ready", "woken"}
    /\ submitted < MaxTasks
    /\ task # 0
    /\ main' = "waiting"
    /\ UNCHANGED <<task, idle, total, pc, core, cur, submitted, done, failed>>

\* The slot is empty: the closure goes into it.
FillSlot ==
    /\ main \in {"ready", "woken"}
    /\ submitted < MaxTasks
    /\ task = 0
    /\ submitted' = submitted + 1
    /\ task' = submitted + 1
    /\ main' = "ready"

IsCoreThread(n) == n <= CorePoolSize

\* No idle thread: count a new one and create it with its is_core_pool flag.
SubmitSpawn(t) ==
    /\ FillSlot
    /\ idle = 0
    /\ pc[t] = "none"
    /\ total' = total + 1
    /\ pc' = [pc EXCEPT ![t] = "loop"]
    /\ core' = [core EXCEPT ![t] = IsCoreThread(total + 1)]
    /\ UNCHANGED <<idle, cur, done, failed>>

\* The same, but pthread_create fails: new_daemon_thread reports it and the
\* pool ignores the result.
SubmitSpawnFails ==
    /\ FillSlot
    /\ idle = 0
    /\ failed < MaxFailures
    /\ total' = total + 1
    /\ failed' = failed + 1
    /\ UNCHANGED <<idle, pc, core, cur, done>>

\* Mutant: the slot is filled and no waiter is notified.
SubmitNoNotify(t) ==
    /\ FillSlot
    /\ idle > 0
    /\ pc[t] = "wait"
    /\ UNCHANGED <<idle, total, pc, core, cur, done, failed>>

\* Some thread is counted idle: task_is_some.notify_one() wakes one waiter.
SubmitNotify(t) ==
    /\ FillSlot
    /\ idle > 0
    /\ pc[t] = "wait"
    /\ pc' = [pc EXCEPT ![t] = "woken"]
    /\ UNCHANGED <<idle, total, core, cur, done, failed>>

\* The idle threads have all stopped waiting already: the notification is lost.
SubmitNotifyLost ==
    /\ FillSlot
    /\ idle > 0
    /\ \A t \in Threads : pc[t] # "wait"
    /\ UNCHANGED <<idle, total, pc, core, cur, done, failed>>

\* A condition variable may wake its waiter for no reason.
MainSpuriousWake ==
    /\ main = "waiting"
    /\ main' = "woken"
    /\ UNCHANGED <<task, idle, total, pc, core, cur, submitted, done, failed>>

-----------------------------------------------------------------------------
(* pool_loop, run by a pool thread *)

\* task_is_none.notify_one()
NotifyMain == main' = IF main = "waiting" THEN "woken" ELSE main

\* Mutant: the closure is read but left in the slot.
PeekTask(t) ==
    /\ cur' = [cur EXCEPT ![t] = task]
    /\ pc' = [pc EXCEPT ![t] = IF task = 0 THEN "loop" ELSE "run"]
    /\ UNCHANGED task
    /\ NotifyMain

\* info.task.take() into thread t, and the closure runs after the unlock.
TakeTask(t) ==
    /\ cur' = [cur EXCEPT ![t] = task]
    /\ pc' = [pc EXCEPT ![t] = IF task = 0 THEN "loop" ELSE "run"]
    /\ task' = 0
    /\ NotifyMain

\* Mutant: the thread waits without looking at the slot first.
LoopWaitBlindly(t) ==
    /\ pc[t] = "loop"
    /\ idle' = idle + 1
    /\ pc' = [pc EXCEPT ![t] = "wait"]
    /\ UNCHANGED <<task, total, core, cur, main, submitted, done, failed>>

\* Top of the loop with an empty slot: counted idle, and wait.
LoopWait(t) ==
    /\ pc[t] = "loop"
    /\ task = 0
    /\ idle' = idle + 1
    /\ pc' = [pc EXCEPT ![t] = "wait"]
    /\ UNCHANGED <<task, total, core, cur, main, submitted, done, failed>>

\* Top of the loop with a full slot: idle_threads goes up and down again in
\* one critical section.
LoopTake(t) ==
    /\ pc[t] = "loop"
    /\ task # 0
    /\ TakeTask(t)
    /\ UNCHANGED <<idle, total, core, submitted, done, failed>>

SpuriousWake(t) ==
    /\ pc[t] = "wait"
    /\ pc' = [pc EXCEPT ![t] = "woken"]
    /\ UNCHANGED <<task, idle, total, core, cur, main, submitted, done, failed>>

\* THREAD_IDLE_MAX_SEC passed for a thread outside the core pool.  It has
\* left the wait queue and does not own the mutex yet.
WaitTimeout(t) ==
    /\ pc[t] = "wait"
    /\ ~core[t]
    /\ pc' = [pc EXCEPT ![t] = "expired"]
    /\ UNCHANGED <<task, idle, total, core, cur, main, submitted, done, failed>>

\* The woken thread owns the mutex again and takes whatever the slot holds.
WakeTake(t) ==
    /\ pc[t] = "woken"
    /\ TakeTask(t)
    /\ idle' = idle - 1
    /\ UNCHANGED <<total, core, submitted, done, failed>>

\* Mutant: the exiting thread stays in total_threads.
TerminateStillCounted(t) ==
    /\ pc[t] = "expired"
    /\ idle' = idle - 1
    /\ pc' = [pc EXCEPT ![t] = "none"]
    /\ UNCHANGED <<task, total, core, cur, main, submitted, done, failed>>

\* Terminate after the timeout; the slot is not looked at.
Terminate(t) ==
    /\ pc[t] = "expired"
    /\ idle' = idle - 1
    /\ total' = total - 1
    /\ pc' = [pc EXCEPT ![t] = "none"]
    /\ UNCHANGED <<task, core, cur, main, submitted, done, failed>>

\* The closure returns in the daemon (a forked child exits instead).
Finish(t) ==
    /\ pc[t] = "run"
    /\ pc' = [pc EXCEPT ![t] = "loop"]
    /\ done' = done \cup {cur[t]}
    /\ cur' = [cur EXCEPT ![t] = 0]
    /\ UNCHANGED <<task, idle, total, core, main, submitted, failed>>

-----------------------------------------------------------------------------
ThreadStep(t) ==
    \/ LoopWait(t) \/ LoopTake(t) \/ WakeTake(t) \/ Terminate(t)

Submit ==
    \/ WaitTaskIsNone
    \/ \E t \in Threads : SubmitSpawn(t) \/ SubmitNotify(t)
    \/ SubmitSpawnFails
    \/ SubmitNotifyLost

Next ==
    \/ Submit
    \/ MainSpuriousWake
    \/ \E t \in Threads :
          ThreadStep(t) \/ SpuriousWake(t) \/ WaitTimeout(t) \/ Finish(t)

Spec == Init /\ [][Next]_vars

\* A runnable thread gets the mutex and runs; nothing is assumed of closures,
\* which may be root shells that never end.
FairSpec ==
    /\ Spec
    /\ WF_vars(Submit)
    /\ \A t \in Threads : WF_vars(ThreadStep(t))

-----------------------------------------------------------------------------
(* Properties *)

\* The two counters exec_task_impl decides by are exact: idle_threads is the
\* number of threads between the two updates of the loop, total_threads the
\* number of live threads and of threads that could not be created.
CountersExact ==
    /\ idle = Cardinality(IdleSet)
    /\ total = Cardinality(Alive) + failed

\* No closure is lost or run twice: each of the submitted closures is in
\* exactly one of the slot, a thread's hands and the finished ones.
EachTaskOnce ==
    /\ \A k \in 1..submitted :
          \/ k = task /\ k \notin done /\ \A t \in Threads : cur[t] # k
          \/ k # task /\ k \in done /\ \A t \in Threads : cur[t] # k
          \/ k # task /\ k \notin done
             /\ \E t \in Threads : cur[t] = k /\ \A u \in Threads \ {t} : cur[u] # k
    /\ \A t \in Threads : pc[t] = "run" <=> cur[t] # 0

\* The accept loop sleeps in exec_task only while the slot is full, so the
\* take that empties the slot cannot be missed.
MainWaitsOnlyOnFullSlot == main = "waiting" => task # 0

\* Core threads come first and stay: a thread that may terminate exists only
\* next to a full core pool (less the threads that could not be created).
CorePoolFirst ==
    /\ Cardinality(CoreAlive) <= CorePoolSize
    /\ (\E t \in Threads : pc[t] # "none" /\ ~core[t])
          => Cardinality(CoreAlive) + failed >= CorePoolSize

\* No thread is on its way to the slot.
Unattended == task # 0 /\ \A t \in Threads : pc[t] \notin {"loop", "woken"}

\* A full slot nobody is coming for never leaves a thread asleep (no lost
\* wake-up); it needs a thread caught between its timeout and its exit, or
\* gone through it, and every thread of a full core pool busy.
UnattendedOnlyIfCoreBusy ==
    Unattended =>
        /\ \A t \in Threads : pc[t] # "wait"
        /\ failed = 0 =>
              Cardinality({t \in Threads : core[t] /\ pc[t] = "run"}) = CorePoolSize

\* A core thread never terminates.
CoreNeverTerminates ==
    [][\A t \in Threads : pc[t] # "none" /\ core[t] => pc'[t] # "none"]_vars

\* When every thread could be created, a closure in the slot is picked up: if
\* no thread times out, although other closures never return, and with the
\* expiry race if every closure returns.
PickedUp ==
    /\ [](failed = 0)
    /\ [](\A t \in Threads : pc[t] # "expired") \/ \A t \in Threads : WF_vars(Finish(t))
    => (task # 0 ~> task = 0)
=============================================================================
