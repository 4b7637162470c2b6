--------------------------- MODULE ServiceProofs ---------------------------
(***************************************************************************)
(* The daemon's worker threads run each task once, its log implements      *)
(* LogSpec, the persistent properties survive the processes that write     *)
(* them, and the su client carries what is typed and printed.              *)
(***************************************************************************)
EXTENDS ThreadPool, LogPipe, ResetProp, PumpTty, Inductions, FiniteSetTheorems

-----------------------------------------------------------------------------
(* The worker threads, for every set of threads, pool size and bound.  The *)
(* decision exec_task_impl takes (spawn or notify) is right only if the    *)
(* counters are exact, and the counters stay natural numbers only if the   *)
(* threads between the two updates are the ones counted: so type,          *)
(* counters, core pool and wake-up facts are proved together, as PoolInv.  *)

\* Only threads outside the core pool wait with a timeout.
ExpiredNotCore == \A t \in Threads : pc[t] = "expired" => ~core[t]

\* A thread holds a closure exactly while it runs it.
RunsATask == \A t \in Threads : pc[t] = "run" <=> cur[t] # 0

\* The strengthening of UnattendedOnlyIfCoreBusy that steps preserve: a full
\* slot is attended, or nobody sleeps and the core pool is complete.
SlotWatched ==
    Unattended =>
        /\ \A t \in Threads : pc[t] # "wait"
        /\ failed = 0 => Cardinality(CoreAlive) >= CorePoolSize

PoolInv ==
    /\ TypeOK
    /\ CountersExact
    /\ ExpiredNotCore
    /\ RunsATask
    /\ CorePoolFirst
    /\ SlotWatched
    /\ MainWaitsOnlyOnFullSlot

-----------------------------------------------------------------------------
(* Cardinalities of the sets the counters count *)

\* Adding one element to, or removing one from, a finite set.
LEMMA CardUpdate ==
    ASSUME NEW S, IsFiniteSet(S), NEW x
    PROVE  /\ Cardinality(S) \in Nat
           /\ Cardinality(S \cup {x}) = IF x \in S THEN Cardinality(S) ELSE Cardinality(S) + 1
           /\ Cardinality(S \ {x}) = IF x \in S THEN Cardinality(S) - 1 ELSE Cardinality(S)
           /\ x \in S => Cardinality(S) > 0
  <1>1. Cardinality(S) \in Nat
    BY FS_CardinalityType
  <1>2. Cardinality(S \cup {x}) = IF x \in S THEN Cardinality(S) ELSE Cardinality(S) + 1
    BY FS_AddElement
  <1>3. Cardinality(S \ {x}) = IF x \in S THEN Cardinality(S) - 1 ELSE Cardinality(S)
    BY FS_RemoveElement
  <1>4. ASSUME x \in S PROVE Cardinality(S) > 0
    <2>1. S # {}
      BY <1>4
    <2>2. Cardinality(S) # 0
      BY <2>1, FS_EmptySet
    <2> QED BY <1>1, <2>2
  <1> QED BY <1>1, <1>2, <1>3, <1>4

\* The counted sets are finite, as subsets of Threads.
LEMMA CountedFinite ==
    /\ IsFiniteSet(Alive) /\ IsFiniteSet(IdleSet) /\ IsFiniteSet(CoreAlive)
    /\ Cardinality(Alive) \in Nat
    /\ Cardinality(IdleSet) \in Nat
    /\ Cardinality(CoreAlive) \in Nat
    /\ Cardinality(CoreAlive) <= Cardinality(Alive)
  <1>1. Alive \subseteq Threads /\ IdleSet \subseteq Threads /\ CoreAlive \subseteq Alive
    BY DEF Alive, IdleSet, CoreAlive
  <1>2. IsFiniteSet(Alive) /\ IsFiniteSet(IdleSet)
    BY <1>1, FS_Subset, PoolAssumption
  <1>3. IsFiniteSet(CoreAlive) /\ Cardinality(CoreAlive) <= Cardinality(Alive)
    BY <1>1, <1>2, FS_Subset
  <1> QED BY <1>2, <1>3, FS_CardinalityType

\* How moving one thread changes the counted sets.
LEMMA MoveThread ==
    ASSUME TypeOK, NEW t \in Threads, NEW l \in Locations,
           pc' = [pc EXCEPT ![t] = l]
    PROVE  /\ Alive' = IF l # "none" THEN Alive \cup {t} ELSE Alive \ {t}
           /\ IdleSet' = IF l \in {"wait", "woken", "expired"}
                         THEN IdleSet \cup {t} ELSE IdleSet \ {t}
           /\ core' = core =>
                 CoreAlive' = IF l # "none" /\ core[t]
                              THEN CoreAlive \cup {t} ELSE CoreAlive \ {t}
           /\ pc'[t] = l
           /\ \A u \in Threads \ {t} : pc'[u] = pc[u]
  BY DEF TypeOK, Alive, IdleSet, Idle, CoreAlive

-----------------------------------------------------------------------------
(* PoolInv is inductive *)

LEMMA InitPool == Init => PoolInv
  <1> SUFFICES ASSUME Init PROVE PoolInv
    OBVIOUS
  <1>1. Alive = {} /\ IdleSet = {} /\ CoreAlive = {}
    BY DEF Init, Alive, IdleSet, Idle, CoreAlive
  <1>2. TypeOK
    BY PoolAssumption DEF Init, TypeOK, Locations
  <1>3. CountersExact
    BY <1>1, FS_EmptySet DEF Init, CountersExact
  <1>4. CorePoolFirst
    BY <1>1, FS_EmptySet, PoolAssumption DEF Init, CorePoolFirst
  <1> QED
    BY <1>2, <1>3, <1>4
    DEF PoolInv, Init, ExpiredNotCore, RunsATask, SlotWatched, Unattended, MainWaitsOnlyOnFullSlot

LEMMA TakeTaskFacts ==
    ASSUME PoolInv, NEW t \in Threads, TakeTask(t), core' = core,
           pc[t] \in {"loop", "woken"}
    PROVE  /\ task' = 0
           /\ main' \in {"ready", "woken"}
           /\ cur' \in [Threads -> 0..MaxTasks]
           /\ pc' \in [Threads -> Locations]
           /\ pc'[t] \in {"loop", "run"}
           /\ \A u \in Threads \ {t} : pc'[u] = pc[u]
           /\ Alive' = Alive
           /\ IdleSet' = IdleSet \ {t}
           /\ CoreAlive' = CoreAlive
           /\ RunsATask'
  <1>1. TypeOK /\ RunsATask
    BY DEF PoolInv
  <1> DEFINE l == IF task = 0 THEN "loop" ELSE "run"
  <1>2. l \in Locations /\ pc' = [pc EXCEPT ![t] = l] /\ l \in {"loop", "run"}
    BY DEF TakeTask, Locations
  <1>3. /\ Alive' = Alive \cup {t}
        /\ IdleSet' = IdleSet \ {t}
        /\ CoreAlive' = IF core[t] THEN CoreAlive \cup {t} ELSE CoreAlive \ {t}
        /\ pc'[t] = l
        /\ \A u \in Threads \ {t} : pc'[u] = pc[u]
    BY <1>1, <1>2, MoveThread, Zenon
  <1>4. t \in Alive /\ (t \in CoreAlive <=> core[t])
    BY DEF Alive, CoreAlive
  <1>5. Alive' = Alive /\ CoreAlive' = CoreAlive
    BY <1>3, <1>4
  <1>6. task' = 0 /\ main' \in {"ready", "woken"} /\ cur' \in [Threads -> 0..MaxTasks]
    BY <1>1 DEF TakeTask, NotifyMain, TypeOK
  <1>7. pc' \in [Threads -> Locations]
    BY <1>1, <1>2 DEF TypeOK
  <1>8. RunsATask'
    <2>1. cur'[t] = task /\ (pc'[t] = "run" <=> task # 0)
      BY <1>1, <1>3 DEF TakeTask, TypeOK
    <2>2. \A u \in Threads \ {t} : cur'[u] = cur[u]
      BY <1>1 DEF TakeTask, TypeOK
    <2> QED BY <1>1, <1>3, <2>1, <2>2 DEF RunsATask
  <1> QED BY <1>2, <1>3, <1>5, <1>6, <1>7, <1>8

\* Filling the slot keeps the types of the variables it sets.
LEMMA FillSlotFacts ==
    ASSUME TypeOK, FillSlot
    PROVE  /\ task' \in 0..MaxTasks /\ task' # 0 /\ task = 0
           /\ submitted' \in 0..MaxTasks
           /\ main' = "ready"
  BY PoolAssumption DEF TypeOK, FillSlot

\* Steps that leave the counted sets and counters alone and do not empty or
\* fill the slot keep everything that is about them.
LEMMA NextPool == PoolInv /\ [Next]_vars => PoolInv'
  <1> SUFFICES ASSUME PoolInv, [Next]_vars PROVE PoolInv'
    OBVIOUS
  <1> USE PoolAssumption
  <1>inv. TypeOK /\ CountersExact /\ ExpiredNotCore /\ RunsATask /\ CorePoolFirst
          /\ SlotWatched /\ MainWaitsOnlyOnFullSlot
    BY DEF PoolInv
  <1>nat. /\ Cardinality(Alive) \in Nat /\ Cardinality(IdleSet) \in Nat
          /\ Cardinality(CoreAlive) \in Nat
          /\ Cardinality(CoreAlive) <= Cardinality(Alive)
          /\ IsFiniteSet(Alive) /\ IsFiniteSet(IdleSet) /\ IsFiniteSet(CoreAlive)
          /\ idle \in Nat /\ total \in Nat /\ failed \in Nat
          /\ idle = Cardinality(IdleSet) /\ total = Cardinality(Alive) + failed
    BY <1>inv, CountedFinite DEF CountersExact, TypeOK
  <1>1. CASE WaitTaskIsNone
    <2>1. /\ UNCHANGED <<task, idle, total, pc, core, cur, submitted, done, failed>>
          /\ main' = "waiting" /\ task # 0
      BY <1>1 DEF WaitTaskIsNone
    <2> QED
      BY <1>inv, <2>1
      DEF PoolInv, TypeOK, CountersExact, ExpiredNotCore, RunsATask, CorePoolFirst, SlotWatched, Unattended,
          MainWaitsOnlyOnFullSlot, Alive, IdleSet, Idle, CoreAlive
  <1>2. ASSUME NEW t \in Threads, SubmitSpawn(t) PROVE PoolInv'
    <2>1. /\ FillSlot /\ idle = 0 /\ pc[t] = "none"
          /\ total' = total + 1
          /\ pc' = [pc EXCEPT ![t] = "loop"]
          /\ core' = [core EXCEPT ![t] = IsCoreThread(total + 1)]
          /\ UNCHANGED <<idle, cur, done, failed>>
      BY <1>2 DEF SubmitSpawn
    <2>2. TypeOK'
      BY <1>inv, <1>nat, <2>1, FillSlotFacts DEF TypeOK, Locations, IsCoreThread
    <2>3. /\ Alive' = Alive \cup {t} /\ IdleSet' = IdleSet \ {t}
          /\ pc'[t] = "loop" /\ \A u \in Threads \ {t} : pc'[u] = pc[u]
      BY <1>inv, <2>1, MoveThread DEF Locations
    <2>4. t \notin Alive /\ t \notin IdleSet /\ t \notin CoreAlive
      BY <2>1 DEF Alive, IdleSet, Idle, CoreAlive
    <2>5. CountersExact'
      <3>1. Cardinality(Alive \cup {t}) = Cardinality(Alive) + 1
        BY <1>nat, <2>4, CardUpdate
      <3>2. total' = Cardinality(Alive \cup {t}) + failed
        BY <1>nat, <2>1, <3>1
      <3>3. IdleSet' = IdleSet
        BY <2>3, <2>4
      <3> QED BY <1>nat, <2>1, <2>3, <3>2, <3>3 DEF CountersExact
    <2>6. ExpiredNotCore' /\ RunsATask'
      BY <1>inv, <2>1, <2>3 DEF ExpiredNotCore, RunsATask, TypeOK
    <2>7. CoreAlive' = IF total + 1 <= CorePoolSize THEN CoreAlive \cup {t} ELSE CoreAlive
      <3>1. /\ core'[t] = (total + 1 <= CorePoolSize)
            /\ \A u \in Threads \ {t} : core'[u] = core[u]
        BY <1>inv, <2>1 DEF TypeOK, IsCoreThread
      <3> QED BY <2>1, <2>3, <3>1 DEF CoreAlive
    <2>8. CorePoolFirst'
      <3>1. CASE total + 1 <= CorePoolSize
        <4>1. Cardinality(CoreAlive') = Cardinality(CoreAlive) + 1
          BY <1>nat, <2>4, <2>7, <3>1, CardUpdate
        <4>2. core'[t] /\ \A u \in Threads \ {t} : core'[u] = core[u]
          BY <1>inv, <2>1, <3>1 DEF TypeOK, IsCoreThread
        <4> QED
          BY <1>inv, <1>nat, <2>1, <2>3, <3>1, <4>1, <4>2 DEF CorePoolFirst
      <3>2. CASE ~(total + 1 <= CorePoolSize)
        <4>1. Cardinality(CoreAlive') = Cardinality(CoreAlive)
          BY <2>7, <3>2
        <4>2. ASSUME \A u \in Threads : pc[u] # "none" => core[u]
              PROVE  Cardinality(CoreAlive) + failed >= CorePoolSize
          <5>1. CoreAlive = Alive
            BY <4>2 DEF CoreAlive, Alive
          <5> QED BY <1>nat, <3>2, <5>1
        <4>3. Cardinality(CoreAlive) + failed >= CorePoolSize
          BY <1>inv, <4>2 DEF CorePoolFirst
        <4> QED
          BY <1>inv, <2>1, <4>1, <4>3 DEF CorePoolFirst
      <3> QED BY <3>1, <3>2
    <2>9. SlotWatched' /\ MainWaitsOnlyOnFullSlot'
      BY <1>inv, <2>1, <2>3, FillSlotFacts DEF SlotWatched, Unattended, MainWaitsOnlyOnFullSlot
    <2> QED BY <2>2, <2>5, <2>6, <2>8, <2>9 DEF PoolInv
  <1>3. CASE SubmitSpawnFails
    <2>1. /\ FillSlot /\ idle = 0 /\ failed < MaxFailures
          /\ total' = total + 1 /\ failed' = failed + 1
          /\ UNCHANGED <<idle, pc, core, cur, done>>
      BY <1>3 DEF SubmitSpawnFails
    <2>2. Alive' = Alive /\ IdleSet' = IdleSet /\ CoreAlive' = CoreAlive
      BY <2>1 DEF Alive, IdleSet, Idle, CoreAlive
    <2>3. TypeOK'
      BY <1>inv, <2>1, FillSlotFacts DEF TypeOK
    <2>4. CountersExact'
      <3>1. total' = Cardinality(Alive) + failed'
        BY <1>nat, <2>1
      <3> QED BY <1>nat, <2>1, <2>2, <3>1 DEF CountersExact
    <2>5. IdleSet = {}
      BY <1>nat, <2>1, FS_EmptySet
    <2>6. \A u \in Threads : pc[u] # "wait"
      BY <2>5 DEF IdleSet, Idle
    <2> QED
      BY <1>inv, <1>nat, <2>1, <2>2, <2>3, <2>4, <2>6, FillSlotFacts
      DEF PoolInv, ExpiredNotCore, RunsATask, CorePoolFirst, SlotWatched, MainWaitsOnlyOnFullSlot
  <1>4. ASSUME NEW t \in Threads, SubmitNotify(t) PROVE PoolInv'
    <2>1. /\ FillSlot /\ pc[t] = "wait"
          /\ pc' = [pc EXCEPT ![t] = "woken"]
          /\ UNCHANGED <<idle, total, core, cur, done, failed>>
      BY <1>4 DEF SubmitNotify
    <2>2. /\ Alive' = Alive /\ IdleSet' = IdleSet /\ CoreAlive' = CoreAlive
          /\ pc'[t] = "woken" /\ \A u \in Threads \ {t} : pc'[u] = pc[u]
      BY <1>inv, <2>1 DEF TypeOK, Alive, IdleSet, Idle, CoreAlive
    <2>3. TypeOK'
      BY <1>inv, <2>1, FillSlotFacts DEF TypeOK, Locations
    <2> QED
      BY <1>inv, <2>1, <2>2, <2>3, FillSlotFacts
      DEF PoolInv, CountersExact, ExpiredNotCore, RunsATask, CorePoolFirst, SlotWatched, Unattended,
          MainWaitsOnlyOnFullSlot
  <1>5. CASE SubmitNotifyLost
    <2>1. /\ FillSlot /\ idle > 0 /\ \A u \in Threads : pc[u] # "wait"
          /\ UNCHANGED <<idle, total, pc, core, cur, done, failed>>
      BY <1>5 DEF SubmitNotifyLost
    <2>2. Alive' = Alive /\ IdleSet' = IdleSet /\ CoreAlive' = CoreAlive
      BY <2>1 DEF Alive, IdleSet, Idle, CoreAlive
    <2>3. TypeOK'
      BY <1>inv, <2>1, FillSlotFacts DEF TypeOK
    <2>4. IdleSet # {}
      BY <1>nat, <2>1, FS_EmptySet
    <2>5. PICK u \in Threads : pc[u] \in {"woken", "expired"}
      BY <2>1, <2>4 DEF IdleSet, Idle
    <2>6. CASE pc[u] = "woken"
      BY <1>inv, <2>1, <2>2, <2>3, <2>6, FillSlotFacts
      DEF PoolInv, CountersExact, ExpiredNotCore, RunsATask, CorePoolFirst, SlotWatched, Unattended,
          MainWaitsOnlyOnFullSlot
    <2>7. CASE pc[u] = "expired"
      <3>1. Cardinality(CoreAlive) + failed >= CorePoolSize
        BY <1>inv, <2>7 DEF ExpiredNotCore, CorePoolFirst
      <3> QED
        BY <1>inv, <1>nat, <2>1, <2>2, <2>3, <3>1, FillSlotFacts
        DEF PoolInv, CountersExact, ExpiredNotCore, RunsATask, CorePoolFirst, SlotWatched,
            MainWaitsOnlyOnFullSlot
    <2> QED BY <2>5, <2>6, <2>7
  <1>6. CASE MainSpuriousWake
    BY <1>inv, <1>6
    DEF MainSpuriousWake, PoolInv, TypeOK, CountersExact, ExpiredNotCore, RunsATask,
        CorePoolFirst, SlotWatched, Unattended, MainWaitsOnlyOnFullSlot, Alive, IdleSet, Idle, CoreAlive
  <1>7. ASSUME NEW t \in Threads, LoopWait(t) PROVE PoolInv'
    <2>1. /\ pc[t] = "loop" /\ task = 0 /\ idle' = idle + 1
          /\ pc' = [pc EXCEPT ![t] = "wait"]
          /\ UNCHANGED <<task, total, core, cur, main, submitted, done, failed>>
      BY <1>7 DEF LoopWait
    <2>2. TypeOK'
      BY <1>inv, <2>1 DEF TypeOK, Locations
    <2>3. /\ IdleSet' = IdleSet \cup {t} /\ pc'[t] = "wait"
          /\ \A u \in Threads \ {t} : pc'[u] = pc[u]
      BY <1>inv, <2>1, MoveThread DEF Locations
    <2>4. Alive' = Alive /\ CoreAlive' = CoreAlive /\ t \notin IdleSet
      BY <2>1, <2>3 DEF Alive, CoreAlive, IdleSet, Idle
    <2>5. CountersExact'
      BY <1>nat, <2>1, <2>3, <2>4, CardUpdate DEF CountersExact
    <2> QED
      BY <1>inv, <2>1, <2>2, <2>3, <2>4, <2>5
      DEF PoolInv, ExpiredNotCore, RunsATask, CorePoolFirst, SlotWatched, Unattended, MainWaitsOnlyOnFullSlot
  <1>8. ASSUME NEW t \in Threads, LoopTake(t) PROVE PoolInv'
    <2>1. /\ pc[t] = "loop" /\ TakeTask(t) /\ core' = core
          /\ UNCHANGED <<idle, total, core, submitted, done, failed>>
      BY <1>8 DEF LoopTake
    <2>2. /\ task' = 0 /\ main' \in {"ready", "woken"}
          /\ cur' \in [Threads -> 0..MaxTasks] /\ pc' \in [Threads -> Locations]
          /\ pc'[t] \in {"loop", "run"} /\ \A u \in Threads \ {t} : pc'[u] = pc[u]
          /\ Alive' = Alive /\ IdleSet' = IdleSet \ {t} /\ CoreAlive' = CoreAlive /\ RunsATask'
      BY <2>1, TakeTaskFacts
    <2>3. IdleSet' = IdleSet
      BY <2>1, <2>2 DEF IdleSet, Idle
    <2> QED
      BY <1>inv, <2>1, <2>2, <2>3
      DEF PoolInv, TypeOK, CountersExact, ExpiredNotCore, RunsATask, CorePoolFirst, SlotWatched, Unattended,
          MainWaitsOnlyOnFullSlot
  <1>9. ASSUME NEW t \in Threads, WakeTake(t) PROVE PoolInv'
    <2>1. /\ pc[t] = "woken" /\ TakeTask(t) /\ idle' = idle - 1 /\ core' = core
          /\ UNCHANGED <<total, core, submitted, done, failed>>
      BY <1>9 DEF WakeTake
    <2>2. /\ task' = 0 /\ main' \in {"ready", "woken"}
          /\ cur' \in [Threads -> 0..MaxTasks] /\ pc' \in [Threads -> Locations]
          /\ pc'[t] \in {"loop", "run"} /\ \A u \in Threads \ {t} : pc'[u] = pc[u]
          /\ Alive' = Alive /\ IdleSet' = IdleSet \ {t} /\ CoreAlive' = CoreAlive /\ RunsATask'
      BY <2>1, TakeTaskFacts
    <2>3. t \in IdleSet
      BY <2>1 DEF IdleSet, Idle
    <2>4. Cardinality(IdleSet \ {t}) = Cardinality(IdleSet) - 1 /\ Cardinality(IdleSet) > 0
      BY <1>nat, <2>3, CardUpdate
    <2>5. CountersExact' /\ idle' \in Nat
      BY <1>nat, <2>1, <2>2, <2>4 DEF CountersExact
    <2> QED
      BY <1>inv, <2>1, <2>2, <2>5
      DEF PoolInv, TypeOK, ExpiredNotCore, RunsATask, CorePoolFirst, SlotWatched, Unattended,
          MainWaitsOnlyOnFullSlot
  <1>10. ASSUME NEW t \in Threads, Terminate(t) PROVE PoolInv'
    <2>1. /\ pc[t] = "expired" /\ idle' = idle - 1 /\ total' = total - 1
          /\ pc' = [pc EXCEPT ![t] = "none"]
          /\ UNCHANGED <<task, core, cur, main, submitted, done, failed>>
      BY <1>10 DEF Terminate
    <2>2. /\ Alive' = Alive \ {t} /\ IdleSet' = IdleSet \ {t}
          /\ pc'[t] = "none" /\ \A u \in Threads \ {t} : pc'[u] = pc[u]
      BY <1>inv, <2>1, MoveThread DEF Locations
    <2>3. t \in Alive /\ t \in IdleSet /\ ~core[t]
      BY <1>inv, <2>1 DEF Alive, IdleSet, Idle, ExpiredNotCore
    <2>4. CoreAlive' = CoreAlive
      BY <2>1, <2>2, <2>3 DEF CoreAlive
    <2>5. CountersExact' /\ idle' \in Nat /\ total' \in Nat
      BY <1>nat, <2>1, <2>2, <2>3, CardUpdate DEF CountersExact
    <2>6. TypeOK'
      BY <1>inv, <2>1, <2>5 DEF TypeOK, Locations
    <2> QED
      BY <1>inv, <2>1, <2>2, <2>4, <2>5, <2>6
      DEF PoolInv, ExpiredNotCore, RunsATask, CorePoolFirst, SlotWatched, Unattended, MainWaitsOnlyOnFullSlot
  <1>11. ASSUME NEW t \in Threads, SpuriousWake(t) \/ WaitTimeout(t) PROVE PoolInv'
    <2>1. PICK l \in {"woken", "expired"} :
             /\ pc[t] = "wait" /\ pc' = [pc EXCEPT ![t] = l]
             /\ l = "expired" => ~core[t]
             /\ UNCHANGED <<task, idle, total, core, cur, main, submitted, done, failed>>
      BY <1>11 DEF SpuriousWake, WaitTimeout
    <2>2. /\ Alive' = Alive /\ IdleSet' = IdleSet /\ CoreAlive' = CoreAlive
          /\ pc'[t] = l /\ \A u \in Threads \ {t} : pc'[u] = pc[u]
      BY <1>inv, <2>1 DEF TypeOK, Alive, IdleSet, Idle, CoreAlive
    <2>3. TypeOK'
      BY <1>inv, <2>1 DEF TypeOK, Locations
    <2> QED
      BY <1>inv, <2>1, <2>2, <2>3
      DEF PoolInv, CountersExact, ExpiredNotCore, RunsATask, CorePoolFirst, SlotWatched, Unattended,
          MainWaitsOnlyOnFullSlot
  <1>12. ASSUME NEW t \in Threads, Finish(t) PROVE PoolInv'
    <2>1. /\ pc[t] = "run" /\ pc' = [pc EXCEPT ![t] = "loop"]
          /\ done' = done \cup {cur[t]} /\ cur' = [cur EXCEPT ![t] = 0]
          /\ UNCHANGED <<task, idle, total, core, main, submitted, failed>>
      BY <1>12 DEF Finish
    <2>2. TypeOK'
      <3>1. cur[t] \in 1..MaxTasks
        BY <1>inv, <2>1 DEF RunsATask, TypeOK
      <3>2. done' \subseteq 1..MaxTasks
        BY <1>inv, <2>1, <3>1 DEF TypeOK
      <3>3. pc' \in [Threads -> Locations] /\ cur' \in [Threads -> 0..MaxTasks]
        BY <1>inv, <2>1 DEF TypeOK, Locations
      <3> QED BY <1>inv, <2>1, <3>2, <3>3 DEF TypeOK
    <2>3. /\ Alive' = Alive /\ IdleSet' = IdleSet /\ CoreAlive' = CoreAlive
          /\ pc'[t] = "loop" /\ \A u \in Threads \ {t} : pc'[u] = pc[u]
      BY <1>inv, <2>1 DEF TypeOK, Alive, IdleSet, Idle, CoreAlive
    <2>4. RunsATask'
      BY <1>inv, <2>1, <2>3 DEF RunsATask, TypeOK
    <2> QED
      BY <1>inv, <2>1, <2>2, <2>3, <2>4
      DEF PoolInv, CountersExact, ExpiredNotCore, CorePoolFirst, SlotWatched, Unattended,
          MainWaitsOnlyOnFullSlot
  <1>13. CASE UNCHANGED vars
    BY <1>inv, <1>13
    DEF vars, PoolInv, TypeOK, CountersExact, ExpiredNotCore, RunsATask, CorePoolFirst,
        SlotWatched, Unattended, MainWaitsOnlyOnFullSlot, Alive, IdleSet, Idle, CoreAlive
  <1> QED
    BY <1>1, <1>2, <1>3, <1>4, <1>5, <1>6, <1>7, <1>8, <1>9, <1>10, <1>11, <1>12, <1>13
    DEF Next, Submit, ThreadStep

-----------------------------------------------------------------------------
(* Theorems *)

\* PoolInv holds in every reachable state of the pool.
THEOREM PoolInvariant == Spec => []PoolInv
  BY InitPool, NextPool, PTL DEF Spec

\* Every variable of the pool keeps its type; in particular the counters
\* exec_task_impl tests never become negative.
THEOREM TypeCorrect == Spec => []TypeOK
  <1>1. PoolInv => TypeOK
    BY DEF PoolInv
  <1> QED BY <1>1, PoolInvariant, PTL

\* idle_threads and total_threads count what exec_task_impl takes them to
\* count, whatever interleaving of waits, timeouts and failed spawns.
THEOREM CountersCorrect == Spec => []CountersExact
  <1>1. PoolInv => CountersExact
    BY DEF PoolInv
  <1> QED BY <1>1, PoolInvariant, PTL

\* A thread that may terminate exists only next to a full core pool.
THEOREM CorePoolCorrect == Spec => []CorePoolFirst
  <1>1. PoolInv => CorePoolFirst
    BY DEF PoolInv
  <1> QED BY <1>1, PoolInvariant, PTL

\* exec_task_impl never sleeps on an empty slot.
THEOREM MainWaitCorrect == Spec => []MainWaitsOnlyOnFullSlot
  <1>1. PoolInv => MainWaitsOnlyOnFullSlot
    BY DEF PoolInv
  <1> QED BY <1>1, PoolInvariant, PTL

\* The expiry race is the only way to an unattended closure, and it needs
\* every core thread busy.
THEOREM UnattendedCorrect == Spec => []UnattendedOnlyIfCoreBusy
  <1>1. PoolInv => UnattendedOnlyIfCoreBusy
    <2> SUFFICES ASSUME PoolInv, Unattended PROVE
            /\ \A t \in Threads : pc[t] # "wait"
            /\ failed = 0 =>
                  Cardinality({t \in Threads : core[t] /\ pc[t] = "run"}) = CorePoolSize
      BY DEF UnattendedOnlyIfCoreBusy
    <2>1. \A t \in Threads : pc[t] # "wait"
      BY DEF PoolInv, SlotWatched
    <2>2. CoreAlive = {t \in Threads : core[t] /\ pc[t] = "run"}
      BY <2>1 DEF PoolInv, TypeOK, Locations, ExpiredNotCore, Unattended, CoreAlive
    <2>3. failed = 0 => Cardinality(CoreAlive) = CorePoolSize
      BY CountedFinite, PoolAssumption DEF PoolInv, SlotWatched, CorePoolFirst
    <2> QED BY <2>1, <2>2, <2>3
  <1> QED BY <1>1, PoolInvariant, PTL

\* A core thread stays in the pool for ever.
THEOREM CoreThreadsStay == Spec => CoreNeverTerminates
  <1>1. PoolInv /\ [Next]_vars =>
            [\A t \in Threads : pc[t] # "none" /\ core[t] => pc'[t] # "none"]_vars
    <2> SUFFICES ASSUME PoolInv, Next, NEW t \in Threads, pc[t] # "none", core[t]
                 PROVE  pc'[t] # "none"
      OBVIOUS
    <2>1. pc \in [Threads -> Locations] /\ (pc[t] = "expired" => ~core[t])
      BY DEF PoolInv, TypeOK, ExpiredNotCore
    <2>2. CASE \E u \in Threads : Terminate(u)
      BY <2>1, <2>2 DEF PoolInv, ExpiredNotCore, Terminate
    <2>3. CASE ~\E u \in Threads : Terminate(u)
      BY <2>1, <2>3
      DEF Next, Submit, ThreadStep, WaitTaskIsNone, SubmitSpawn, SubmitSpawnFails, SubmitNotify,
          SubmitNotifyLost, MainSpuriousWake, LoopWait, LoopTake, WakeTake, TakeTask,
          SpuriousWake, WaitTimeout, Finish
    <2> QED BY <2>2, <2>3
  <1> QED BY <1>1, PoolInvariant, PTL DEF Spec, CoreNeverTerminates

-----------------------------------------------------------------------------
(* Each closure exactly once *)

\* Only numbers of submitted closures are about.
Numbered ==
    /\ task \in 0..submitted
    /\ done \subseteq 1..submitted
    /\ cur \in [Threads -> 0..submitted]

InSlot(k)  == k = task /\ k \notin done /\ \A t \in Threads : cur[t] # k
IsDone(k)  == k # task /\ k \in done /\ \A t \in Threads : cur[t] # k
Running(k) == k # task /\ k \notin done
              /\ \E t \in Threads : cur[t] = k /\ \A u \in Threads \ {t} : cur[u] # k

OncePerTask == \A k \in 1..submitted : InSlot(k) \/ IsDone(k) \/ Running(k)

TaskInv == PoolInv /\ Numbered /\ OncePerTask

LEMMA InitTask == Init => TaskInv
  BY InitPool, PoolAssumption DEF Init, TaskInv, Numbered, OncePerTask

LEMMA NextTask == TaskInv /\ [Next]_vars => TaskInv'
  <1> SUFFICES ASSUME TaskInv, [Next]_vars PROVE Numbered' /\ OncePerTask'
    BY NextPool DEF TaskInv
  <1>inv. Numbered /\ OncePerTask /\ RunsATask /\ TypeOK /\ submitted \in Nat
    BY PoolAssumption DEF TaskInv, PoolInv, TypeOK
  <1>1. CASE UNCHANGED <<task, cur, done, submitted>>
    BY <1>inv, <1>1 DEF Numbered, OncePerTask, InSlot, IsDone, Running
  <1>2. CASE FillSlot /\ UNCHANGED <<cur, done>>
    <2>1. task = 0 /\ task' = submitted + 1 /\ submitted' = submitted + 1
      BY <1>2 DEF FillSlot
    <2>2. Numbered'
      BY <1>inv, <1>2, <2>1 DEF Numbered
    <2>3. InSlot(task)'
      BY <1>inv, <1>2, <2>1 DEF Numbered, InSlot
    <2>4. ASSUME NEW k \in 1..submitted PROVE IsDone(k)' \/ Running(k)'
      BY <1>inv, <1>2, <2>1, <2>4 DEF OncePerTask, InSlot, IsDone, Running
    <2>5. ASSUME NEW k \in 1..submitted' PROVE InSlot(k)' \/ IsDone(k)' \/ Running(k)'
      <3>1. CASE k = submitted + 1
        <4>1. k = task'
          BY <2>1, <3>1
        <4> QED BY <2>3, <4>1 DEF InSlot
      <3>2. CASE k # submitted + 1
        <4>1. k \in 1..submitted
          BY <1>inv, <2>1, <3>2
        <4> QED BY <2>4, <4>1
      <3> QED BY <3>1, <3>2
    <2> QED BY <2>2, <2>5 DEF OncePerTask
  <1>3. ASSUME NEW t \in Threads, TakeTask(t), pc[t] # "run", UNCHANGED <<done, submitted>>
        PROVE  Numbered' /\ OncePerTask'
    <2>1. cur[t] = 0 /\ task' = 0 /\ cur' = [cur EXCEPT ![t] = task]
      BY <1>inv, <1>3 DEF RunsATask, TakeTask
    <2>2. Numbered'
      BY <1>inv, <1>3, <2>1 DEF Numbered
    <2>3. cur'[t] = task /\ \A u \in Threads \ {t} : cur'[u] = cur[u]
      BY <1>inv, <2>1 DEF Numbered
    <2>4. ASSUME NEW k \in 1..submitted PROVE InSlot(k)' \/ IsDone(k)' \/ Running(k)'
      <3>0. k # 0 /\ k # task'
        BY <1>inv, <2>1
      <3>1. CASE InSlot(k)
        BY <1>3, <2>3, <3>0, <3>1 DEF InSlot, Running
      <3>2. CASE IsDone(k)
        BY <1>3, <2>3, <3>0, <3>2 DEF IsDone
      <3>3. CASE Running(k)
        BY <1>3, <2>1, <2>3, <3>0, <3>3 DEF Running
      <3> QED BY <1>inv, <3>1, <3>2, <3>3 DEF OncePerTask
    <2> QED BY <1>3, <2>2, <2>4 DEF OncePerTask
  <1>4. ASSUME NEW t \in Threads, Finish(t) PROVE Numbered' /\ OncePerTask'
    <2>1. /\ cur[t] # 0 /\ cur' = [cur EXCEPT ![t] = 0] /\ done' = done \cup {cur[t]}
          /\ UNCHANGED <<task, submitted>>
      BY <1>inv, <1>4 DEF RunsATask, Finish
    <2>2. cur[t] \in 1..submitted /\ cur'[t] = 0 /\ \A u \in Threads \ {t} : cur'[u] = cur[u]
      BY <1>inv, <2>1 DEF Numbered
    <2>3. Numbered'
      <3>1. done' \subseteq 1..submitted
        BY <1>inv, <2>1, <2>2 DEF Numbered
      <3>2. cur' \in [Threads -> 0..submitted]
        BY <1>inv, <2>1 DEF Numbered
      <3> QED BY <1>inv, <2>1, <3>1, <3>2 DEF Numbered
    <2>4. ASSUME NEW k \in 1..submitted PROVE InSlot(k)' \/ IsDone(k)' \/ Running(k)'
      <3>0. k # 0
        BY <1>inv
      <3>1. CASE k = cur[t]
        BY <1>inv, <2>1, <2>2, <3>0, <3>1 DEF OncePerTask, InSlot, IsDone, Running
      <3>2. CASE k # cur[t]
        BY <1>inv, <2>1, <2>2, <3>0, <3>2 DEF OncePerTask, InSlot, IsDone, Running
      <3> QED BY <3>1, <3>2
    <2> QED BY <2>1, <2>3, <2>4 DEF OncePerTask
  <1> QED
    BY <1>1, <1>2, <1>3, <1>4
    DEF Next, vars, Submit, ThreadStep, WaitTaskIsNone, SubmitSpawn, SubmitSpawnFails,
        SubmitNotify, SubmitNotifyLost, MainSpuriousWake, LoopWait, LoopTake, WakeTake,
        SpuriousWake, WaitTimeout, Terminate

\* No closure handed to exec_task is lost or run twice.
THEOREM EachTaskOnceCorrect == Spec => []EachTaskOnce
  <1>1. TaskInv => EachTaskOnce
    BY DEF TaskInv, PoolInv, RunsATask, OncePerTask, InSlot, IsDone, Running, EachTaskOnce
  <1> QED BY <1>1, InitTask, NextTask, PTL DEF Spec

-----------------------------------------------------------------------------
(* The messages among the records of the pipe *)

\* What is kept after record r, when q was kept before.
Keep(q, r) == IF r = Setup THEN q ELSE Append(q, r)

LEMMA KeepType ==
    ASSUME NEW R, NEW q \in Seq(R), NEW r \in R
    PROVE  Keep(q, r) \in Seq(R)
  BY AppendProperties DEF Keep

\* What a function that satisfies the recursive equation is.
LEMMA KeptRange ==
    ASSUME NEW R, NEW s \in Seq(R), NEW M,
           M = [i \in 0..Len(s) |-> IF i = 0 THEN <<>>
                                    ELSE IF s[i] = Setup THEN M[i - 1]
                                    ELSE Append(M[i - 1], s[i])]
    PROVE  /\ M \in [0..Len(s) -> Seq(R)]
           /\ M[0] = <<>>
           /\ \A i \in 1..Len(s) : M[i] = Keep(M[i - 1], s[i])
  <1>1. Len(s) \in Nat
    OBVIOUS
  <1>2. M[0] = <<>>
    BY <1>1
  <1>3. \A i \in 1..Len(s) : i \in 0..Len(s) /\ i # 0
    BY <1>1
  <1>4. \A i \in 1..Len(s) : M[i] = IF s[i] = Setup THEN M[i - 1] ELSE Append(M[i - 1], s[i])
    BY <1>3
  <1>5. \A i \in 1..Len(s) : M[i] = Keep(M[i - 1], s[i])
    BY <1>4 DEF Keep
  <1>6. \A i \in 0..Len(s) : M[i] \in Seq(R)
    <2> DEFINE U == {i \in 0..Len(s) : M[i] \in Seq(R)}
    <2>1. 0 \in U
      <3>1. M[0] \in Seq(R)
        BY <1>2, EmptySeq
      <3> QED BY <1>1, <3>1
    <2>2. ASSUME NEW i \in U, i < Len(s)
          PROVE  i + 1 \in U
      <3>1. i \in 0..Len(s) /\ M[i] \in Seq(R)
        OBVIOUS
      <3>2. i + 1 \in 1..Len(s) /\ i + 1 \in 0..Len(s) /\ (i + 1) - 1 = i
        BY <1>1, <2>2, <3>1
      <3>3. M[i + 1] = Keep(M[i], s[i + 1])
        BY <1>5, <3>2
      <3>4. s[i + 1] \in R
        BY <3>2
      <3>5. M[i + 1] \in Seq(R)
        BY <3>1, <3>3, <3>4, KeepType
      <3> QED BY <3>2, <3>5
    <2>3. 0..Len(s) \subseteq U
      <3> HIDE DEF U
      <3> QED BY <1>1, <2>1, <2>2, Numbers
    <2> QED BY <2>3
  <1>7. M = [i \in 0..Len(s) |-> M[i]]
    OBVIOUS
  <1>8. M \in [0..Len(s) -> Seq(R)]
    BY <1>6, <1>7
  <1> QED BY <1>2, <1>5, <1>8

\* The recursive function is there and is what its definition says.
LEMMA MessagesToDef ==
    ASSUME NEW R, NEW s \in Seq(R)
    PROVE  /\ MessagesTo(s) \in [0..Len(s) -> Seq(R)]
           /\ MessagesTo(s)[0] = <<>>
           /\ \A i \in 1..Len(s) : MessagesTo(s)[i] = Keep(MessagesTo(s)[i - 1], s[i])
  <1> DEFINE n == Len(s)
             Good(f, k) == /\ f \in [0..k -> Seq(R)] /\ f[0] = <<>>
                           /\ \A i \in 1..k : f[i] = Keep(f[i - 1], s[i])
             T == {k \in 0..n : \E f : Good(f, k)}
  <1>1. n \in Nat
    OBVIOUS
  <1>2. 0 \in T
    <2> DEFINE g == [i \in 0..0 |-> <<>>]
    <2>1. g \in [0..0 -> Seq(R)] /\ g[0] = <<>>
      OBVIOUS
    <2>2. 1..0 = {}
      OBVIOUS
    <2> HIDE DEF g
    <2>3. Good(g, 0)
      BY <2>1, <2>2
    <2> QED BY <1>1, <2>3
  <1>3. ASSUME NEW k \in T, k < n
        PROVE  k + 1 \in T
    <2>1. k \in 0..n /\ k + 1 \in 1..n
      BY <1>1, <1>3
    <2>2. PICK f : Good(f, k)
      OBVIOUS
    <2> DEFINE g == [i \in 0..(k + 1) |-> IF i <= k THEN f[i] ELSE Keep(f[k], s[k + 1])]
    <2>3. s[k + 1] \in R
      BY <2>1
    <2>4. Keep(f[k], s[k + 1]) \in Seq(R)
      BY <2>1, <2>2, <2>3 DEF Keep
    <2>5. g \in [0..(k + 1) -> Seq(R)] /\ g[0] = <<>>
      BY <2>1, <2>2, <2>4
    <2>6. ASSUME NEW i \in 1..(k + 1)
          PROVE  g[i] = Keep(g[i - 1], s[i])
      <3>1. CASE i <= k
        BY <2>1, <2>2, <3>1
      <3>2. CASE i = k + 1
        BY <2>1, <3>2
      <3> QED BY <2>1, <3>1, <3>2
    <2> HIDE DEF g
    <2>7. Good(g, k + 1)
      BY <2>5, <2>6
    <2>8. \E h : Good(h, k + 1)
      <3> HIDE DEF Good
      <3> QED BY <2>7
    <2>9. k + 1 \in 0..n
      BY <1>1, <2>1
    <2> HIDE DEF Good, n
    <2> QED BY <2>8, <2>9
  <1>4. n \in T
    <2>1. \A i \in T : i \in 0..n /\ i < n => i + 1 \in T
      BY <1>3
    <2> HIDE DEF T
    <2>2. 0..n \subseteq T
      BY <1>1, <1>2, <2>1, Numbers
    <2> QED BY <1>1, <2>2
  <1>5. PICK f : Good(f, n)
    BY <1>4
  <1> DEFINE Body(h) == [i \in 0..Len(s) |-> IF i = 0 THEN <<>>
                                            ELSE IF s[i] = Setup THEN h[i - 1]
                                            ELSE Append(h[i - 1], s[i])]
  <1>6. f = Body(f)
    <2>1. f = [i \in 0..Len(s) |-> f[i]]
      BY <1>1, <1>5
    <2>2. f[0] = <<>> /\ Len(s) \in Nat
      BY <1>1, <1>5
    <2>3. \A i \in 1..Len(s) : f[i] = IF s[i] = Setup THEN f[i - 1] ELSE Append(f[i - 1], s[i])
      BY <1>5 DEF Keep
    <2>4. \A i \in 0..Len(s) : i # 0 => i \in 1..Len(s)
      BY <2>2
    <2>5. \A i \in 0..Len(s) : f[i] = IF i = 0 THEN <<>> ELSE IF s[i] = Setup THEN f[i - 1]
                                                        ELSE Append(f[i - 1], s[i])
      BY <2>2, <2>3, <2>4
    <2> QED BY <2>1, <2>5
  <1>7. MessagesTo(s) = Body(MessagesTo(s))
    <2>1. MessagesTo(s) = CHOOSE h : h = Body(h)
      BY DEF MessagesTo
    <2> HIDE DEF Body
    <2>2. (CHOOSE h : h = Body(h)) = Body(CHOOSE h : h = Body(h))
      BY <1>6, Zenon
    <2> QED BY <2>1, <2>2, Zenon
  <1>8. MessagesTo(s) = [i \in 0..Len(s) |-> IF i = 0 THEN <<>>
                                             ELSE IF s[i] = Setup THEN MessagesTo(s)[i - 1]
                                             ELSE Append(MessagesTo(s)[i - 1], s[i])]
    BY <1>7
  <1> QED BY <1>8, KeptRange, ZenonT(40)

\* Of no records nothing is a message.
LEMMA MessagesOfNone == Messages(<<>>) = <<>> /\ \A R : \A s \in Seq(R) : Messages(s) \in Seq(R)
  <1>1. <<>> \in Seq({}) /\ Len(<<>>) = 0
    OBVIOUS
  <1>2. MessagesTo(<<>>)[0] = <<>>
    BY <1>1, MessagesToDef
  <1>3. ASSUME NEW R, NEW s \in Seq(R)
        PROVE  Messages(s) \in Seq(R)
    <2>1. MessagesTo(s) \in [0..Len(s) -> Seq(R)]
      BY MessagesToDef
    <2>2. Len(s) \in 0..Len(s)
      OBVIOUS
    <2> QED BY <2>1, <2>2 DEF Messages
  <1> QED BY <1>1, <1>2, <1>3 DEF Messages

\* A record written at the end.
LEMMA MessagesOfAppend ==
    ASSUME NEW R, NEW s \in Seq(R), NEW r \in R
    PROVE  Messages(Append(s, r)) = Keep(Messages(s), r)
  <1> DEFINE u == Append(s, r)
             n == Len(s)
             M == MessagesTo(s)
             N == MessagesTo(u)
             Same == {i \in 0..n : M[i] = N[i]}
  <1>1. n \in Nat /\ u \in Seq(R) /\ Len(u) = n + 1 /\ u[n + 1] = r /\ \A i \in 1..n : u[i] = s[i]
    BY AppendProperties
  <1>2. M[0] = <<>> /\ \A i \in 1..n : M[i] = Keep(M[i - 1], s[i])
    BY MessagesToDef
  <1>3. N[0] = <<>> /\ \A i \in 1..(n + 1) : N[i] = Keep(N[i - 1], u[i])
    <2> HIDE DEF u, n
    <2> QED BY <1>1, MessagesToDef
  <1> HIDE DEF u, n, M, N
  <1>4. 0 \in Same
    BY <1>1, <1>2, <1>3
  <1>5. ASSUME NEW i \in Same, i < n
        PROVE  i + 1 \in Same
    <2>1. i + 1 \in 1..n /\ i + 1 \in 1..(n + 1) /\ i + 1 \in 0..n /\ (i + 1) - 1 = i
      BY <1>1, <1>5
    <2>2. M[i + 1] = Keep(M[i], s[i + 1]) /\ N[i + 1] = Keep(N[i], s[i + 1])
      BY <1>1, <1>2, <1>3, <2>1
    <2> QED BY <2>1, <2>2
  <1>6. 0..n \subseteq Same
    <2> HIDE DEF Same
    <2> QED BY <1>1, <1>4, <1>5, Numbers
  <1>7. M[n] = N[n]
    BY <1>1, <1>6
  <1>8. n + 1 \in 1..(n + 1) /\ (n + 1) - 1 = n
    BY <1>1
  <1>9. N[n + 1] = Keep(M[n], r)
    BY <1>1, <1>3, <1>7, <1>8
  <1>10. Messages(u) = N[n + 1] /\ Messages(s) = M[n]
    BY <1>1 DEF Messages, M, N, n
  <1> QED BY <1>9, <1>10 DEF u

\* What is kept after q is kept after p and q joined.
LEMMA KeepAfter ==
    \A R : \A p, q \in Seq(R), r \in R : Keep(Joined(p, q), r) = Joined(p, Keep(q, r))
  <1> TAKE R
  <1> TAKE p, q \in Seq(R), r \in R
  <1>1. CASE r = Setup
    BY <1>1 DEF Keep, Joined
  <1>2. CASE r # Setup
    <2>1. Append(p \o q, r) = (p \o q) \o <<r>> /\ Append(q, r) = q \o <<r>>
      BY AppendIsConcat, ConcatProperties
    <2>2. (p \o q) \o <<r>> = p \o (q \o <<r>>)
      <3>1. <<r>> \in Seq(R)
        OBVIOUS
      <3> QED BY <3>1, ConcatAssociative
    <2> QED BY <1>2, <2>1, <2>2 DEF Keep, Joined
  <1> QED BY <1>1, <1>2

LEMMA FirstAndRest ==
    ASSUME NEW R, NEW r \in R, NEW q \in Seq(R), NEW s, s = <<r>> \o q
    PROVE  s # <<>> /\ Head(s) = r /\ Tail(s) = q
  <1>1. <<r>> \in Seq(R) /\ Len(<<r>>) = 1
    OBVIOUS
  <1>2. s \in Seq(R) /\ Len(s) = 1 + Len(q) /\ s[1] = r
    BY <1>1, ConcatProperties
  <1>3. \A i \in 1..Len(q) : s[i + 1] = q[i]
    BY <1>1, <1>2, ConcatProperties
  <1>4. s # <<>> /\ Tail(s) \in Seq(R) /\ Len(Tail(s)) = Len(q)
    BY <1>2
  <1>5. \A i \in 1..Len(q) : Tail(s)[i] = q[i]
    BY <1>2, <1>3, <1>4
  <1>6. Tail(s) = q
    BY <1>4, <1>5, SeqEqual
  <1> QED BY <1>2, <1>4, <1>6

\* A record taken from the front.
LEMMA MessagesOfTail ==
    ASSUME NEW R, NEW s \in Seq(R), s # <<>>
    PROVE  Messages(s) = Keep(<<>>, Head(s)) \o Messages(Tail(s))
  <1> DEFINE u == Tail(s)
             n == Len(u)
             p == Keep(<<>>, Head(s))
             M == MessagesTo(s)
             N == MessagesTo(u)
             Shifted == {i \in 0..n : M[i + 1] = Joined(p, N[i])}
  <1>1. /\ n \in Nat /\ u \in Seq(R) /\ Len(s) = n + 1 /\ s[1] = Head(s) /\ s[1] \in R
        /\ \A i \in 1..n : u[i] = s[i + 1] /\ s[i + 1] \in R
    OBVIOUS
  <1>2. p \in Seq(R)
    BY <1>1, KeepType, EmptySeq
  <1>3. M[0] = <<>> /\ \A i \in 1..Len(s) : M[i] = Keep(M[i - 1], s[i])
    BY MessagesToDef
  <1>4. N \in [0..n -> Seq(R)] /\ N[0] = <<>> /\ \A i \in 1..n : N[i] = Keep(N[i - 1], u[i])
    <2> HIDE DEF u
    <2> QED BY <1>1, MessagesToDef
  <1> HIDE DEF u, n, p, M, N
  <1>5. 0 \in Shifted
    <2>1. 1 \in 1..Len(s) /\ 1 - 1 = 0
      BY <1>1
    <2>2. M[1] = p
      BY <1>1, <1>3, <2>1 DEF p
    <2>3. Joined(p, <<>>) = p
      BY <1>2, ConcatEmptySeq DEF Joined
    <2>4. M[0 + 1] = Joined(p, N[0])
      BY <1>4, <2>2, <2>3
    <2> QED BY <1>1, <2>4
  <1>6. ASSUME NEW i \in Shifted, i < n
        PROVE  i + 1 \in Shifted
    <2>1. i \in 0..n /\ M[i + 1] = Joined(p, N[i])
      OBVIOUS
    <2>2. /\ i + 1 \in 1..n /\ i + 1 \in 0..n /\ (i + 1) + 1 \in 1..Len(s)
          /\ ((i + 1) + 1) - 1 = i + 1 /\ (i + 1) - 1 = i
      BY <1>1, <1>6, <2>1
    <2>3. M[(i + 1) + 1] = Keep(M[i + 1], s[(i + 1) + 1])
      BY <1>3, <2>2
    <2>4. N[i + 1] = Keep(N[i], u[i + 1]) /\ u[i + 1] = s[(i + 1) + 1] /\ u[i + 1] \in R
      BY <1>1, <1>4, <2>2
    <2>5. N[i] \in Seq(R)
      BY <1>4, <2>1
    <2>6. Keep(Joined(p, N[i]), u[i + 1]) = Joined(p, Keep(N[i], u[i + 1]))
      BY <1>2, <2>4, <2>5, KeepAfter
    <2> QED BY <2>1, <2>2, <2>3, <2>4, <2>6
  <1>7. 0..n \subseteq Shifted
    <2> HIDE DEF Shifted
    <2> QED BY <1>1, <1>5, <1>6, Numbers
  <1>8. M[n + 1] = Joined(p, N[n])
    BY <1>1, <1>7
  <1>9. Messages(s) = M[n + 1] /\ Messages(u) = N[n]
    BY <1>1 DEF Messages, M, N, n
  <1> QED BY <1>8, <1>9 DEF u, p, Joined

-----------------------------------------------------------------------------
(* The log *)

LogRecord == {Setup} \cup LogMessage
LogLine == LogMessage \cup {LastBoot}
LogBuffer == [kind : {"Buffer", "Actual"}, data : Seq(LogMessage)]
LogFiles == [file : Seq(LogLine), bak : Seq(LogLine)]

LogType ==
    /\ lgPipe \in Seq(LogRecord)
    /\ lgReader \in {"none", "reads", "stopped"}
    /\ lgFile \in LogBuffer
    /\ lgDisk \in LogFiles
    /\ lgHas \in [LogThreads -> LogRecord \cup {NoRecord}]
    /\ lgOpen \in [Zygotes -> BOOLEAN]
    /\ lgSent \in [Writers -> Nat]

\* Nobody has the pipe before the daemon made it.
NotStarted ==
    lgReader = "none" =>
        lgPipe = <<>> /\ (\A t \in LogThreads : lgHas[t] = NoRecord) /\ (\A z \in Zygotes : ~lgOpen[z])

LogInv == LogType /\ NotStarted

LEMMA RecordsDiffer == Setup # NoRecord /\ \A m \in LogMessage : m # Setup /\ m # NoRecord
  <1>1. \A n \in 1..MaxSent : n # 0
    BY LogAssumption
  <1> QED BY <1>1 DEF Setup, NoRecord, LogMessage

\* A message numbered for its writer is one.
LEMMA NextMessage ==
    ASSUME LogType, NEW w \in Writers, lgSent[w] < MaxSent
    PROVE  <<w, lgSent[w] + 1>> \in LogMessage
  <1>1. lgSent[w] \in Nat
    BY DEF LogType
  <1>2. lgSent[w] + 1 \in 1..MaxSent
    BY <1>1, LogAssumption
  <1> QED BY <1>2 DEF LogMessage

\* The pipe keeps its records while the daemon reads, and is never given others.
LEMMA PipeKeeps ==
    \A pipe, reader, fd, has, open :
        /\ InPipe(pipe, reader, fd, has, open) \in {pipe, <<>>}
        /\ reader = "reads" => InPipe(pipe, reader, fd, has, open) = pipe
  BY DEF InPipe

-----------------------------------------------------------------------------

\* The invariant holds at the start, and every step keeps it.
LEMMA LogInvHolds == InitLog => LogInv
  <1> SUFFICES ASSUME InitLog PROVE LogInv
    OBVIOUS
  <1>1. <<LastBoot>> \in Seq(LogLine) /\ <<>> \in Seq(LogLine) /\ <<>> \in Seq(LogMessage) /\ <<>> \in Seq(LogRecord)
    BY DEF LogLine
  <1>2. lgFile \in LogBuffer /\ lgDisk \in LogFiles
    BY <1>1 DEF InitLog, Buffer, LogBuffer, LogFiles
  <1>3. LogType
    BY <1>1, <1>2 DEF InitLog, LogType
  <1>4. NotStarted
    BY DEF InitLog, NotStarted
  <1> QED BY <1>3, <1>4 DEF LogInv

LEMMA BufferType == Actual \in LogBuffer /\ \A d \in Seq(LogMessage) : Buffer(d) \in LogBuffer
  <1>1. <<>> \in Seq(LogMessage)
    OBVIOUS
  <1> QED BY <1>1 DEF Actual, Buffer, LogBuffer

LEMMA FilesType == \A f, b \in Seq(LogLine) : [file |-> f, bak |-> b] \in LogFiles
  BY DEF LogFiles

LEMMA LogInvStays == ASSUME LogInv, [NextLog]_logVars PROVE LogInv'
  <1> USE DEF LogInv, LogType
  <1>1. ASSUME NEW ok \in BOOLEAN, start_log_daemon(ok)
        PROVE  LogInv'
    BY <1>1 DEF start_log_daemon, NotStarted
  <1>2. ASSUME NEW t \in LogThreads, NEW record \in LogRecord, TakeFd(t, record)
        PROVE  LogInv'
    <2>1. lgHas' \in [LogThreads -> LogRecord \cup {NoRecord}]
      BY <1>2 DEF TakeFd
    <2> QED BY <1>2, <2>1 DEF TakeFd, NotStarted
  <1>3. ASSUME NEW t \in LogThreads, WriteRecord(t)
        PROVE  LogInv'
    <2>1. lgHas[t] \in LogRecord
      BY <1>3 DEF WriteRecord
    <2>2. lgHas' \in [LogThreads -> LogRecord \cup {NoRecord}]
      BY <1>3 DEF WriteRecord
    <2>3. lgSent' \in [Writers -> Nat]
      BY <1>3 DEF WriteRecord, Writers
    <2>4. Append(lgPipe, lgHas[t]) \in Seq(LogRecord) /\ <<>> \in Seq(LogRecord)
      BY <2>1
    <2>5. lgPipe' \in Seq(LogRecord)
      BY <1>3, <2>4 DEF WriteRecord, InPipe
    <2>6. lgReader' # "none"
      BY <1>3 DEF WriteRecord, NotStarted
    <2> QED BY <1>3, <2>2, <2>3, <2>5, <2>6 DEF WriteRecord, NotStarted
  <1>4. ASSUME NEW z \in Zygotes, zygisk_get_logd(z)
        PROVE  LogInv'
    BY <1>4 DEF zygisk_get_logd, NotStarted
  <1>5. ASSUME NEW z \in Zygotes, zygisk_log_to_pipe(z)
        PROVE  LogInv'
    <2>1. <<z, lgSent[z] + 1>> \in LogRecord
      <3>1. z \in Writers
        BY DEF Writers
      <3> QED BY <1>5, <3>1, NextMessage DEF zygisk_log_to_pipe, LogRecord
    <2>2. lgPipe' \in Seq(LogRecord)
      BY <1>5, <2>1 DEF zygisk_log_to_pipe
    <2>3. lgSent' \in [Writers -> Nat]
      BY <1>5 DEF zygisk_log_to_pipe, Writers
    <2> QED BY <1>5, <2>2, <2>3 DEF zygisk_log_to_pipe, NotStarted
  <1>6. ASSUME NEW z \in Zygotes, zygisk_close_logd(z)
        PROVE  LogInv'
    <2>1. lgPipe' \in Seq(LogRecord)
      <3>1. <<>> \in Seq(LogRecord)
        OBVIOUS
      <3> QED BY <1>6, <3>1 DEF zygisk_close_logd, InPipe
    <2> QED BY <1>6, <2>1 DEF zygisk_close_logd, NotStarted
  <1>7. ASSUME ReadSetup
        PROVE  LogInv'
    <2>1. Tail(lgPipe) \in Seq(LogRecord) /\ <<>> \in Seq(LogRecord)
      BY <1>7 DEF ReadSetup
    <2>2. lgPipe' \in Seq(LogRecord)
      BY <1>7, <2>1 DEF ReadSetup, StopLog, InPipe
    <2>3. lgReader' \in {"reads", "stopped"}
      BY <1>7 DEF ReadSetup, StopLog
    <2>4. lgFile' \in LogBuffer
      BY <1>7, BufferType DEF ReadSetup
    <2>5. lgDisk' \in LogFiles
      <3>1. lgFile.data \in Seq(LogMessage) /\ lgDisk.file \in Seq(LogLine)
        BY DEF LogBuffer, LogFiles
      <3>2. lgFile.data \in Seq(LogLine)
        BY <3>1, SeqMonotonic DEF LogLine
      <3>3. \A n \in 0..Len(lgFile.data) : SubSeq(lgFile.data, 1, n) \in Seq(LogLine)
        BY <3>2
      <3>4. \/ UNCHANGED lgDisk
            \/ lgDisk' = [file |-> lgFile.data, bak |-> lgDisk.file]
            \/ \E n \in 0..Len(lgFile.data) : lgDisk' = [file |-> SubSeq(lgFile.data, 1, n), bak |-> lgDisk.file]
        BY <1>7 DEF ReadSetup
      <3> QED BY <3>1, <3>2, <3>3, <3>4, FilesType
    <2> QED BY <1>7, <2>2, <2>3, <2>4, <2>5 DEF ReadSetup, NotStarted
  <1>8. ASSUME ReadMessage
        PROVE  LogInv'
    <2>1. Tail(lgPipe) \in Seq(LogRecord) /\ <<>> \in Seq(LogRecord) /\ Head(lgPipe) \in LogMessage
      BY <1>8 DEF ReadMessage, LogRecord
    <2>2. lgPipe' \in Seq(LogRecord)
      BY <1>8, <2>1 DEF ReadMessage, StopLog, InPipe
    <2>3. lgReader' \in {"reads", "stopped"}
      BY <1>8 DEF ReadMessage, StopLog
    <2>4. lgFile' \in LogBuffer
      <3>1. lgFile' = lgFile \/ lgFile' = Buffer(Append(lgFile.data, Head(lgPipe)))
        BY <1>8 DEF ReadMessage
      <3>2. Append(lgFile.data, Head(lgPipe)) \in Seq(LogMessage)
        BY <2>1 DEF LogBuffer
      <3> QED BY <3>1, <3>2, BufferType
    <2>5. lgDisk' \in LogFiles
      <3>1. lgDisk' = lgDisk \/ lgDisk' = [lgDisk EXCEPT !.file = Append(@, Head(lgPipe))]
        BY <1>8 DEF ReadMessage
      <3>2. Append(lgDisk.file, Head(lgPipe)) \in Seq(LogLine)
        BY <2>1 DEF LogFiles, LogLine
      <3> QED BY <3>1, <3>2 DEF LogFiles
    <2> QED BY <1>8, <2>2, <2>3, <2>4, <2>5 DEF ReadMessage, NotStarted
  <1>9. CASE UNCHANGED logVars
    BY <1>9 DEF logVars, NotStarted
  <1>10. ASSUME NEW t \in LogThreads, setup_logfile(t) \/ magisk_log_to_pipe(t)
         PROVE  LogInv'
    <2>1. CASE setup_logfile(t)
      BY <1>2, <2>1 DEF setup_logfile, LogRecord
    <2>2. CASE magisk_log_to_pipe(t)
      <3>1. t \in Writers
        BY DEF Writers
      <3>2. <<t, lgSent[t] + 1>> \in LogRecord
        BY <2>2, <3>1, NextMessage DEF magisk_log_to_pipe, LogRecord
      <3> QED BY <1>2, <2>2, <3>2 DEF magisk_log_to_pipe
    <2> QED BY <1>10, <2>1, <2>2
  <1> HIDE DEF LogInv, LogType
  <1> QED BY <1>1, <1>3, <1>4, <1>5, <1>6, <1>7, <1>8, <1>9, <1>10 DEF NextLog

-----------------------------------------------------------------------------
(* The refinement *)

\* The queue and the end of the abstract log, as LogImplementsSpec maps them.
Queue == IF lgReader = "stopped" THEN <<>> ELSE Messages(lgPipe)
Ended == lgReader = "stopped"

\* The steps of the abstract log.
Rests == UNCHANGED <<Queue, Log, Ended>>
Accepts == ~Ended /\ ~Ended' /\ (\E m \in LogMessage : Queue' = Append(Queue, m)) /\ Log' = Log
Records == ~Ended /\ ~Ended' /\ Queue # <<>> /\ Log' = Append(Log, Head(Queue)) /\ Queue' = Tail(Queue)
Ends == ~Ended /\ Ended' /\ Queue' = <<>> /\ \E n \in 0..Len(Log) : Log' = SubSeq(Log, 1, n)

LEMMA LogIsSequence == ASSUME LogType PROVE Log \in Seq(LogLine)
  <1>1. lgFile.data \in Seq(LogMessage) /\ lgDisk.file \in Seq(LogLine)
    BY DEF LogType, LogBuffer, LogFiles
  <1>2. lgFile.data \in Seq(LogLine)
    BY <1>1, SeqMonotonic DEF LogLine
  <1> QED BY <1>1, <1>2 DEF Log

\* An end that loses nothing of the log.
LEMMA EndsWhole == ASSUME LogType, ~Ended, Ended', Log' = Log PROVE Ends
  <1>1. Log \in Seq(LogLine)
    BY LogIsSequence
  <1>2. Len(Log) \in 0..Len(Log)
    BY <1>1
  <1>3. Log = SubSeq(Log, 1, Len(Log))
    BY <1>1, SubSeqFull
  <1>4. Queue' = <<>>
    BY DEF Queue, Ended
  <1> QED BY <1>2, <1>3, <1>4 DEF Ends

\* A record added to the pipe while there is a log.
LEMMA RecordAdded ==
    ASSUME LogType, NEW r \in LogRecord, lgReader = "reads", lgReader' = lgReader,
           lgPipe' = Append(lgPipe, r), lgFile' = lgFile, lgDisk' = lgDisk
    PROVE  Rests \/ Accepts
  <1>1. Queue' = Keep(Queue, r)
    BY MessagesOfAppend DEF Queue, LogType
  <1>2. Log' = Log /\ Ended' = Ended /\ ~Ended
    BY DEF Log, Ended
  <1>3. r = Setup \/ r \in LogMessage
    BY DEF LogRecord
  <1>4. CASE r = Setup
    BY <1>1, <1>2, <1>4 DEF Keep, Rests
  <1>5. CASE r # Setup
    BY <1>1, <1>2, <1>3, <1>5 DEF Keep, Accepts
  <1> QED BY <1>4, <1>5

\* A log that has ended is left alone.
LEMMA NothingAfterEnd ==
    ASSUME lgReader = "stopped", lgReader' = lgReader, lgFile' = lgFile, lgDisk' = lgDisk
    PROVE  Rests
  BY DEF Rests, Queue, Log, Ended

LEMMA LogSteps == ASSUME LogInv, [NextLog]_logVars PROVE Rests \/ Accepts \/ Records \/ Ends
  <1>0. LogType /\ NotStarted
    BY DEF LogInv
  <1>1. ASSUME NEW ok \in BOOLEAN, start_log_daemon(ok)
        PROVE  Rests \/ Ends
    <2>1. Log' = Log /\ lgPipe' = lgPipe /\ lgReader = "none"
      BY <1>1 DEF start_log_daemon, Log
    <2>2. CASE ok
      BY <1>1, <2>1, <2>2 DEF start_log_daemon, Rests, Queue, Ended
    <2>3. CASE ~ok
      BY <1>0, <1>1, <2>1, <2>3, EndsWhole DEF start_log_daemon, Ended
    <2> QED BY <2>2, <2>3
  <1>2. ASSUME NEW t \in LogThreads, setup_logfile(t) \/ magisk_log_to_pipe(t)
        PROVE  Rests
    BY <1>2 DEF setup_logfile, magisk_log_to_pipe, TakeFd, Rests, Queue, Log, Ended
  <1>3. ASSUME NEW t \in LogThreads, WriteRecord(t)
        PROVE  Rests \/ Accepts
    <2>1. lgHas[t] \in LogRecord /\ lgReader \in {"reads", "stopped"}
      BY <1>0, <1>3 DEF WriteRecord, LogType, NotStarted
    <2>2. lgReader' = lgReader /\ lgFile' = lgFile /\ lgDisk' = lgDisk
      BY <1>3 DEF WriteRecord
    <2>3. CASE lgReader = "reads"
      <3>1. lgPipe' = Append(lgPipe, lgHas[t])
        BY <1>3, <2>3 DEF WriteRecord, HasReader, InPipe
      <3> QED BY <1>0, <2>1, <2>2, <2>3, <3>1, RecordAdded
    <2>4. CASE lgReader = "stopped"
      BY <2>2, <2>4, NothingAfterEnd
    <2> QED BY <2>1, <2>3, <2>4
  <1>4. ASSUME NEW z \in Zygotes, zygisk_get_logd(z)
        PROVE  Rests
    BY <1>4 DEF zygisk_get_logd, Rests, Queue, Log, Ended
  <1>5. ASSUME NEW z \in Zygotes, zygisk_log_to_pipe(z)
        PROVE  Rests \/ Accepts
    <2>1. z \in Writers
      BY DEF Writers
    <2>2. <<z, lgSent[z] + 1>> \in LogRecord /\ lgReader \in {"reads", "stopped"}
      BY <1>0, <1>5, <2>1, NextMessage DEF zygisk_log_to_pipe, LogRecord, LogType, NotStarted
    <2>3. lgReader' = lgReader /\ lgFile' = lgFile /\ lgDisk' = lgDisk /\ lgPipe' = Append(lgPipe, <<z, lgSent[z] + 1>>)
      BY <1>5 DEF zygisk_log_to_pipe
    <2>4. CASE lgReader = "reads"
      BY <1>0, <2>2, <2>3, <2>4, RecordAdded
    <2>5. CASE lgReader = "stopped"
      BY <2>3, <2>5, NothingAfterEnd
    <2> QED BY <2>2, <2>4, <2>5
  <1>6. ASSUME NEW z \in Zygotes, zygisk_close_logd(z)
        PROVE  Rests
    <2>1. lgReader \in {"reads", "stopped"}
      BY <1>0, <1>6 DEF zygisk_close_logd, LogType, NotStarted
    <2>2. lgReader' = lgReader /\ lgFile' = lgFile /\ lgDisk' = lgDisk
      BY <1>6 DEF zygisk_close_logd
    <2>3. CASE lgReader = "reads"
      <3>1. lgPipe' = lgPipe
        BY <1>6, <2>3 DEF zygisk_close_logd, InPipe
      <3> QED BY <2>2, <3>1 DEF Rests, Queue, Log, Ended
    <2>4. CASE lgReader = "stopped"
      BY <2>2, <2>4, NothingAfterEnd
    <2> QED BY <2>1, <2>3, <2>4
  <1>7. ASSUME ReadSetup
        PROVE  Rests \/ Ends
    <2>1. lgReader = "reads" /\ lgPipe \in Seq(LogRecord) /\ lgPipe # <<>> /\ Head(lgPipe) = Setup
      BY <1>0, <1>7 DEF ReadSetup, LogType
    <2>2. Messages(lgPipe) = Messages(Tail(lgPipe))
      <3>1. Messages(lgPipe) = Keep(<<>>, Head(lgPipe)) \o Messages(Tail(lgPipe))
        BY <2>1, MessagesOfTail
      <3>2. Messages(Tail(lgPipe)) \in Seq(LogRecord)
        BY <2>1, MessagesOfNone, HeadTailProperties
      <3>3. Keep(<<>>, Head(lgPipe)) = <<>>
        BY <2>1 DEF Keep
      <3> QED BY <3>1, <3>2, <3>3, ConcatEmptySeq
    <2>3. CASE lgFile.kind = "Actual"
      BY <1>7, <2>1, <2>2, <2>3 DEF ReadSetup, Rests, Queue, Log, Ended
    <2>4. CASE lgFile.kind # "Actual"
      <3>1. lgFile.kind = "Buffer" /\ Log = lgFile.data
        BY <1>0, <2>4 DEF LogType, LogBuffer, Log
      <3>2. lgFile' = Actual /\ Log' = lgDisk'.file
        BY <1>7, <2>4 DEF ReadSetup, Actual, Log
      <3>3. CASE lgReader' = lgReader /\ lgPipe' = Tail(lgPipe) /\ lgDisk' = [file |-> lgFile.data, bak |-> lgDisk.file]
        BY <2>1, <2>2, <3>1, <3>2, <3>3 DEF Rests, Queue, Ended
      <3>4. CASE /\ lgReader' = "stopped"
                 /\ \E n \in 0..Len(lgFile.data) : lgDisk' = [file |-> SubSeq(lgFile.data, 1, n), bak |-> lgDisk.file]
        <4>1. \E n \in 0..Len(Log) : Log' = SubSeq(Log, 1, n)
          BY <3>1, <3>2, <3>4
        <4> QED BY <2>1, <3>4, <4>1 DEF Ends, Queue, Ended
      <3> QED BY <1>7, <2>4, <3>3, <3>4 DEF ReadSetup, StopLog
    <2> QED BY <2>3, <2>4
  <1>8. ASSUME ReadMessage
        PROVE  Records \/ Ends
    <2>1. lgReader = "reads" /\ lgPipe \in Seq(LogRecord) /\ lgPipe # <<>> /\ Head(lgPipe) # Setup
      BY <1>0, <1>8 DEF ReadMessage, LogType
    <2>2. Queue # <<>> /\ Head(Queue) = Head(lgPipe) /\ Tail(Queue) = Messages(Tail(lgPipe))
      <3>1. Messages(lgPipe) = Keep(<<>>, Head(lgPipe)) \o Messages(Tail(lgPipe))
        BY <2>1, MessagesOfTail
      <3>2. Messages(Tail(lgPipe)) \in Seq(LogRecord) /\ Head(lgPipe) \in LogRecord
        BY <2>1, MessagesOfNone, HeadTailProperties
      <3>3. Keep(<<>>, Head(lgPipe)) = <<Head(lgPipe)>>
        BY <2>1 DEF Keep
      <3>4. Queue = <<Head(lgPipe)>> \o Messages(Tail(lgPipe))
        BY <2>1, <3>1, <3>3 DEF Queue
      <3> QED BY <3>2, <3>4, FirstAndRest
    <2>3. CASE lgPipe' = Tail(lgPipe) /\ lgReader' = lgReader /\ lgFile.kind = "Buffer"
               /\ lgFile' = Buffer(Append(lgFile.data, Head(lgPipe)))
      BY <2>1, <2>2, <2>3 DEF Records, Queue, Log, Ended, Buffer
    <2>4. CASE lgPipe' = Tail(lgPipe) /\ lgReader' = lgReader /\ lgFile.kind # "Buffer" /\ lgFile' = lgFile
               /\ lgDisk' = [lgDisk EXCEPT !.file = Append(@, Head(lgPipe))]
      <3>1. lgDisk'.file = Append(lgDisk.file, Head(lgPipe))
        BY <1>0, <2>4 DEF LogType, LogFiles
      <3> QED BY <2>1, <2>2, <2>4, <3>1 DEF Records, Queue, Log, Ended
    <2>5. CASE lgReader' = "stopped" /\ lgFile' = lgFile /\ lgDisk' = lgDisk
      <3>1. Log' = Log
        BY <2>5 DEF Log
      <3> QED BY <1>0, <2>1, <2>5, <3>1, EndsWhole DEF Ended
    <2> QED BY <1>8, <2>3, <2>4, <2>5 DEF ReadMessage, StopLog
  <1>9. CASE UNCHANGED logVars
    BY <1>9 DEF logVars, Rests, Queue, Log, Ended
  <1> QED BY <1>1, <1>2, <1>3, <1>4, <1>5, <1>6, <1>7, <1>8, <1>9 DEF NextLog

\* The pipe, the buffer and the file of the daemon's log are one queue that is written to
\* one log, for any number of threads, processes, records in the pipe and messages
\* (logfile_write_loop, write_log_to_pipe, zygisk_log_to_pipe).
THEOREM LogRefines == SpecLog => LogImplementsSpec
  <1>1. InitLog => A!Init
    BY MessagesOfNone DEF InitLog, A!Init, Buffer, Log
  <1>2. LogInv /\ [NextLog]_logVars => [A!Next]_<<Queue, Log, Ended>>
    BY LogSteps DEF Rests, Accepts, Records, Ends, A!Next, A!Accept, A!Record, A!End, Queue, Ended
  <1>3. LogInv /\ [NextLog]_logVars => LogInv'
    BY LogInvStays
  <1> QED BY LogInvHolds, <1>1, <1>2, <1>3, PTL DEF SpecLog, LogImplementsSpec, A!Spec, Queue, Ended

-----------------------------------------------------------------------------
(* Persistent properties *)

PropPlaces == {"run", "add", "persist", "replace", "get", "find", "serial", "area", "read", "prop"}
AnyAsked == UNION {Asked(p) : p \in Procs}

PropType ==
    /\ rpStore \in PropStore
    /\ rpSeen \in [Procs -> PropStore]
    /\ rpPc \in [Procs -> PropPlaces]
    /\ rpTodo \in [Procs -> Seq(AnyAsked)]
    /\ rpGot = [p \in Procs |-> rpGot[p]]

\* What a process does is something it was asked for, and something of its kind.
OnTask ==
    \A p \in Procs :
        /\ rpTodo[p] \in Seq(Asked(p))
        /\ rpPc[p] # "run" => rpTodo[p] # <<>>
        /\ rpPc[p] = "add" => PropCommands[p].mode = "set"
        /\ rpPc[p] = "get" => Name(p) \in PersistProps
        /\ rpPc[p] \in {"persist", "replace"} =>
              /\ PropCommands[p].mode \in {"set", "delete"} /\ PropCommands[p].persist
              /\ Name(p) \in PersistProps

\* Every property stored was there at the start or asked for, and is still there if it was
\* and nobody takes it out.
Sound(store) ==
    \A k \in PersistProps :
        /\ store.props[k] \in Written(k) \cup {s.props[k] : s \in Stores}
        /\ k \notin Deleted /\ (\A s \in Stores : s.props[k] # NoProp) => store.props[k] # NoProp

\* So is every copy a process holds: it may be old.
CopiesSound == Sound(rpStore) /\ \A p \in Procs : Sound(rpSeen[p])

\* No copy differs from the storage where nobody writes.
CopiesAgree == \A p \in Procs : \A k \in PersistProps \ Touched : rpSeen[p].props[k] = rpStore.props[k]

PropInv == PropType /\ OnTask /\ CopiesSound /\ CopiesAgree

\* A change that may be made to the storage.
Allowed(k, v) == k \in PersistProps /\ k \in Touched /\ v \in Written(k) /\ v \in PropValues \cup {NoProp}
                 /\ (v = NoProp => k \in Deleted)

Changed(store, k, v) == [store EXCEPT !.props[k] = v]

\* A copy of the storage with one such change.
LEMMA StoreChanged ==
    ASSUME NEW store \in PropStore, Sound(store), NEW k, NEW v, Allowed(k, v)
    PROVE  /\ Changed(store, k, v) \in PropStore /\ Sound(Changed(store, k, v))
           /\ \A j \in PersistProps \ Touched : Changed(store, k, v).props[j] = store.props[j]
  <1> DEFINE new == Changed(store, k, v)
  <1>1. store.props \in [PersistProps -> PropValues \cup {NoProp}]
    BY DEF PropStore
  <1>2. k \in PersistProps /\ v \in PropValues \cup {NoProp}
    BY DEF Allowed
  <1>3. new = [proto |-> store.proto, props |-> [store.props EXCEPT ![k] = v]]
    BY DEF PropStore, Changed
  <1>4. new \in PropStore
    BY <1>1, <1>2, <1>3 DEF PropStore
  <1>5. \A j \in PersistProps : new.props[j] = IF j = k THEN v ELSE store.props[j]
    BY <1>1, <1>2, <1>3
  <1>6. Sound(new)
    BY <1>5 DEF Sound, Allowed
  <1>7. \A j \in PersistProps \ Touched : new.props[j] = store.props[j]
    BY <1>5 DEF Allowed
  <1> QED BY <1>4, <1>6, <1>7

\* What the next thing a changing process has to do is.
LEMMA NextAsked ==
    ASSUME PropInv, NEW p \in Procs, rpTodo[p] # <<>>, PropCommands[p].mode \in {"set", "delete"}
    PROVE  /\ Name(p) \in Touched /\ Value(p) \in Written(Name(p))
           /\ PropCommands[p].mode = "set" => Value(p) \in PropValues /\ Value(p) # NoProp
           /\ PropCommands[p].mode = "delete" => Value(p) = NoProp
           /\ PropCommands[p].mode = "delete" /\ PropCommands[p].persist => Name(p) \in Deleted
  <1>1. Head(rpTodo[p]) \in Asked(p)
    BY DEF PropInv, OnTask
  <1>2. PICK i \in DOMAIN PropCommands[p].list : Head(rpTodo[p]) = PropCommands[p].list[i]
    BY <1>1 DEF Asked
  <1>3. Head(rpTodo[p]) \in Changes
    BY <1>1 DEF Changes
  <1>4. Name(p) \in Touched /\ Value(p) \in Written(Name(p))
    BY <1>3 DEF Touched, Written, Name, Value
  <1>5. /\ PropCommands[p].mode = "set" => Value(p) \in PropValues /\ Value(p) # NoProp
        /\ PropCommands[p].mode = "delete" => Value(p) = NoProp
    BY <1>2, PropAssumption DEF Value, Procs
  <1>6. PropCommands[p].mode = "delete" /\ PropCommands[p].persist => Name(p) \in Deleted
    BY <1>1 DEF Deleted, Name
  <1> QED BY <1>4, <1>5, <1>6

\* What a step may do to the storage and to the copies of it.
LEMMA StoreSteps ==
    ASSUME PropInv, NextProp
    PROVE  \/ UNCHANGED <<rpStore, rpSeen>>
           \/ \E p \in Procs : rpSeen' = [rpSeen EXCEPT ![p] = rpStore] /\ UNCHANGED rpStore
           \/ /\ UNCHANGED rpSeen
              /\ \E k, v : /\ Allowed(k, v)
                           /\ \/ rpStore' = Changed(rpStore, k, v)
                              \/ \E p \in Procs : rpStore' = Changed(rpSeen[p], k, v)
  <1>1. ASSUME NEW p \in Procs, SetValue(p), rpStore' # rpStore
        PROVE  Allowed(Name(p), Value(p)) /\ rpStore' = Changed(rpStore, Name(p), Value(p))
               /\ UNCHANGED rpSeen
    <2>1. rpStore' = Changed(rpStore, Name(p), Value(p)) /\ Name(p) \in PersistProps
      BY <1>1 DEF SetValue, SvcStored, Changed
    <2>2. PropCommands[p].mode = "set" /\ rpTodo[p] # <<>>
      BY <1>1 DEF SetValue, Writing, PropInv, OnTask
    <2>3. Allowed(Name(p), Value(p))
      BY <2>1, <2>2, NextAsked DEF Allowed
    <2> QED BY <1>1, <2>1, <2>3 DEF SetValue
  <1>2. ASSUME NEW p \in Procs, PersistReplace(p)
        PROVE  /\ Allowed(Name(p), Target(p)) /\ UNCHANGED rpSeen
               /\ \/ rpStore' = Changed(rpStore, Name(p), Target(p))
                  \/ rpStore' = Changed(rpSeen[p], Name(p), Target(p))
    <2>1. /\ rpTodo[p] # <<>> /\ PropCommands[p].mode \in {"set", "delete"} /\ PropCommands[p].persist
          /\ Name(p) \in PersistProps
      BY <1>2 DEF PersistReplace, PropInv, OnTask
    <2>2. Allowed(Name(p), Target(p))
      BY <2>1, NextAsked DEF Allowed, Target
    <2> QED BY <1>2, <2>2 DEF PersistReplace, StoreFile, Changed
  <1>3. ASSUME NEW p \in Procs, PersistRead(p)
        PROVE  rpSeen' = [rpSeen EXCEPT ![p] = rpStore] /\ UNCHANGED rpStore
    BY <1>3 DEF PersistRead
  <1>4. ASSUME NEW p \in Procs,
               SetDelete(p) \/ DeleteValue(p) \/ PersistFails(p) \/ WaitStep(p) \/ GetProp(p) \/ GetPersist(p)
        PROVE  UNCHANGED <<rpStore, rpSeen>>
    BY <1>4 DEF SetDelete, DeleteValue, PersistFails, WaitStep, WaitStart, WaitFind, WaitSerial, WaitArea,
                WaitRead, WaitProp, GetProp, GetPersist
  <1>5. ASSUME OtherChanges
        PROVE  UNCHANGED <<rpStore, rpSeen>>
    BY <1>5 DEF OtherChanges
  <1>6. \A p \in Procs : SetValue(p) => UNCHANGED rpSeen
    BY DEF SetValue
  <1> QED BY <1>1, <1>2, <1>3, <1>4, <1>5, <1>6 DEF NextProp

\* The storage stays sound, and no copy of it leads astray.
LEMMA StoreStays ==
    ASSUME PropInv, NextProp
    PROVE  /\ rpStore' \in PropStore /\ rpSeen' \in [Procs -> PropStore] /\ CopiesSound' /\ CopiesAgree'
           /\ \A k \in PersistProps \ Touched : rpStore'.props[k] = rpStore.props[k]
  <1>1. PropType /\ CopiesSound /\ CopiesAgree
    BY DEF PropInv
  <1>2. CASE UNCHANGED <<rpStore, rpSeen>>
    BY <1>1, <1>2 DEF PropType, CopiesSound, CopiesAgree
  <1>3. ASSUME NEW p \in Procs, rpSeen' = [rpSeen EXCEPT ![p] = rpStore], UNCHANGED rpStore
        PROVE  /\ rpSeen' \in [Procs -> PropStore] /\ CopiesSound' /\ CopiesAgree'
    <2>1. rpSeen' \in [Procs -> PropStore] /\ \A q \in Procs : rpSeen'[q] = IF q = p THEN rpStore ELSE rpSeen[q]
      BY <1>1, <1>3 DEF PropType
    <2> QED BY <1>1, <1>3, <2>1 DEF CopiesSound, CopiesAgree
  <1>4. ASSUME UNCHANGED rpSeen, NEW k, NEW v, Allowed(k, v), NEW store \in PropStore, Sound(store),
               \A j \in PersistProps \ Touched : store.props[j] = rpStore.props[j],
               rpStore' = Changed(store, k, v)
        PROVE  /\ rpStore' \in PropStore /\ CopiesSound' /\ CopiesAgree'
               /\ \A j \in PersistProps \ Touched : rpStore'.props[j] = rpStore.props[j]
    <2>1. /\ rpStore' \in PropStore /\ Sound(rpStore')
          /\ \A j \in PersistProps \ Touched : rpStore'.props[j] = store.props[j]
      BY <1>4, StoreChanged
    <2>2. CopiesSound'
      BY <1>1, <1>4, <2>1 DEF CopiesSound
    <2>3. CopiesAgree'
      BY <1>1, <1>4, <2>1 DEF CopiesAgree
    <2> QED BY <1>4, <2>1, <2>2, <2>3
  <1>5. CASE \E p \in Procs : rpSeen' = [rpSeen EXCEPT ![p] = rpStore] /\ UNCHANGED rpStore
    BY <1>1, <1>3, <1>5 DEF PropType
  <1>6. CASE /\ UNCHANGED rpSeen
             /\ \E k, v : Allowed(k, v) /\ rpStore' = Changed(rpStore, k, v)
    BY <1>1, <1>4, <1>6 DEF PropType, CopiesSound
  <1>7. CASE /\ UNCHANGED rpSeen
             /\ \E k, v : Allowed(k, v) /\ \E p \in Procs : rpStore' = Changed(rpSeen[p], k, v)
    <2>1. PICK k, v : Allowed(k, v) /\ \E p \in Procs : rpStore' = Changed(rpSeen[p], k, v)
      BY <1>7
    <2>2. PICK p \in Procs : rpStore' = Changed(rpSeen[p], k, v)
      BY <2>1
    <2>3. /\ rpSeen[p] \in PropStore /\ Sound(rpSeen[p])
          /\ \A j \in PersistProps \ Touched : rpSeen[p].props[j] = rpStore.props[j]
      BY <1>1 DEF PropType, CopiesSound, CopiesAgree
    <2>4. /\ rpStore' \in PropStore /\ CopiesSound' /\ CopiesAgree'
          /\ \A j \in PersistProps \ Touched : rpStore'.props[j] = rpStore.props[j]
      BY <1>4, <1>7, <2>1, <2>2, <2>3
    <2> QED BY <1>1, <1>7, <2>4 DEF PropType
  <1> QED BY <1>2, <1>5, <1>6, <1>7, StoreSteps

\* A process goes on with what it was asked for.
LEMMA TaskStays ==
    ASSUME PropInv, NextProp
    PROVE  /\ rpPc' \in [Procs -> PropPlaces] /\ rpTodo' \in [Procs -> Seq(AnyAsked)]
           /\ rpGot' = [p \in Procs |-> rpGot'[p]] /\ OnTask'
  <1>1. PropType /\ OnTask
    BY DEF PropInv
  <1>2. ASSUME NEW p \in Procs, NEW place \in PropPlaces, Goto(p, place), UNCHANGED rpTodo, rpTodo[p] # <<>>,
               place = "add" => PropCommands[p].mode = "set",
               place = "get" => Name(p) \in PersistProps,
               place \in {"persist", "replace"} =>
                   /\ PropCommands[p].mode \in {"set", "delete"} /\ PropCommands[p].persist
                   /\ Name(p) \in PersistProps
        PROVE  rpPc' \in [Procs -> PropPlaces] /\ rpTodo' \in [Procs -> Seq(AnyAsked)] /\ OnTask'
    <2>1. rpPc' \in [Procs -> PropPlaces] /\ \A q \in Procs : rpPc'[q] = IF q = p THEN place ELSE rpPc[q]
      BY <1>1, <1>2 DEF PropType, Goto
    <2> QED BY <1>1, <1>2, <2>1 DEF PropType, OnTask, Name
  <1>3. ASSUME NEW p \in Procs, Advance(p), rpTodo[p] # <<>>
        PROVE  rpPc' \in [Procs -> PropPlaces] /\ rpTodo' \in [Procs -> Seq(AnyAsked)] /\ OnTask'
    <2>1. rpPc' \in [Procs -> PropPlaces] /\ \A q \in Procs : rpPc'[q] = IF q = p THEN "run" ELSE rpPc[q]
      BY <1>1, <1>3 DEF PropType, Advance, Goto, PropPlaces
    <2>2. Tail(rpTodo[p]) \in Seq(AnyAsked) /\ Tail(rpTodo[p]) \in Seq(Asked(p))
      BY <1>1, <1>3 DEF PropType, OnTask
    <2>3. rpTodo' \in [Procs -> Seq(AnyAsked)]
          /\ \A q \in Procs : rpTodo'[q] = IF q = p THEN Tail(rpTodo[p]) ELSE rpTodo[q]
      BY <1>1, <1>3, <2>2 DEF PropType, Advance
    <2> QED BY <1>1, <2>1, <2>2, <2>3 DEF OnTask, Name
  <1>4. ASSUME NEW p \in Procs, SetDelete(p) \/ SetValue(p) \/ DeleteValue(p)
        PROVE  rpPc' \in [Procs -> PropPlaces] /\ rpTodo' \in [Procs -> Seq(AnyAsked)] /\ OnTask'
    <2>1. /\ rpTodo[p] # <<>> /\ PropCommands[p].mode \in {"set", "delete"}
          /\ SetDelete(p) => PropCommands[p].mode = "set"
      BY <1>1, <1>4 DEF SetDelete, SetValue, DeleteValue, Writing, OnTask
    <2>2. \/ Advance(p)
          \/ SetDelete(p) /\ Goto(p, "add") /\ UNCHANGED rpTodo
          \/ Goto(p, "persist") /\ UNCHANGED rpTodo /\ PropCommands[p].persist /\ Name(p) \in PersistProps
      BY <1>4 DEF SetDelete, SetValue, DeleteValue, Persists
    <2> QED BY <1>2, <1>3, <2>1, <2>2 DEF PropPlaces
  <1>5. ASSUME NEW p \in Procs, PersistRead(p) \/ PersistReplace(p) \/ PersistFails(p)
        PROVE  rpPc' \in [Procs -> PropPlaces] /\ rpTodo' \in [Procs -> Seq(AnyAsked)] /\ OnTask'
    <2>1. /\ rpTodo[p] # <<>> /\ PropCommands[p].mode \in {"set", "delete"} /\ PropCommands[p].persist
          /\ Name(p) \in PersistProps
      BY <1>1, <1>5 DEF PersistRead, PersistReplace, PersistFails, OnTask, PropType, PropPlaces
    <2>2. Advance(p) \/ (Goto(p, "replace") /\ UNCHANGED rpTodo)
      BY <1>5 DEF PersistRead, PersistReplace, PersistFails
    <2> QED BY <1>2, <1>3, <2>1, <2>2 DEF PropPlaces
  <1>6. ASSUME NEW p \in Procs, GetProp(p) \/ GetPersist(p)
        PROVE  rpPc' \in [Procs -> PropPlaces] /\ rpTodo' \in [Procs -> Seq(AnyAsked)] /\ OnTask'
    <2>1. rpTodo[p] # <<>>
      BY <1>1, <1>6 DEF GetProp, GetPersist, OnTask
    <2>2. Advance(p) \/ (Goto(p, "get") /\ UNCHANGED rpTodo /\ Name(p) \in PersistProps)
      BY <1>6 DEF GetProp, GetPersist
    <2> QED BY <1>2, <1>3, <2>1, <2>2 DEF PropPlaces
  <1>7. ASSUME NEW p \in Procs, WaitStep(p)
        PROVE  rpPc' \in [Procs -> PropPlaces] /\ rpTodo' \in [Procs -> Seq(AnyAsked)] /\ OnTask'
    <2>1. rpTodo[p] # <<>>
      BY <1>1, <1>7 DEF WaitStep, WaitStart, WaitFind, WaitSerial, WaitArea, WaitRead, WaitProp, Waiting, OnTask
    <2>2. Advance(p) \/ \E place \in {"find", "serial", "area", "read", "prop"} : Goto(p, place) /\ UNCHANGED rpTodo
      BY <1>7 DEF WaitStep, WaitStart, WaitFind, WaitSerial, WaitArea, WaitRead, WaitProp
    <2> QED BY <1>2, <1>3, <2>1, <2>2 DEF PropPlaces
  <1>8. CASE OtherChanges
    BY <1>1, <1>8 DEF OtherChanges, PropType, OnTask, Name
  <1>9. rpPc' \in [Procs -> PropPlaces] /\ rpTodo' \in [Procs -> Seq(AnyAsked)] /\ OnTask'
    BY <1>4, <1>5, <1>6, <1>7, <1>8 DEF NextProp
  <1>10. rpGot' = [p \in Procs |-> rpGot'[p]]
    <2>1. rpGot' = rpGot \/ \E p \in Procs : \E v : rpGot' = [rpGot EXCEPT ![p] = v]
      BY DEF NextProp, SetDelete, SetValue, DeleteValue, PersistRead, PersistReplace, PersistFails, GetProp,
             GetPersist, WaitStep, WaitStart, WaitFind, WaitSerial, WaitArea, WaitRead, WaitProp, OtherChanges
    <2> QED BY <1>1, <2>1 DEF PropType
  <1> QED BY <1>9, <1>10

LEMMA PropInvHolds == InitProp => PropInv
  <1> SUFFICES ASSUME InitProp PROVE PropInv
    OBVIOUS
  <1>1. rpStore \in PropStore /\ rpStore \in Stores
    BY PropAssumption DEF InitProp
  <1>2. \A p \in Procs : rpTodo[p] \in Seq(Asked(p)) /\ rpTodo[p] \in Seq(AnyAsked)
    <2> SUFFICES ASSUME NEW p \in Procs
                 PROVE  PropCommands[p].list \in Seq(Asked(p)) /\ PropCommands[p].list \in Seq(AnyAsked)
      BY DEF InitProp
    <2> DEFINE l == PropCommands[p].list
    <2>1. l \in Seq(PropNames \X (PropValues \cup {NoProp, NoOld}))
      BY PropAssumption DEF Procs, PropCommand
    <2>2. \A i \in 1..Len(l) : l[i] \in Asked(p) /\ l[i] \in AnyAsked
      BY <2>1 DEF Asked, AnyAsked
    <2> HIDE DEF l
    <2>3. l \in Seq(Asked(p)) /\ l \in Seq(AnyAsked)
      BY <2>1, <2>2
    <2> QED BY <2>3 DEF l
  <1>3. PropType
    BY <1>1, <1>2 DEF InitProp, PropType, PropPlaces
  <1>4. OnTask
    BY <1>2 DEF InitProp, OnTask
  <1>5. CopiesSound
    BY <1>1 DEF InitProp, CopiesSound, Sound
  <1>6. CopiesAgree
    BY DEF InitProp, CopiesAgree
  <1> QED BY <1>3, <1>4, <1>5, <1>6 DEF PropInv

LEMMA PropInvStays == ASSUME PropInv, [NextProp]_propVars PROVE PropInv'
  <1>1. CASE NextProp
    BY <1>1, StoreStays, TaskStays DEF PropInv, PropType
  <1>2. CASE UNCHANGED propVars
    BY <1>2 DEF propVars, PropInv, PropType, OnTask, Name, CopiesSound, CopiesAgree
  <1> QED BY <1>1, <1>2

\* What PersistIntact says of a step.
LEMMA StepIntact ==
    ASSUME PropInv, NextProp
    PROVE  /\ \A k \in PersistProps : rpStore.props[k] # rpStore'.props[k] =>
                k \in Touched /\ rpStore'.props[k] \in Written(k) \cup {s.props[k] : s \in Stores}
           /\ \A p \in Procs : GetPersist(p) /\ Name(p) \notin Deleted
                                /\ (\A s \in Stores : s.props[Name(p)] # NoProp) => rpGot'[p] # NoProp
  <1>1. \A k \in PersistProps : rpStore'.props[k] \in Written(k) \cup {s.props[k] : s \in Stores}
    <2>1. Sound(rpStore')
      BY StoreStays DEF CopiesSound
    <2> QED BY <2>1 DEF Sound
  <1>2. \A k \in PersistProps : k \notin Touched => rpStore'.props[k] = rpStore.props[k]
    BY StoreStays
  <1>3. ASSUME NEW p \in Procs, GetPersist(p), Name(p) \notin Deleted, \A s \in Stores : s.props[Name(p)] # NoProp
        PROVE  rpGot'[p] # NoProp
    <2>1. Name(p) \in PersistProps
      BY <1>3 DEF GetPersist, PropInv, OnTask
    <2>2. rpStore.props[Name(p)] # NoProp
      BY <1>3, <2>1 DEF PropInv, CopiesSound, Sound
    <2>3. rpGot'[p] = rpStore.props[Name(p)]
      BY <1>3 DEF GetPersist, PropInv, PropType
    <2> QED BY <2>2, <2>3
  <1> QED BY <1>1, <1>2, <1>3

\* Whichever processes write persistent properties at once, and whichever is killed half
\* way, what nobody writes keeps its value, what is written gets an old value or one asked
\* for, and a reader misses nothing that stays stored, for any commands and stores
\* (persist_set_prop, proto_write_props, persist_get_prop).
THEOREM PersistSafe == SpecProp => PersistIntact
  <1>1. PropInv /\ [NextProp]_propVars => PropInv'
    BY PropInvStays
  <1>2. PropInv /\ [NextProp]_propVars =>
          [/\ \A k \in PersistProps : rpStore.props[k] # rpStore'.props[k] =>
                k \in Touched /\ rpStore'.props[k] \in Written(k) \cup {s.props[k] : s \in Stores}
           /\ \A p \in Procs : GetPersist(p) /\ Name(p) \notin Deleted
                                /\ (\A s \in Stores : s.props[Name(p)] # NoProp) => rpGot'[p] # NoProp]_propVars
    BY StepIntact
  <1> QED BY PropInvHolds, <1>1, <1>2, PTL DEF SpecProp, PersistIntact

-----------------------------------------------------------------------------
(* The terminal of an interactive shell *)

PumpEvent == [fd : {"ptmx", "signal", "stdin"}, in : BOOLEAN, hup : BOOLEAN]

PumpType ==
    /\ ptPc \in {"start", "open", "poll", "serve", "signal", "restore", "done"}
    /\ ptStdin \in Seq(TtyBytes) /\ ptStdout \in Seq(TtyBytes)
    /\ ptShellIn \in Seq(TtyBytes) /\ ptPtmx \in Seq(TtyBytes)
    /\ ptShell \in {"runs", "exited"} /\ ptUser \in {"there", "left"}
    /\ ptTerm \in {"own", "raw"} /\ ptSaved \in BOOLEAN
    /\ ptWinch \in BOOLEAN /\ ptMissed \in BOOLEAN
    /\ ptEvents \in Seq(PumpEvent)
    /\ ptEnd \in {"none", "hup", "err"}

\* What was taken from either end is at the other.
Carried ==
    /\ ptPipe = <<>>
    /\ ptShellIn \o ptStdin = SubSeq(Typed, 1, Len(ptShellIn) + Len(ptStdin))
    /\ ptStdout \o ptPtmx = SubSeq(Printed, 1, Len(ptStdout) + Len(ptPtmx))

AllShown == (ptShell = "exited" /\ ptPtmx = <<>>) \/ ptUser = "left"

\* A hang-up poll saw without data stays one: nobody types or prints any more.
EventsHold ==
    /\ ptPc \in {"serve", "signal"} => ptEvents # <<>>
    /\ \A i \in 1..Len(ptEvents) : ~ptEvents[i].in => AllShown

HangUpHolds == ptEnd = "hup" => AllShown

SizeKnown ==
    /\ ptPc \in {"open", "signal"} /\ ~ptMissed => ptPtySize = ptSize
    /\ ptPc \in {"poll", "serve"} /\ ~ptWinch /\ ~ptMissed => ptPtySize = ptSize

TermSaved == (ptTerm = "raw" => ptSaved) /\ (ptPc = "done" => ptTerm = "own")

PumpInv == PumpType /\ Carried /\ EventsHold /\ HangUpHolds /\ SizeKnown /\ TermSaved

\* The next byte of a text comes after those before it.
LEMMA ByteAdded ==
    ASSUME NEW R, NEW text \in Seq(R), NEW sent \in Seq(R), NEW q \in Seq(R),
           sent \o q = SubSeq(text, 1, Len(sent) + Len(q)), Len(sent \o q) < Len(text),
           NEW new, new = Append(q, text[Len(sent \o q) + 1])
    PROVE  new \in Seq(R) /\ sent \o new = SubSeq(text, 1, Len(sent) + Len(new))
  <1> DEFINE k == Len(sent) + Len(q)
  <1>1. sent \o q \in Seq(R) /\ Len(sent \o q) = k /\ k \in Nat /\ k + 1 \in 1..Len(text) /\ 1 \in 1..Len(text)
    <2>1. sent \o q \in Seq(R) /\ Len(sent \o q) = k
      BY ConcatProperties, Zenon
    <2>2. k \in Nat /\ k < Len(text) /\ Len(text) \in Nat
      BY <2>1
    <2> QED BY <2>1, <2>2
  <1> DEFINE b == text[k + 1]
  <1>2. b \in R /\ <<b>> \in Seq(R) /\ new = Append(q, b)
    BY <1>1, ElementOfSeq
  <1>3. new \in Seq(R) /\ new = q \o <<b>> /\ Len(new) = Len(q) + 1
    BY <1>2, AppendIsConcat, AppendProperties
  <1>4. sent \o new = (sent \o q) \o <<b>>
    BY <1>2, <1>3, ConcatAssociative, SMTT(30)
  <1>5. SubSeq(text, 1, k + 1) = SubSeq(text, 1, (k + 1) - 1) \o <<b>>
    BY <1>1, SubSeqRecursiveSecond
  <1>6. (k + 1) - 1 = k /\ Len(sent) + Len(new) = k + 1
    BY <1>1, <1>3
  <1> QED BY <1>3, <1>4, <1>5, <1>6

\* What is moved from src to what was sent leaves their order.
LEMMA BytesMoved ==
    \A sent, out, rest \in Seq(TtyBytes) :
        /\ Joined(sent, out) \in Seq(TtyBytes)
        /\ Joined(Joined(sent, out), rest) = Joined(sent, Joined(out, rest))
        /\ Len(Joined(sent, out)) + Len(rest) = Len(sent) + Len(Joined(out, rest))
  <1> TAKE sent, out, rest \in Seq(TtyBytes)
  <1>1. sent \o out \in Seq(TtyBytes) /\ Len(sent \o out) = Len(sent) + Len(out)
    BY ConcatProperties
  <1>2. Len(out \o rest) = Len(out) + Len(rest)
    BY ConcatProperties
  <1>3. (sent \o out) \o rest = sent \o (out \o rest)
    BY ConcatAssociative
  <1> QED BY <1>1, <1>2, <1>3 DEF Joined

\* Whichever way the bytes take, they come out and the pipe is empty.
LEMMA PumpedWhole ==
    ASSUME ptPipe = <<>>, NEW src \in Seq(TtyBytes), NEW n \in AtOnce(src), NEW r \in Pumped(src, n)
    PROVE  /\ r.pipe = <<>> /\ r.out \in Seq(TtyBytes) /\ r.src \in Seq(TtyBytes)
           /\ src = Joined(r.out, r.src) /\ src # <<>>
  <1>1. n \in 1..Len(src) /\ n <= TTY_MAX /\ Len(src) \in Nat
    BY PumpSizes DEF AtOnce
  <1>2. n <= COPY_MAX
    BY <1>1, PumpSizes
  <1> DEFINE first == SubSeq(src, 1, n)
             rest == SubSeq(src, n + 1, Len(src))
  <1>3. first \in Seq(TtyBytes) /\ rest \in Seq(TtyBytes) /\ Len(first) = n
    BY <1>1
  <1>4. first \o rest = src
    <2>1. first \o rest = SubSeq(src, 1, Len(src))
      BY <1>1, ConcatAdjacentSubSeq
    <2> QED BY <2>1, SubSeqFull
  <1>5. ptPipe \o first = first
    BY <1>3, ConcatEmptySeq
  <1>6. SubSeq(first, n + 1, Len(first)) = <<>> /\ SubSeq(first, 1, n) = first
    BY <1>1, <1>3, SubSeqEmpty, SubSeqFull
  <1>7. r.src = rest /\ r.pipe = <<>> /\ r.out = first
    <2>1. \/ r = [src |-> rest, pipe |-> ptPipe, out |-> first, splice |-> FALSE]
          \/ r = [src |-> rest, pipe |-> SubSeq(ptPipe \o first, n + 1, Len(ptPipe \o first)),
                  out |-> SubSeq(ptPipe \o first, 1, n), splice |-> TRUE]
          \/ r = [src |-> rest, pipe |-> SubSeq(ptPipe \o first, n + 1, Len(ptPipe \o first)),
                  out |-> SubSeq(ptPipe \o first, 1, n), splice |-> FALSE]
      BY <1>2 DEF Pumped
    <2>2. \/ r = [src |-> rest, pipe |-> <<>>, out |-> first, splice |-> FALSE]
          \/ r = [src |-> rest, pipe |-> <<>>, out |-> first, splice |-> TRUE]
      BY <1>5, <1>6, <2>1
    <2> HIDE DEF first, rest
    <2> QED BY <2>2
  <1> QED BY <1>1, <1>3, <1>4, <1>7 DEF Joined

\* What poll reports of the descriptors.
LEMMA FdsReported ==
    ASSUME PumpType
    PROVE  Fds \in Seq(PumpEvent) /\ \A i \in 1..Len(Fds) : ~Fds[i].in => AllShown
  <1> DEFINE Good == {x \in PumpEvent : ~x.in => AllShown}
             r1 == Reported("ptmx", ptPtmx # <<>>, ptShell = "exited")
             r2 == Reported("signal", ptWinch, FALSE)
             r3 == Reported("stdin", ptStdin # <<>>, ptUser = "left")
  <1>1. ASSUME NEW fd \in {"ptmx", "signal", "stdin"}, NEW in \in BOOLEAN, NEW hup \in BOOLEAN,
               hup /\ ~in => AllShown
        PROVE  Reported(fd, in, hup) \in Seq(Good)
    <2> DEFINE x == [fd |-> fd, in |-> in, hup |-> hup]
    <2>1. x \in PumpEvent /\ x.in = in
      BY DEF PumpEvent
    <2>2. CASE in \/ hup
      <3>1. x \in Good
        BY <1>1, <2>1, <2>2
      <3>2. Reported(fd, in, hup) = <<x>>
        BY <2>2 DEF Reported
      <3> HIDE DEF x, Good
      <3> QED BY <3>1, <3>2
    <2>3. CASE ~(in \/ hup)
      BY <2>3 DEF Reported
    <2> QED BY <2>2, <2>3
  <1> HIDE DEF Good
  <1>2. r1 \in Seq(Good)
    <2>1. (ptPtmx # <<>>) \in BOOLEAN /\ (ptShell = "exited") \in BOOLEAN
      OBVIOUS
    <2>2. ptShell = "exited" /\ ~(ptPtmx # <<>>) => AllShown
      BY DEF AllShown
    <2> QED BY <1>1, <2>1, <2>2
  <1>3. r2 \in Seq(Good)
    BY <1>1 DEF PumpType
  <1>4. r3 \in Seq(Good)
    <2>1. (ptStdin # <<>>) \in BOOLEAN /\ (ptUser = "left") \in BOOLEAN
      OBVIOUS
    <2>2. ptUser = "left" /\ ~(ptStdin # <<>>) => AllShown
      BY DEF AllShown
    <2> QED BY <1>1, <2>1, <2>2
  <1>5. Fds \in Seq(Good)
    BY <1>2, <1>3, <1>4, ConcatProperties DEF Fds
  <1>6. Seq(Good) \subseteq Seq(PumpEvent) /\ \A x \in Good : ~x.in => AllShown
    <2>1. Good \subseteq PumpEvent
      BY DEF Good
    <2> QED BY <2>1, SeqMonotonic DEF Good
  <1>7. \A i \in 1..Len(Fds) : Fds[i] \in Good
    BY <1>5, ElementOfSeq
  <1> QED BY <1>5, <1>6, <1>7

LEMMA PumpInvHolds == InitPump => PumpInv
  <1> SUFFICES ASSUME InitPump PROVE PumpInv
    OBVIOUS
  <1>1. PumpType
    <2>1. ptSaved \in BOOLEAN /\ ptWinch \in BOOLEAN /\ ptMissed \in BOOLEAN
      BY Zenon DEF InitPump
    <2>2. <<>> \in Seq(TtyBytes) /\ <<>> \in Seq(PumpEvent)
      OBVIOUS
    <2> QED BY <2>1, <2>2 DEF InitPump, PumpType
  <1>2. Carried
    <2>1. <<>> \o <<>> = <<>> /\ Len(<<>>) + Len(<<>>) = 0
      OBVIOUS
    <2>2. SubSeq(Typed, 1, 0) = <<>> /\ SubSeq(Printed, 1, 0) = <<>>
      BY SubSeqEmpty
    <2> QED BY <2>1, <2>2 DEF InitPump, Carried
  <1> QED BY <1>1, <1>2 DEF InitPump, PumpInv, EventsHold, HangUpHolds, SizeKnown, TermSaved

\* The steps that move bytes, and what they leave alone.
LEMMA BytesSafe ==
    ASSUME PumpInv, [NextPump]_pumpVars
    PROVE  /\ ptStdin' \in Seq(TtyBytes) /\ ptStdout' \in Seq(TtyBytes)
           /\ ptShellIn' \in Seq(TtyBytes) /\ ptPtmx' \in Seq(TtyBytes)
           /\ Carried'
           /\ ptShell = "exited" /\ ptPtmx = <<>> => ptPtmx' = <<>>
  <1>0. PumpType /\ Carried
    BY DEF PumpInv
  <1>1. CASE Type
    <2>1. /\ Len(ptShellIn \o ptStdin) < Len(Typed) /\ ptStdin' = Append(ptStdin, Typed[Len(ptShellIn \o ptStdin) + 1])
          /\ UNCHANGED <<ptStdout, ptShellIn, ptPtmx, ptPipe>>
      BY <1>1 DEF Type
    <2>2. /\ ptStdin' \in Seq(TtyBytes)
          /\ ptShellIn \o ptStdin' = SubSeq(Typed, 1, Len(ptShellIn) + Len(ptStdin'))
      BY <1>0, <2>1, ByteAdded, PumpText DEF PumpType, Carried
    <2> QED BY <1>0, <2>1, <2>2 DEF PumpType, Carried
  <1>2. CASE PrintMore
    <2>1. /\ Len(ptStdout \o ptPtmx) < Len(Printed) /\ ptPtmx' = Append(ptPtmx, Printed[Len(ptStdout \o ptPtmx) + 1])
          /\ UNCHANGED <<ptStdout, ptShellIn, ptStdin, ptPipe>> /\ ptShell = "runs"
      BY <1>2 DEF PrintMore
    <2>2. /\ ptPtmx' \in Seq(TtyBytes)
          /\ ptStdout \o ptPtmx' = SubSeq(Printed, 1, Len(ptStdout) + Len(ptPtmx'))
      BY <1>0, <2>1, ByteAdded, PumpText, SMTT(30) DEF PumpType, Carried
    <2> QED BY <1>0, <2>1, <2>2 DEF PumpType, Carried
  <1>3. CASE UNCHANGED pumpData
    BY <1>0, <1>3 DEF pumpData, PumpType, Carried
  <1>4. ASSUME NEW n \in AtOnce(ptPtmx), NEW r \in Pumped(ptPtmx, n),
               ptPtmx' = r.src, ptPipe' = r.pipe, ptStdout' = ptStdout \o r.out, UNCHANGED <<ptStdin, ptShellIn>>
        PROVE  /\ ptStdout' \in Seq(TtyBytes) /\ ptPtmx' \in Seq(TtyBytes) /\ Carried' /\ ptPtmx # <<>>
    <2>1. /\ r.pipe = <<>> /\ r.out \in Seq(TtyBytes) /\ r.src \in Seq(TtyBytes)
          /\ ptPtmx = Joined(r.out, r.src) /\ ptPtmx # <<>>
      BY <1>0, PumpedWhole DEF PumpType, Carried
    <2>2. /\ ptStdout' \in Seq(TtyBytes) /\ ptStdout' \o ptPtmx' = ptStdout \o ptPtmx
          /\ Len(ptStdout') + Len(ptPtmx') = Len(ptStdout) + Len(ptPtmx)
      <3>1. ptStdout \in Seq(TtyBytes)
        BY <1>0 DEF PumpType
      <3>2. /\ Joined(ptStdout, r.out) \in Seq(TtyBytes)
            /\ Joined(Joined(ptStdout, r.out), r.src) = Joined(ptStdout, ptPtmx)
            /\ Len(Joined(ptStdout, r.out)) + Len(r.src) = Len(ptStdout) + Len(ptPtmx)
        <4>1. /\ Joined(ptStdout, r.out) \in Seq(TtyBytes)
              /\ Joined(Joined(ptStdout, r.out), r.src) = Joined(ptStdout, Joined(r.out, r.src))
              /\ Len(Joined(ptStdout, r.out)) + Len(r.src) = Len(ptStdout) + Len(Joined(r.out, r.src))
          BY <2>1, <3>1, BytesMoved
        <4> QED BY <2>1, <4>1
      <3> QED BY <1>4, <3>2 DEF Joined
    <2> QED BY <1>0, <1>4, <2>1, <2>2 DEF Carried
  <1>5. ASSUME NEW n \in AtOnce(ptStdin), NEW r \in Pumped(ptStdin, n),
               ptStdin' = r.src, ptPipe' = r.pipe, ptShellIn' = ptShellIn \o r.out, UNCHANGED <<ptPtmx, ptStdout>>
        PROVE  /\ ptShellIn' \in Seq(TtyBytes) /\ ptStdin' \in Seq(TtyBytes) /\ Carried'
    <2>1. /\ r.pipe = <<>> /\ r.out \in Seq(TtyBytes) /\ r.src \in Seq(TtyBytes)
          /\ ptStdin = Joined(r.out, r.src)
      BY <1>0, PumpedWhole DEF PumpType, Carried
    <2>2. /\ ptShellIn' \in Seq(TtyBytes) /\ ptShellIn' \o ptStdin' = ptShellIn \o ptStdin
          /\ Len(ptShellIn') + Len(ptStdin') = Len(ptShellIn) + Len(ptStdin)
      <3>1. ptShellIn \in Seq(TtyBytes)
        BY <1>0 DEF PumpType
      <3>2. /\ Joined(ptShellIn, r.out) \in Seq(TtyBytes)
            /\ Joined(Joined(ptShellIn, r.out), r.src) = Joined(ptShellIn, ptStdin)
            /\ Len(Joined(ptShellIn, r.out)) + Len(r.src) = Len(ptShellIn) + Len(ptStdin)
        <4>1. /\ Joined(ptShellIn, r.out) \in Seq(TtyBytes)
              /\ Joined(Joined(ptShellIn, r.out), r.src) = Joined(ptShellIn, Joined(r.out, r.src))
              /\ Len(Joined(ptShellIn, r.out)) + Len(r.src) = Len(ptShellIn) + Len(Joined(r.out, r.src))
          BY <2>1, <3>1, BytesMoved
        <4> QED BY <2>1, <4>1
      <3> QED BY <1>5, <3>2 DEF Joined
    <2> QED BY <1>0, <1>5, <2>1, <2>2 DEF Carried
  <1>6. CASE PumpOutput
    <2>1. CASE \E n \in AtOnce(ptPtmx) : \E r \in Pumped(ptPtmx, n) :
                  /\ ptPtmx' = r.src /\ ptPipe' = r.pipe /\ ptStdout' = ptStdout \o r.out
                  /\ UNCHANGED <<ptStdin, ptShellIn>>
      BY <1>0, <1>4, <2>1 DEF PumpType
    <2> QED BY <1>3, <1>6, <2>1 DEF PumpOutput
  <1>7. CASE PumpInput
    <2>1. CASE \E n \in AtOnce(ptStdin) : \E r \in Pumped(ptStdin, n) :
                  /\ ptStdin' = r.src /\ ptPipe' = r.pipe /\ ptShellIn' = ptShellIn \o r.out
                  /\ UNCHANGED <<ptPtmx, ptStdout>>
      BY <1>0, <1>5, <2>1 DEF PumpType
    <2> QED BY <1>3, <1>7, <2>1 DEF PumpInput
  <1>8. CASE UNCHANGED pumpVars
    BY <1>3, <1>8 DEF pumpVars
  <1>9. CASE StartPump \/ OpenPump \/ Poll \/ SyncWinsize \/ ReadSignal \/ StopPolling \/ Restore \/ Resize
             \/ ShellExits \/ UserLeaves
    <2>1. UNCHANGED pumpData
      BY <1>9 DEF StartPump, OpenPump, Poll, SyncWinsize, ReadSignal, StopPolling, Restore, Resize, ShellExits, UserLeaves
    <2> QED BY <1>3, <2>1
  <1> QED BY <1>1, <1>2, <1>6, <1>7, <1>8, <1>9 DEF NextPump, PumpStep

\* What has been shown to the end stays so.
LEMMA ShownStays == ASSUME PumpInv, [NextPump]_pumpVars, AllShown PROVE AllShown'
  <1>1. ptShell = "exited" => ptShell' = "exited"
    BY DEF NextPump, PumpStep, Type, PrintMore, Resize, ShellExits, UserLeaves, StartPump, OpenPump, Poll, PumpOutput,
           PumpInput, SyncWinsize, ReadSignal, StopPolling, Restore, pumpPeers, pumpVars
  <1>2. ptUser = "left" => ptUser' = "left"
    BY DEF NextPump, PumpStep, Type, PrintMore, Resize, ShellExits, UserLeaves, StartPump, OpenPump, Poll, PumpOutput,
           PumpInput, SyncWinsize, ReadSignal, StopPolling, Restore, pumpPeers, pumpVars
  <1> QED BY <1>1, <1>2, BytesSafe DEF AllShown

\* A loop that goes on, and one that ends.
LEMMA EventsServed ==
    ASSUME PumpInv, [NextPump]_pumpVars, ptPc \in {"serve", "signal"}, GoOn \/ \E why : Leave(why)
    PROVE  /\ ptEvents' \in Seq(PumpEvent)
           /\ ptPc' \in {"serve", "signal"} => ptEvents' # <<>>
           /\ \A i \in 1..Len(ptEvents') : ~ptEvents'[i].in => AllShown
  <1>1. ptEvents \in Seq(PumpEvent) /\ ptEvents # <<>> /\ \A i \in 1..Len(ptEvents) : ~ptEvents[i].in => AllShown
    BY DEF PumpInv, PumpType, EventsHold
  <1>2. CASE GoOn
    <2>1. /\ ptEvents' = Tail(ptEvents) /\ Tail(ptEvents) \in Seq(PumpEvent)
          /\ Len(Tail(ptEvents)) = Len(ptEvents) - 1
          /\ \A i \in 1..Len(Tail(ptEvents)) : Tail(ptEvents)[i] = ptEvents[i + 1] /\ i + 1 \in 1..Len(ptEvents)
      BY <1>1, <1>2 DEF GoOn
    <2>2. \A i \in 1..Len(ptEvents') : ~ptEvents'[i].in => AllShown
      BY <1>1, <2>1
    <2>3. ptPc' \in {"serve", "signal"} => Len(ptEvents) # 1
      BY <1>2 DEF GoOn
    <2>4. ptPc' \in {"serve", "signal"} => ptEvents' # <<>>
      <3>1. Len(ptEvents) \in Nat /\ Len(ptEvents) # 0
        BY <1>1
      <3>2. Len(ptEvents) # 1 => Len(Tail(ptEvents)) # 0
        BY <2>1, <3>1
      <3>3. Len(<<>>) = 0
        OBVIOUS
      <3> QED BY <2>1, <2>3, <3>2, <3>3
    <2> QED BY <2>1, <2>2, <2>4
  <1>3. CASE \E why : Leave(why)
    <2>1. ptEvents' = <<>> /\ ptPc' = "restore"
      BY <1>3 DEF Leave
    <2> QED BY <2>1
  <1> QED BY <1>2, <1>3

LEMMA EventsStay ==
    ASSUME PumpInv, [NextPump]_pumpVars
    PROVE  ptEvents' \in Seq(PumpEvent) /\ EventsHold'
  <1>0. PumpType /\ EventsHold
    BY DEF PumpInv
  <1>1. CASE PumpOutput \/ PumpInput \/ ReadSignal \/ StopPolling
    <2>1. ptPc \in {"serve", "signal"} /\ (GoOn \/ \E why : Leave(why))
      BY <1>1 DEF PumpOutput, PumpInput, ReadSignal, StopPolling, Serving
    <2>2. /\ ptEvents' \in Seq(PumpEvent) /\ (ptPc' \in {"serve", "signal"} => ptEvents' # <<>>)
          /\ \A i \in 1..Len(ptEvents') : ~ptEvents'[i].in => AllShown
      BY <2>1, EventsServed
    <2> QED BY <2>2, ShownStays DEF EventsHold
  <1>2. CASE Poll
    <2>1. ptEvents' = Fds /\ Fds # <<>>
      BY <1>2 DEF Poll
    <2>2. Fds \in Seq(PumpEvent) /\ \A i \in 1..Len(Fds) : ~Fds[i].in => AllShown
      BY <1>0, FdsReported
    <2> QED BY <2>1, <2>2, ShownStays DEF EventsHold
  <1>3. CASE UNCHANGED ptEvents /\ (ptPc' \in {"serve", "signal"} => ptPc \in {"serve", "signal"})
    BY <1>0, <1>3, ShownStays DEF PumpType, EventsHold
  <1>4. CASE UNCHANGED pumpVars \/ StartPump \/ OpenPump \/ SyncWinsize \/ Restore \/ Type \/ PrintMore \/ Resize
             \/ ShellExits \/ UserLeaves
    <2>1. UNCHANGED ptEvents /\ (ptPc' \in {"serve", "signal"} => ptPc \in {"serve", "signal"})
      BY <1>4 DEF pumpVars, StartPump, OpenPump, SyncWinsize, Restore, Type, PrintMore, Resize, ShellExits, UserLeaves,
                  Serving
    <2> QED BY <1>3, <2>1
  <1> QED BY <1>1, <1>2, <1>4 DEF NextPump, PumpStep

LEMMA HangUpStays == ASSUME PumpInv, [NextPump]_pumpVars PROVE HangUpHolds' /\ ptEnd' \in {"none", "hup", "err"}
  <1>0. PumpType /\ EventsHold /\ HangUpHolds
    BY DEF PumpInv
  <1>1. CASE StopPolling
    <2>1. ptEnd' = "hup" /\ ptPc = "serve" /\ ~Head(ptEvents).in
      BY <1>1 DEF StopPolling, Leave
    <2>2. ptEvents # <<>> /\ 1 \in 1..Len(ptEvents) /\ Head(ptEvents) = ptEvents[1]
      BY <1>0, <2>1 DEF EventsHold, PumpType
    <2>3. AllShown
      BY <1>0, <2>1, <2>2 DEF EventsHold
    <2> QED BY <2>1, <2>3, ShownStays DEF HangUpHolds
  <1>2. CASE ptEnd' \in {ptEnd, "err"}
    BY <1>0, <1>2, ShownStays DEF HangUpHolds, PumpType
  <1>3. CASE UNCHANGED pumpVars \/ StartPump \/ OpenPump \/ Poll \/ PumpOutput \/ PumpInput \/ SyncWinsize \/ ReadSignal
             \/ Restore \/ Type \/ PrintMore \/ Resize \/ ShellExits \/ UserLeaves
    <2>1. ptEnd' \in {ptEnd, "err"}
      BY <1>3 DEF pumpVars, StartPump, OpenPump, Poll, PumpOutput, PumpInput, SyncWinsize, ReadSignal, Restore, Type,
                  PrintMore, Resize, ShellExits, UserLeaves, Leave, GoOn
    <2> QED BY <1>2, <2>1
  <1> QED BY <1>1, <1>3 DEF NextPump, PumpStep

\* The rest of the state: where the loop is, the peers, the terminal and the window.
LEMMA TerminalStays ==
    ASSUME PumpInv, [NextPump]_pumpVars
    PROVE  /\ ptPc' \in {"start", "open", "poll", "serve", "signal", "restore", "done"}
           /\ ptShell' \in {"runs", "exited"} /\ ptUser' \in {"there", "left"}
           /\ ptTerm' \in {"own", "raw"} /\ ptSaved' \in BOOLEAN /\ ptWinch' \in BOOLEAN /\ ptMissed' \in BOOLEAN
           /\ SizeKnown' /\ TermSaved'
  <1>0. PumpType /\ SizeKnown /\ TermSaved
    BY DEF PumpInv
  <1> USE DEF PumpType, SizeKnown, TermSaved, pumpTerm, pumpSize, pumpPeers
  <1>1. CASE StartPump
    BY <1>0, <1>1 DEF StartPump
  <1>2. CASE OpenPump
    BY <1>0, <1>2 DEF OpenPump
  <1>3. CASE Poll
    BY <1>0, <1>3 DEF Poll
  <1>4. CASE PumpOutput
    BY <1>0, <1>4 DEF PumpOutput, Serving, GoOn, Leave
  <1>5. CASE PumpInput
    BY <1>0, <1>5 DEF PumpInput, Serving, GoOn, Leave
  <1>6. CASE SyncWinsize
    BY <1>0, <1>6 DEF SyncWinsize
  <1>7. CASE ReadSignal
    BY <1>0, <1>7 DEF ReadSignal, GoOn
  <1>8. CASE StopPolling
    BY <1>0, <1>8 DEF StopPolling, Leave
  <1>9. CASE Restore
    BY <1>0, <1>9 DEF Restore
  <1>10. CASE Resize
    <2>1. (ptWinch' \in BOOLEAN) /\ (ptMissed' \in BOOLEAN)
      <3>1. ptWinch' = (ptPc \notin {"start", "open"}) /\ ptMissed' = (ptPc \in {"open", "signal"})
        BY <1>10 DEF Resize
      <3>2. (ptPc \notin {"start", "open"}) \in BOOLEAN /\ (ptPc \in {"open", "signal"}) \in BOOLEAN
        OBVIOUS
      <3> QED BY <3>1, <3>2
    <2>2. (ptWinch' <=> ptPc \notin {"start", "open"}) /\ (ptMissed' <=> ptPc \in {"open", "signal"})
      BY <1>10, Zenon DEF Resize
    <2>3. UNCHANGED <<ptPc, ptTerm, ptSaved, ptPtySize, ptShell, ptUser>>
      BY <1>10 DEF Resize
    <2> QED BY <1>0, <2>1, <2>2, <2>3
  <1>11. CASE Type \/ PrintMore
    BY <1>0, <1>11 DEF Type, PrintMore
  <1>12. CASE ShellExits \/ UserLeaves
    BY <1>0, <1>12 DEF ShellExits, UserLeaves
  <1>13. CASE UNCHANGED pumpVars
    BY <1>0, <1>13 DEF pumpVars
  <1> HIDE DEF PumpType, SizeKnown, TermSaved
  <1> QED BY <1>1, <1>2, <1>3, <1>4, <1>5, <1>6, <1>7, <1>8, <1>9, <1>10, <1>11, <1>12, <1>13 DEF NextPump, PumpStep

\* Both directions are carried whole and in order, the shell's last words are shown, a
\* resize reaches it and the terminal gets its attributes back, for any text typed and
\* printed, any sizes of the buffers and of the window (pump_tty, pump_via_splice,
\* sync_winsize, restore_stdin).
THEOREM PumpSafe == SpecPump => []PumpFaithful
  <1>1. PumpInv /\ [NextPump]_pumpVars => PumpInv'
    BY BytesSafe, EventsStay, HangUpStays, TerminalStays DEF PumpInv, PumpType
  <1>2. PumpInv => PumpFaithful
    BY DEF PumpInv, Carried, HangUpHolds, AllShown, SizeKnown, TermSaved, PumpFaithful
  <1> QED BY PumpInvHolds, <1>1, <1>2, PTL DEF SpecPump
=============================================================================
