-------------------------- MODULE ThreadPoolProofs --------------------------
(***************************************************************************)
(* Proofs about ThreadPool for any number of threads and tasks, any        *)
(* max_queue and any number of faults: first what keeps the queue and its  *)
(* threads going, then that a task is neither lost nor run twice.          *)
(***************************************************************************)
EXTENDS ThreadPool, FiniteSetTheorems, SequenceTheorems, TLAPS

\* Only a task that is not the exit task reaches the list of done tasks.
FinishedTask == \A th \in Threads : pc[th] = "finished" => cur[th] # ExitTask

\* The check against max_queue holds at every time, not only at a post.
WaitingBound == waiting <= MaxQueue

(* Every exit task destroy has waited for has ended a thread, and so has   *)
(* the one whose lock is already open.                                     *)
ThreadsEnded ==
    /\ n <= Cardinality(At({"gone"}))
    /\ loop = "spin" /\ ~lock => n < Cardinality(At({"gone"}))
    /\ loop = "destroyed" => n = Cardinality(Threads)

IInv == /\ TypeOK
        /\ FinishedTask
        /\ WaitingAccounting
        /\ WaitingBound
        /\ NoLostWakeup
        /\ ThreadsEnded

\* 1 if x is in S, else 0: how much x counts in a cardinality of S.
Count(x, S) == IF x \in S THEN 1 ELSE 0

-----------------------------------------------------------------------------
(* Counting threads by their position *)

\* The threads at a set of positions can be counted, and are no more than all.
LEMMA AtFinite ==
    ASSUME NEW S
    PROVE  /\ IsFiniteSet(At(S))
           /\ Cardinality(At(S)) \in Nat
           /\ Cardinality(Threads) \in Nat
           /\ Cardinality(At(S)) <= Cardinality(Threads)
  <1>1. At(S) \subseteq Threads
    BY Zenon DEF At
  <1>2. QED
    BY <1>1, ThreadPoolAssumption, FS_Subset, FS_CardinalityType, Zenon

\* A thread that moves leaves one count and enters another.
LEMMA MoveOne ==
    ASSUME pc \in [Threads -> PCs], NEW th \in Threads, NEW l, Goto(th, l), NEW S
    PROVE  Cardinality(At(S)') = Cardinality(At(S)) - Count(pc[th], S) + Count(l, S)
  <1> DEFINE R == At(S) \ {th}
  <1>1. pc'[th] = l /\ \A u \in Threads \ {th} : pc'[u] = pc[u]
    BY Zenon DEF Goto
  <1>2. At(S) = (IF pc[th] \in S THEN R \cup {th} ELSE R)
    BY Zenon DEF At
  <1>3. At(S)' = (IF l \in S THEN R \cup {th} ELSE R)
    BY <1>1 DEF At
  <1>4. IsFiniteSet(R) /\ Cardinality(R) \in Nat
    BY AtFinite, FS_Subset, FS_CardinalityType, Zenon
  <1>5. Cardinality(R \cup {th}) = Cardinality(R) + 1
    BY <1>4, FS_AddElement, Zenon
  <1> HIDE DEF R
  <1>6. Cardinality(At(S)) = Cardinality(R) + Count(pc[th], S)
    BY <1>2, <1>4, <1>5 DEF Count
  <1>7. Cardinality(At(S)') = Cardinality(R) + Count(l, S)
    BY <1>3, <1>4, <1>5 DEF Count
  <1>8. QED
    BY <1>4, <1>6, <1>7 DEF Count

\* Nobody moves: nothing is counted differently.
LEMMA MoveNone == ASSUME UNCHANGED pc, NEW S PROVE At(S)' = At(S)
  BY Zenon DEF At

\* A thread that does not go to sleep wakes nobody else up or asleep.
LEMMA Sleepers ==
    ASSUME pc \in [Threads -> PCs], NEW th \in Threads, NEW l, Goto(th, l), l # "wait"
    PROVE  At({"wait"})' \subseteq At({"wait"})
  BY Zenon DEF At, Goto, PCs

\* The counts the invariant is about, when one thread moves.
LEMMA Counts ==
    ASSUME pc \in [Threads -> PCs], NEW th \in Threads, NEW l, Goto(th, l)
    PROVE  /\ Cardinality(Idle') = Cardinality(Idle)
                  - Count(pc[th], {"wait", "ready"}) + Count(l, {"wait", "ready"})
           /\ Cardinality(At({"ready"})') = Cardinality(At({"ready"}))
                  - Count(pc[th], {"ready"}) + Count(l, {"ready"})
           /\ Cardinality(At({"gone"})') = Cardinality(At({"gone"}))
                  - Count(pc[th], {"gone"}) + Count(l, {"gone"})
           /\ Cardinality(Idle) \in Nat
           /\ Cardinality(At({"ready"})) \in Nat
           /\ Cardinality(At({"gone"})) \in Nat
  BY MoveOne, AtFinite, Zenon DEF Idle

-----------------------------------------------------------------------------
(* Each conjunct of the inductive invariant is preserved *)

\* Setting or clearing event.active of a task keeps it a flag.
LEMMA FlagType ==
    ASSUME active \in [AllTasks -> BOOLEAN], NEW t, NEW b \in BOOLEAN
    PROVE  [active EXCEPT ![t] = b] \in [AllTasks -> BOOLEAN]
  BY ZenonT(40)

\* A task enters the queue: types, count, bound and wakeup.
LEMMA EnqueueInv ==
    ASSUME TypeOK, WaitingAccounting, NoLostWakeup,
           NEW t \in AllTasks, Enqueue(t), UNCHANGED leak
    PROVE  /\ queue' \in Seq(AllTasks) /\ waiting' \in Int
           /\ active' \in [AllTasks -> BOOLEAN] /\ pc' \in [Threads -> PCs]
           /\ WaitingAccounting' /\ WaitingBound' /\ NoLostWakeup'
           /\ At({"gone"})' = At({"gone"})
           /\ \A th \in Threads : pc'[th] = "finished" => pc[th] = "finished"
  <1>1. /\ queue' \in Seq(AllTasks) /\ Len(queue') = Len(queue) + 1 /\ Len(queue) \in Nat
        /\ waiting' \in Int /\ active' \in [AllTasks -> BOOLEAN] /\ leak \in Nat
    BY DEF TypeOK, Enqueue
  <1>w. waiting \in Int
    BY Zenon DEF TypeOK
  <1>2. WaitingBound'
    BY ThreadPoolAssumption DEF WaitingBound, Enqueue, TypeOK
  <1>3. CASE At({"wait"}) = {} /\ UNCHANGED pc
    <2>1. Idle' = Idle /\ At({"wait"})' = {} /\ At({"gone"})' = At({"gone"})
      BY <1>3, MoveNone, Zenon DEF Idle
    <2>2. Cardinality(Idle) \in Nat
      BY AtFinite, Zenon DEF Idle
    <2>3. WaitingAccounting'
      BY <1>1, <2>1, <2>2 DEF WaitingAccounting, Enqueue
    <2>4. NoLostWakeup'
      BY <2>1, Zenon DEF NoLostWakeup
    <2>5. QED
      BY <1>1, <1>2, <1>3, <2>1, <2>3, <2>4, Zenon DEF TypeOK
  <1>4. ASSUME NEW th \in At({"wait"}), Goto(th, "ready")
        PROVE  /\ WaitingAccounting' /\ NoLostWakeup' /\ pc' \in [Threads -> PCs]
               /\ At({"gone"})' = At({"gone"})
               /\ \A u \in Threads : pc'[u] = "finished" => pc[u] = "finished"
    <2>1. th \in Threads /\ pc[th] = "wait" /\ pc \in [Threads -> PCs]
      BY <1>4, Zenon DEF At, TypeOK
    <2>2. /\ Cardinality(Idle') = Cardinality(Idle)
          /\ Cardinality(At({"ready"})') = Cardinality(At({"ready"})) + 1
          /\ Cardinality(Idle) \in Nat /\ Cardinality(At({"ready"})) \in Nat
      BY <1>4, <2>1, Counts DEF Count
    <2>3. WaitingAccounting'
      BY SMTT(40), <1>1, <2>2, <1>w DEF WaitingAccounting, Enqueue
    <2>4. NoLostWakeup'
      BY <1>1, <1>4, <2>2 DEF NoLostWakeup
    <2>5. /\ pc' \in [Threads -> PCs]
          /\ At({"gone"})' = At({"gone"})
          /\ \A u \in Threads : pc'[u] = "finished" => pc[u] = "finished"
      BY <1>4, <2>1, Zenon DEF Goto, PCs, At
    <2>6. QED
      BY <2>3, <2>4, <2>5, Zenon
  <1>5. QED
    BY <1>1, <1>2, <1>3, <1>4, Zenon DEF Enqueue

\* A thread takes the first task, coming from the top of its loop or a wait.
LEMMA DequeueInv ==
    ASSUME IInv, NEW th \in Threads, Dequeue(th) \/ Sleep(th), UNCHANGED leak,
           \/ pc[th] = "enter" /\ waiting' = waiting - 1
           \/ pc[th] = "ready" /\ waiting' = waiting
    PROVE  /\ queue' \in Seq(AllTasks) /\ cur' \in [Threads -> AllTasks]
           /\ waiting' \in Int /\ pc' \in [Threads -> PCs]
           /\ WaitingAccounting' /\ WaitingBound' /\ NoLostWakeup'
           /\ Cardinality(At({"gone"})') = Cardinality(At({"gone"}))
           /\ FinishedTask'
  <1>1. /\ pc \in [Threads -> PCs] /\ queue \in Seq(AllTasks) /\ Len(queue) \in Nat
        /\ waiting \in Int /\ leak \in Nat /\ cur \in [Threads -> AllTasks]
    BY DEF IInv, TypeOK
  <1>2. waiting' \in Int /\ WaitingBound'
    BY <1>1, ThreadPoolAssumption DEF IInv, WaitingBound
  <1>3. CASE Dequeue(th)
    <2>1. /\ queue' \in Seq(AllTasks) /\ Len(queue') = Len(queue) - 1
          /\ Head(queue) \in AllTasks
      BY <1>1, <1>3 DEF Dequeue
    <2>2. cur' \in [Threads -> AllTasks] /\ pc' \in [Threads -> PCs]
      BY <1>1, <1>3, <2>1, Zenon DEF Dequeue, Goto, PCs
    <2>3. Goto(th, "run") /\ pc[th] \in {"enter", "ready"}
      BY <1>3, Zenon DEF Dequeue
    <2>4. /\ Cardinality(Idle') = Cardinality(Idle) - Count(pc[th], {"ready"})
          /\ Cardinality(At({"ready"})') = Cardinality(At({"ready"})) - Count(pc[th], {"ready"})
          /\ Cardinality(At({"gone"})') = Cardinality(At({"gone"}))
          /\ Cardinality(Idle) \in Nat /\ Cardinality(At({"ready"})) \in Nat
      BY <1>1, <2>3, Counts DEF Count
    <2>5. WaitingAccounting'
      BY SMTT(40), <1>1, <2>1, <2>4 DEF IInv, WaitingAccounting, Count
    <2>6. At({"wait"})' \subseteq At({"wait"})
      BY <1>1, <2>3, Sleepers, Zenon
    <2>7. NoLostWakeup'
      BY <1>1, <2>1, <2>3, <2>4, <2>6 DEF IInv, NoLostWakeup, Count
    <2>8. FinishedTask'
      BY <1>1, <1>3, Zenon DEF IInv, FinishedTask, Dequeue, Goto
    <2>9. QED
      BY <1>2, <2>1, <2>2, <2>4, <2>5, <2>7, <2>8, Zenon
  <1>4. CASE Sleep(th)
    <2>1. queue' = queue /\ cur' = cur /\ Len(queue) = 0
      BY <1>1, <1>4, Zenon DEF Sleep
    <2>2. Goto(th, "wait") /\ pc[th] \in {"enter", "ready"} /\ pc' \in [Threads -> PCs]
      BY <1>1, <1>4, Zenon DEF Sleep, Goto, PCs
    <2>3. /\ Cardinality(Idle') = Cardinality(Idle) + 1 - Count(pc[th], {"ready"})
          /\ Cardinality(At({"ready"})') = Cardinality(At({"ready"})) - Count(pc[th], {"ready"})
          /\ Cardinality(At({"gone"})') = Cardinality(At({"gone"}))
          /\ Cardinality(Idle) \in Nat /\ Cardinality(At({"ready"})) \in Nat
      BY <1>1, <2>2, Counts DEF Count
    <2>4. WaitingAccounting'
      BY <1>1, <2>1, <2>3 DEF IInv, WaitingAccounting, Count
    <2>5. Cardinality(At({"ready"})') \in Nat
      <3>1. Cardinality(At({"ready"}))' \in Nat
        <4>1. At({"ready"})' \subseteq Threads
          BY Zenon DEF At
        <4>2. QED
          BY <4>1, ThreadPoolAssumption, FS_Subset, FS_CardinalityType, Zenon
      <3>2. QED
        BY <3>1, Zenon
    <2>6. NoLostWakeup'
      BY <2>1, <2>5 DEF NoLostWakeup
    <2>7. FinishedTask'
      BY <1>1, <2>1, <2>2, Zenon DEF IInv, FinishedTask, Goto
    <2>8. QED
      BY <1>1, <1>2, <2>1, <2>2, <2>3, <2>4, <2>6, <2>7, Zenon
  <1>5. QED
    BY <1>3, <1>4, Zenon

\* A thread that runs a task moves: the queue and its counts are untouched.
LEMMA BusyMove ==
    ASSUME IInv, NEW th \in Threads, pc[th] \in {"enter", "run", "finished", "notify"},
           NEW l \in {"enter", "finished", "notify", "gone"}, Goto(th, l),
           UNCHANGED <<queue, waiting, cur, leak>>,
           l = "finished" => cur[th] # ExitTask
    PROVE  /\ pc' \in [Threads -> PCs]
           /\ FinishedTask' /\ WaitingAccounting' /\ WaitingBound' /\ NoLostWakeup'
           /\ Cardinality(At({"gone"})') = Cardinality(At({"gone"})) + Count(l, {"gone"})
  <1>1. pc \in [Threads -> PCs] /\ waiting \in Int /\ leak \in Nat /\ Len(queue) \in Nat
    BY DEF IInv, TypeOK
  <1>2. /\ Cardinality(Idle') = Cardinality(Idle)
        /\ Cardinality(At({"ready"})') = Cardinality(At({"ready"}))
        /\ Cardinality(At({"gone"})') = Cardinality(At({"gone"})) + Count(l, {"gone"})
    BY <1>1, Counts DEF Count
  <1>3. At({"wait"})' \subseteq At({"wait"})
    BY <1>1, Sleepers, Zenon
  <1>4. pc' \in [Threads -> PCs] /\ FinishedTask'
    BY <1>1, Zenon DEF IInv, FinishedTask, Goto, PCs
  <1>5. WaitingAccounting' /\ WaitingBound'
    BY <1>1, <1>2, Zenon DEF IInv, WaitingAccounting, WaitingBound
  <1>6. NoLostWakeup'
    BY <1>1, <1>2, <1>3, Zenon DEF IInv, NoLostWakeup
  <1>7. QED
    BY <1>2, <1>4, <1>5, <1>6, Zenon

\* Threads only leave: what destroy has waited for stays true.
LEMMA EndedStays ==
    ASSUME IInv, UNCHANGED <<loop, n, lock>>, 
           Cardinality(At({"gone"})') \in {Cardinality(At({"gone"})), Cardinality(At({"gone"})) + 1}
    PROVE  ThreadsEnded'
  <1>1. n \in Nat /\ Cardinality(At({"gone"})) \in Nat
    BY AtFinite DEF IInv, TypeOK
  <1>2. QED
    BY <1>1 DEF IInv, ThreadsEnded

\* The steps of a thread preserve the inductive invariant.
LEMMA ThreadInv ==
    ASSUME IInv, NEW th \in Threads, ThreadStep(th)
    PROVE  IInv'
  <1>1. CASE Enter(th) \/ Recheck(th)
    <2>1. /\ Dequeue(th) \/ Sleep(th)
          /\ UNCHANGED <<active, done, notified, loop, batch, n, lock, faults, leak, stuck>>
          /\ \/ pc[th] = "enter" /\ waiting' = waiting - 1
             \/ pc[th] = "ready" /\ waiting' = waiting
      BY <1>1, Zenon DEF Enter, Recheck
    <2>2. /\ queue' \in Seq(AllTasks) /\ cur' \in [Threads -> AllTasks]
          /\ waiting' \in Int /\ pc' \in [Threads -> PCs]
          /\ WaitingAccounting' /\ WaitingBound' /\ NoLostWakeup'
          /\ Cardinality(At({"gone"})') = Cardinality(At({"gone"}))
          /\ FinishedTask'
      BY <2>1, DequeueInv, Zenon
    <2>3. TypeOK'
      BY <2>1, <2>2, Zenon DEF IInv, TypeOK
    <2>4. ThreadsEnded'
      BY <2>1, <2>2, EndedStays, Zenon
    <2>5. QED
      BY <2>2, <2>3, <2>4, Zenon DEF IInv
  <1>2. CASE Run(th) /\ cur[th] = ExitTask
    <2>1. /\ pc[th] = "run" /\ Goto(th, "gone") /\ lock' = FALSE
          /\ UNCHANGED <<queue, waiting, active, cur, done, notified, loop, batch, n,
                         faults, leak, stuck>>
      BY <1>2, Zenon DEF Run
    <2>2. /\ pc' \in [Threads -> PCs]
          /\ FinishedTask' /\ WaitingAccounting' /\ WaitingBound' /\ NoLostWakeup'
          /\ Cardinality(At({"gone"})') = Cardinality(At({"gone"})) + 1
      BY <2>1, BusyMove, Zenon DEF Count
    <2>3. TypeOK'
      BY ZenonT(40), <2>1, <2>2 DEF IInv, TypeOK
    <2>4. n \in Nat /\ Cardinality(At({"gone"})) \in Nat
      BY AtFinite DEF IInv, TypeOK
    <2>5. ThreadsEnded'
      BY <2>1, <2>2, <2>4 DEF IInv, ThreadsEnded
    <2>6. QED
      BY <2>2, <2>3, <2>5, Zenon DEF IInv
  <1>3. CASE (Run(th) /\ cur[th] # ExitTask) \/ Finish(th) \/ Notify(th)
    <2>1. /\ UNCHANGED <<queue, waiting, active, cur, loop, batch, n, lock, faults, leak, stuck>>
          /\ \/ pc[th] = "run" /\ Goto(th, "finished") /\ cur[th] # ExitTask
             \/ pc[th] = "finished" /\ Goto(th, "notify")
             \/ pc[th] = "notify" /\ Goto(th, "enter")
      BY <1>3, Zenon DEF Run, Finish, Notify
    <2>2. /\ pc' \in [Threads -> PCs]
          /\ FinishedTask' /\ WaitingAccounting' /\ WaitingBound' /\ NoLostWakeup'
          /\ Cardinality(At({"gone"})') = Cardinality(At({"gone"})) + 0
      BY <2>1, BusyMove, Zenon DEF Count
    <2>3. done' \in Seq(Tasks) /\ notified' \in BOOLEAN
      <3>1. pc[th] = "finished" => cur[th] \in Tasks
        BY Zenon DEF IInv, TypeOK, FinishedTask, AllTasks
      <3>2. done \in Seq(Tasks) /\ notified \in BOOLEAN
        BY Zenon DEF IInv, TypeOK
      <3>3. CASE Finish(th)
        BY <3>1, <3>2, <3>3 DEF Finish
      <3>4. CASE Run(th) \/ Notify(th)
        BY ZenonT(40), <3>2, <3>4 DEF Run, Notify
      <3>5. QED
        BY <1>3, <3>3, <3>4, Zenon
    <2>4. TypeOK'
      BY <2>1, <2>2, <2>3, Zenon DEF IInv, TypeOK
    <2>5. ThreadsEnded'
      BY <2>1, <2>2, EndedStays, AtFinite
    <2>6. QED
      BY <2>2, <2>4, <2>5, Zenon DEF IInv
  <1>4. QED
    BY <1>1, <1>2, <1>3, Zenon DEF ThreadStep

\* So do spurious wakeups and the faults of a thread.
LEMMA ThreadFaultInv ==
    ASSUME IInv, NEW th \in Threads, ThreadFault(th)
    PROVE  IInv'
  <1>0. /\ pc \in [Threads -> PCs] /\ waiting \in Int /\ leak \in Nat /\ Len(queue) \in Nat
        /\ faults \in Nat
    BY DEF IInv, TypeOK
  <1>1. CASE SpuriousWakeup(th) \/ CondWaitFails(th)
    <2>1. /\ pc[th] = "wait"
          /\ \/ Goto(th, "ready") /\ leak' = leak /\ faults' = faults
             \/ Goto(th, "gone") /\ leak' = leak + 1 /\ faults' = faults + 1
          /\ UNCHANGED <<queue, waiting, active, cur, done, notified, loop, batch, n, lock, stuck>>
      BY <1>1, Zenon DEF SpuriousWakeup, CondWaitFails
    <2>2. /\ Cardinality(Idle) \in Nat /\ Cardinality(At({"ready"})) \in Nat
          /\ Cardinality(Idle') = Cardinality(Idle) - (leak' - leak)
          /\ Cardinality(At({"ready"})') >= Cardinality(At({"ready"}))
          /\ Cardinality(At({"ready"})') \in Nat
          /\ Cardinality(At({"gone"})')
                 \in {Cardinality(At({"gone"})), Cardinality(At({"gone"})) + 1}
      BY SMTT(40), <1>0, <2>1, Counts DEF Count
    <2>3. WaitingAccounting' /\ WaitingBound'
      BY <1>0, <2>1, <2>2 DEF IInv, WaitingAccounting, WaitingBound
    <2>4. At({"wait"})' \subseteq At({"wait"})
      BY <1>0, <2>1, Sleepers, Zenon
    <2>5. NoLostWakeup'
      BY <1>0, <2>1, <2>2, <2>4 DEF IInv, NoLostWakeup
    <2>6. pc' \in [Threads -> PCs] /\ FinishedTask'
      BY <1>0, <2>1, Zenon DEF IInv, FinishedTask, Goto, PCs
    <2>7. TypeOK'
      BY SMTT(40), <1>0, <2>1, <2>6 DEF IInv, TypeOK
    <2>8. ThreadsEnded'
      BY <2>1, <2>2, EndedStays, Zenon
    <2>9. QED
      BY <2>3, <2>5, <2>6, <2>7, <2>8, Zenon DEF IInv
  <1>2. CASE LockFails(th) \/ NotifyFails(th)
    <2>1. /\ UNCHANGED <<queue, waiting, active, cur, done, notified, loop, batch, n, lock,
                         leak, stuck>>
          /\ \/ pc[th] = "enter" /\ Goto(th, "gone")
             \/ pc[th] = "notify" /\ Goto(th, "enter")
          /\ faults' = faults + 1
      BY <1>2, Zenon DEF LockFails, NotifyFails
    <2>2. /\ pc' \in [Threads -> PCs]
          /\ FinishedTask' /\ WaitingAccounting' /\ WaitingBound' /\ NoLostWakeup'
          /\ \/ Cardinality(At({"gone"})') = Cardinality(At({"gone"})) + 0
             \/ Cardinality(At({"gone"})') = Cardinality(At({"gone"})) + 1
      BY <2>1, BusyMove, Zenon DEF Count
    <2>3. TypeOK'
      BY <1>0, <2>1, <2>2 DEF IInv, TypeOK
    <2>4. ThreadsEnded'
      BY <2>1, <2>2, EndedStays, AtFinite
    <2>5. QED
      BY <2>2, <2>3, <2>4, Zenon DEF IInv
  <1>3. QED
    BY <1>1, <1>2, Zenon DEF ThreadFault

\* Posting a task preserves it, also when the signal fails.
LEMMA PostInv ==
    ASSUME IInv, NEW t \in Tasks, TaskPost(t) \/ SignalFails(t)
    PROVE  IInv'
  <1>1. CASE TaskPost(t)
    <2>1. /\ Enqueue(t) /\ t \in AllTasks
          /\ UNCHANGED <<cur, done, notified, loop, batch, n, lock, faults, leak, stuck>>
      BY <1>1, Zenon DEF TaskPost, AllTasks
    <2>2. /\ queue' \in Seq(AllTasks) /\ waiting' \in Int
          /\ active' \in [AllTasks -> BOOLEAN] /\ pc' \in [Threads -> PCs]
          /\ WaitingAccounting' /\ WaitingBound' /\ NoLostWakeup'
          /\ At({"gone"})' = At({"gone"})
          /\ \A th \in Threads : pc'[th] = "finished" => pc[th] = "finished"
      BY <2>1, EnqueueInv, Zenon DEF IInv
    <2>3. TypeOK' /\ FinishedTask'
      BY <2>1, <2>2, Zenon DEF IInv, TypeOK, FinishedTask
    <2>4. ThreadsEnded'
      BY <2>1, <2>2, EndedStays, Zenon
    <2>5. QED
      BY <2>2, <2>3, <2>4, Zenon DEF IInv
  <1>2. CASE SignalFails(t)
    <2>1. /\ UNCHANGED <<queue, waiting, pc, cur, done, notified, loop, batch, n, lock, leak>>
          /\ faults' = faults + 1 /\ stuck' = stuck \cup {t}
          /\ active' = [active EXCEPT ![t] = TRUE]
      BY <1>2, Zenon DEF SignalFails
    <2>2. TypeOK'
      <3>1. active' \in [AllTasks -> BOOLEAN]
        BY <2>1, FlagType, Zenon DEF IInv, TypeOK
      <3>2. faults' \in Nat
        BY <2>1 DEF IInv, TypeOK
      <3>3. QED
        BY <2>1, <3>1, <3>2, Zenon DEF IInv, TypeOK
    <2>3. QED
      BY Zenon, <2>1, <2>2, MoveNone
         DEF IInv, FinishedTask, WaitingAccounting, WaitingBound, NoLostWakeup,
             ThreadsEnded, Idle
  <1>3. QED
    BY <1>1, <1>2, Zenon

\* A step of the main thread that leaves the pool alone.
LEMMA LoopInv ==
    ASSUME IInv, LoopStep \/ ExitWorker \/ DestroyEnd \/ DestroyFails
    PROVE  IInv'
  <1>1. /\ UNCHANGED <<queue, waiting, pc, cur, n, leak, stuck>>
        /\ loop' \in Loops \ {"spin"}
        /\ loop' = "destroyed" => n = Cardinality(Threads)
    BY Zenon DEF LoopStep, Notified, TakeDone, Complete, BatchDone, ExitWorker, DestroyEnd,
           DestroyFails, Loops
  <1>2. /\ done' \in Seq(Tasks) /\ batch' \in Seq(Tasks)
        /\ active' \in [AllTasks -> BOOLEAN]
    <2>1. CASE Complete
      <3>1. active' \in [AllTasks -> BOOLEAN]
        BY <2>1, FlagType, Zenon DEF Complete, IInv, TypeOK
      <3>2. batch' \in Seq(Tasks)
        BY <2>1 DEF Complete, IInv, TypeOK
      <3>3. QED
        BY <2>1, <3>1, <3>2, Zenon DEF Complete, IInv, TypeOK
    <2>2. CASE TakeDone
      BY SMTT(40), <2>2 DEF TakeDone, IInv, TypeOK
    <2>3. CASE Notified \/ BatchDone \/ ExitWorker \/ DestroyEnd \/ DestroyFails
      BY ZenonT(40), <2>3, FlagType
         DEF Notified, BatchDone, ExitWorker, DestroyEnd, DestroyFails, IInv, TypeOK
    <2>4. QED
      BY <2>1, <2>2, <2>3, Zenon DEF LoopStep
  <1>3. notified' \in BOOLEAN /\ lock' \in BOOLEAN
    BY ZenonT(40) DEF LoopStep, Notified, TakeDone, Complete, BatchDone, ExitWorker, DestroyEnd,
           DestroyFails, IInv, TypeOK
  <1>4. faults' \in Nat
    BY SMTT(40) DEF LoopStep, Notified, TakeDone, Complete, BatchDone, ExitWorker, DestroyEnd,
           DestroyFails, IInv, TypeOK
  <1>5. TypeOK'
    BY <1>1, <1>2, <1>3, <1>4, Zenon DEF IInv, TypeOK
  <1>6. QED
    BY Zenon, <1>1, <1>5, MoveNone
       DEF IInv, FinishedTask, WaitingAccounting, WaitingBound, NoLostWakeup,
           ThreadsEnded, Idle

\* Ending one thread: the post of the exit task and the wait for its lock.
LEMMA DestroyInv ==
    ASSUME IInv, DestroyPost \/ DestroyNext
    PROVE  IInv'
  <1>0. /\ n \in Nat /\ Cardinality(At({"gone"})) \in Nat /\ Cardinality(Threads) \in Nat
        /\ Cardinality(At({"gone"})) <= Cardinality(Threads)
    BY AtFinite DEF IInv, TypeOK
  <1>1. CASE DestroyPost /\ Enqueue(ExitTask)
    <2>1. /\ lock' = TRUE /\ loop' \in {"spin", "abandoned"}
          /\ UNCHANGED <<cur, done, notified, batch, n, faults, leak, stuck>>
          /\ ExitTask \in AllTasks
      BY <1>1, Zenon DEF DestroyPost, AllTasks
    <2>2. /\ queue' \in Seq(AllTasks) /\ waiting' \in Int
          /\ active' \in [AllTasks -> BOOLEAN] /\ pc' \in [Threads -> PCs]
          /\ WaitingAccounting' /\ WaitingBound' /\ NoLostWakeup'
          /\ At({"gone"})' = At({"gone"})
          /\ \A th \in Threads : pc'[th] = "finished" => pc[th] = "finished"
      BY <1>1, <2>1, EnqueueInv, Zenon DEF IInv
    <2>3. TypeOK' /\ FinishedTask'
      BY <2>1, <2>2, Zenon DEF IInv, TypeOK, FinishedTask, Loops
    <2>4. ThreadsEnded'
      BY <2>1, <2>2, Zenon DEF IInv, ThreadsEnded
    <2>5. QED
      BY <2>2, <2>3, <2>4, Zenon DEF IInv
  <1>2. CASE DestroyPost /\ ~Enqueue(ExitTask)
    <2>1. /\ lock' = TRUE /\ loop' = "abandoned"
          /\ UNCHANGED <<queue, waiting, active, pc, cur, done, notified, batch, n,
                         faults, leak, stuck>>
      BY <1>2, Zenon DEF DestroyPost
    <2>2. TypeOK'
      BY <2>1, Zenon DEF IInv, TypeOK, Loops
    <2>3. QED
      BY Zenon, <2>1, <2>2, MoveNone
         DEF IInv, FinishedTask, WaitingAccounting, WaitingBound, NoLostWakeup,
             ThreadsEnded, Idle
  <1>3. CASE DestroyNext
    <2>1. /\ n' = n + 1 /\ n < Cardinality(At({"gone"})) /\ loop' = "destroy"
          /\ active' = [active EXCEPT ![ExitTask] = FALSE]
          /\ UNCHANGED <<queue, waiting, pc, cur, done, notified, batch, lock, faults, leak, stuck>>
      BY <1>3, Zenon DEF DestroyNext, IInv, ThreadsEnded
    <2>2. TypeOK'
      <3>1. active' \in [AllTasks -> BOOLEAN]
        BY <2>1, FlagType, Zenon DEF IInv, TypeOK
      <3>2. n' \in 0..Cardinality(Threads)
        BY <1>0, <2>1
      <3>3. QED
        BY <2>1, <3>1, <3>2, Zenon DEF IInv, TypeOK, Loops
    <2>3. ThreadsEnded'
      BY <1>0, <2>1, MoveNone DEF ThreadsEnded
    <2>4. QED
      BY Zenon, <2>1, <2>2, <2>3, MoveNone
         DEF IInv, FinishedTask, WaitingAccounting, WaitingBound, NoLostWakeup, Idle
  <1>4. QED
    BY <1>1, <1>2, <1>3, Zenon

-----------------------------------------------------------------------------
(* The theorems *)

\* A pool that was just initialised satisfies the inductive invariant.
LEMMA InitInv == Init => IInv
  <1> SUFFICES ASSUME Init PROVE IInv
    BY Zenon
  <1>1. Idle = {} /\ At({"wait"}) = {} /\ At({"gone"}) = {}
    BY Zenon DEF Init, Idle, At
  <1>2. Cardinality({}) = 0
    BY FS_EmptySet, Zenon
  <1>3. TypeOK
    <2>1. active \in [AllTasks -> BOOLEAN] /\ notified \in BOOLEAN /\ lock \in BOOLEAN
      BY ZenonT(40) DEF Init
    <2>2. /\ queue \in Seq(AllTasks) /\ done \in Seq(Tasks) /\ batch \in Seq(Tasks)
          /\ pc \in [Threads -> PCs] /\ cur \in [Threads -> AllTasks]
      BY DEF Init, PCs, AllTasks
    <2>3. /\ waiting \in Int /\ n \in 0..Cardinality(Threads)
          /\ faults \in Nat /\ leak \in Nat
      BY AtFinite DEF Init
    <2>4. loop \in Loops /\ stuck \subseteq Tasks
      BY Zenon DEF Init, Loops
    <2>5. QED
      BY <2>1, <2>2, <2>3, <2>4, Zenon DEF TypeOK
  <1>4. WaitingAccounting /\ WaitingBound /\ NoLostWakeup
    <2>1. waiting = 0 /\ Len(queue) = 0 /\ leak = 0 /\ MaxQueue \in Nat
      BY ThreadPoolAssumption, Zenon DEF Init
    <2>2. QED
      BY <1>1, <1>2, <2>1 DEF WaitingAccounting, WaitingBound, NoLostWakeup
  <1>5. FinishedTask /\ ThreadsEnded
    <2>1. n = 0 /\ loop = "idle"
      BY Zenon DEF Init
    <2>2. ThreadsEnded
      BY <1>1, <1>2, <2>1 DEF ThreadsEnded
    <2>3. FinishedTask
      <3>1. \A th \in Threads : pc[th] = "enter"
        BY Zenon DEF Init
      <3>2. QED
        BY <3>1, Zenon DEF FinishedTask
    <2>4. QED
      BY <2>2, <2>3, Zenon
  <1>6. QED
    BY <1>3, <1>4, <1>5, Zenon DEF IInv

\* Every step preserves it.
LEMMA NextInv == IInv /\ [Next]_vars => IInv'
  <1> SUFFICES ASSUME IInv, [Next]_vars PROVE IInv'
    BY Zenon
  <1>1. CASE UNCHANGED vars
    BY Zenon, <1>1, MoveNone
       DEF vars, IInv, TypeOK, FinishedTask, WaitingAccounting, WaitingBound,
           NoLostWakeup, ThreadsEnded, Idle
  <1>2. CASE Next
    BY Zenon, <1>2, ThreadInv, ThreadFaultInv, PostInv, LoopInv, DestroyInv
       DEF Next, DestroyStep
  <1>3. QED
    BY <1>1, <1>2, Zenon

(* The inductive invariant of ngx_thread_task_post, ngx_thread_pool_cycle, *)
(* ngx_thread_pool_handler and ngx_thread_pool_destroy.                    *)
THEOREM Invariance == Spec => []IInv
  BY InitInv, NextInv, PTL DEF Spec

(* The variables of the pool keep their types. *)
THEOREM TypeCorrect == Spec => []TypeOK
  BY Invariance, PTL DEF IInv

(* tp->waiting is the length of the queue less the idle and the leaked     *)
(* threads, for any number of threads, tasks and faults.                   *)
THEOREM AccountingCorrect == Spec => []WaitingAccounting
  BY Invariance, PTL DEF IInv

(* max_queue bounds the queue beyond what idle threads are about to take. *)
THEOREM Bounded == Spec => []QueueBound
  <1>1. IInv => QueueBound
    <2> SUFFICES ASSUME IInv PROVE QueueBound
      BY Zenon
    <2>1. /\ waiting \in Int /\ leak \in Nat /\ Len(queue) \in Nat
          /\ Cardinality(Idle) \in Nat /\ MaxQueue \in Nat
      BY AtFinite, ThreadPoolAssumption DEF IInv, TypeOK, Idle
    <2>2. QED
      BY <2>1 DEF IInv, WaitingAccounting, WaitingBound, QueueBound
  <1>2. QED
    BY Invariance, <1>1, PTL

(* While a thread sleeps in ngx_thread_cond_wait, every queued task has a  *)
(* woken thread.                                                           *)
THEOREM WakeupNotLost == Spec => []NoLostWakeup
  BY Invariance, PTL DEF IInv

(* ngx_thread_pool_destroy destroys the mutex and the condition variable   *)
(* only when every thread has left.                                        *)
THEOREM DestroySafe == Spec => []DestroyedUnused
  <1>1. IInv => DestroyedUnused
    <2> SUFFICES ASSUME IInv, loop = "destroyed" PROVE At(PCs \ {"gone"}) = {}
      BY Zenon DEF DestroyedUnused
    <2>1. At({"gone"}) \subseteq Threads
      BY Zenon DEF At
    <2>2. Cardinality(At({"gone"})) = Cardinality(Threads)
      BY AtFinite DEF IInv, TypeOK, ThreadsEnded
    <2>3. At({"gone"}) = Threads
      BY <2>1, <2>2, ThreadPoolAssumption, FS_Subset, Zenon
    <2>4. QED
      BY <2>3, Zenon DEF At
  <1>2. QED
    BY Invariance, <1>1, PTL

-----------------------------------------------------------------------------
(* A task is neither lost nor run twice *)

\* How often t occurs in s, and the threads that run t.
Occurs(s, t) == Cardinality({k \in DOMAIN s : s[k] = t})
Runs(t) == {th \in At({"run", "finished"}) : cur[th] = t}

Same(x, y) == IF x = y THEN 1 ELSE 0

\* A task that was marked and not queued stays marked.
StuckActive == \A t \in stuck : active[t]

\* The handler's list is empty when it takes the done tasks.
BatchEmpty == loop # "batch" => batch = <<>>

TInv == IInv /\ TaskOnce /\ StuckActive /\ BatchEmpty

-----------------------------------------------------------------------------
(* Counting a task in a sequence *)

\* The positions of t can be counted.
LEMMA OccursFinite ==
    ASSUME NEW S, NEW s \in Seq(S), NEW t
    PROVE  /\ IsFiniteSet({k \in DOMAIN s : s[k] = t})
           /\ Occurs(s, t) \in Nat
  <1>1. DOMAIN s = 1..Len(s) /\ Len(s) \in Nat
    OBVIOUS
  <1>2. IsFiniteSet(DOMAIN s)
    BY <1>1, FS_Interval
  <1>3. {k \in DOMAIN s : s[k] = t} \subseteq DOMAIN s
    BY Zenon
  <1>4. QED
    BY <1>2, <1>3, FS_Subset, FS_CardinalityType, Zenon DEF Occurs

\* An empty queue or list has no task in it.
LEMMA OccursEmpty == \A t : Occurs(<<>>, t) = 0
  <1>1. \A t : {k \in DOMAIN <<>> : <<>>[k] = t} = {}
    OBVIOUS
  <1>2. QED
    BY <1>1, FS_EmptySet, Zenon DEF Occurs

\* Appending a task counts it once more, and no other.
LEMMA OccursAppend ==
    ASSUME NEW S, NEW s \in Seq(S), NEW e \in S, NEW t
    PROVE  Occurs(Append(s, e), t) = Occurs(s, t) + Same(e, t)
  <1> DEFINE a == Append(s, e)
             K == {k \in DOMAIN s : s[k] = t}
             L == {k \in DOMAIN a : a[k] = t}
             z == Len(s) + 1
  <1>1. /\ DOMAIN s = 1..Len(s) /\ Len(s) \in Nat
        /\ DOMAIN a = 1..z
        /\ \A i \in 1..Len(s) : a[i] = s[i]
        /\ a[z] = e
    BY AppendProperties
  <1>2. IsFiniteSet(K) /\ Cardinality(K) \in Nat
    BY OccursFinite, Zenon DEF Occurs
  <1>3. z \notin K
    BY <1>1
  <1>4. L = IF e = t THEN K \cup {z} ELSE K
    <2> HIDE DEF a
    <2>1. QED
      BY <1>1
  <1>5. Cardinality(K \cup {z}) = Cardinality(K) + 1
    BY <1>2, <1>3, FS_AddElement, Zenon
  <1> HIDE DEF K, L
  <1>6. Cardinality(L) = Cardinality(K) + Same(e, t)
    BY <1>2, <1>4, <1>5 DEF Same
  <1>7. QED
    BY <1>6, Zenon DEF Occurs, K, L

\* Taking the first task off counts it once less, and no other.
LEMMA OccursTail ==
    ASSUME NEW S, NEW s \in Seq(S), s # <<>>, NEW t
    PROVE  /\ Occurs(s, t) = Occurs(Tail(s), t) + Same(Head(s), t)
           /\ Occurs(Tail(s), t) \in Nat
  <1> DEFINE a == Tail(s)
             K == {k \in DOMAIN a : a[k] = t}
             L == {k \in 2..Len(s) : s[k] = t}
             M == {k \in DOMAIN s : s[k] = t}
             f == [k \in K |-> k + 1]
  <1>1. /\ DOMAIN s = 1..Len(s) /\ Len(s) \in Nat /\ Len(s) > 0
        /\ a \in Seq(S) /\ DOMAIN a = 1..(Len(s) - 1)
        /\ \A i \in 1..(Len(s) - 1) : a[i] = s[i + 1]
        /\ Head(s) = s[1]
    BY HeadTailProperties
  <1>2. IsFiniteSet(K) /\ Cardinality(K) \in Nat
    BY <1>1, OccursFinite, Zenon DEF Occurs
  <1>3. f \in Bijection(K, L)
    <2> HIDE DEF a
    <2>1. f \in [K -> L]
      BY <1>1
    <2>2. \A x, y \in K : f[x] = f[y] => x = y
      BY <1>1
    <2>3. \A y \in L : \E x \in K : f[x] = y
      <3>1. TAKE y \in L
      <3>2. y - 1 \in K /\ f[y - 1] = y
        BY <1>1
      <3>3. QED
        BY <3>2, Zenon
    <2>4. QED
      BY <2>1, <2>2, <2>3, Zenon DEF Bijection, Injection, Surjection, IsInjective
  <1>4. IsFiniteSet(L) /\ Cardinality(L) = Cardinality(K)
    <2>1. ExistsBijection(K, L)
      BY <1>3, Zenon DEF ExistsBijection
    <2>2. QED
      BY <1>2, <2>1, FS_Bijection, Zenon
  <1>5. 1 \notin L /\ M = IF Head(s) = t THEN L \cup {1} ELSE L
    BY <1>1
  <1>6. Cardinality(L \cup {1}) = Cardinality(L) + 1
    BY <1>4, <1>5, FS_AddElement, Zenon
  <1> HIDE DEF K, L, M
  <1>7. Cardinality(M) = Cardinality(K) + Same(Head(s), t)
    BY <1>2, <1>4, <1>5, <1>6 DEF Same
  <1>8. QED
    BY <1>2, <1>7, Zenon DEF Occurs, K, M

-----------------------------------------------------------------------------
(* Counting a task in the whole pool *)

\* The places a task may be in, and how they add up.
LEMMA Parts ==
    ASSUME TypeOK, NEW t
    PROVE  /\ Occurs(queue, t) \in Nat /\ Occurs(done, t) \in Nat
           /\ Occurs(batch, t) \in Nat
           /\ IsFiniteSet(Runs(t)) /\ Cardinality(Runs(t)) \in Nat
           /\ Copies(t) = Occurs(queue, t) + Occurs(done, t) + Occurs(batch, t)
                             + Cardinality(Runs(t))
  <1>1. /\ Occurs(queue, t) \in Nat /\ Occurs(done, t) \in Nat
        /\ Occurs(batch, t) \in Nat
    BY OccursFinite, Zenon DEF TypeOK
  <1>2. Runs(t) \subseteq Threads
    BY Zenon DEF Runs, At
  <1>3. IsFiniteSet(Runs(t)) /\ Cardinality(Runs(t)) \in Nat
    BY <1>2, ThreadPoolAssumption, FS_Subset, FS_CardinalityType, Zenon
  <1>4. QED
    BY <1>1, <1>3, Zenon DEF Copies, Occurs, Runs

\* The same after a step.
LEMMA PartsNext ==
    ASSUME NEW t
    PROVE  Copies(t)' = Occurs(queue', t) + Occurs(done', t) + Occurs(batch', t)
                          + Cardinality(Runs(t)')
  BY Zenon DEF Copies, Occurs, Runs

\* A thread that takes no task and ends none runs what it did.
LEMMA RunsKept ==
    ASSUME TypeOK, NEW th \in Threads, NEW l, Goto(th, l), UNCHANGED cur, NEW t,
           \/ pc[th] \in {"run", "finished"} <=> l \in {"run", "finished"}
           \/ cur[th] # t
    PROVE  Runs(t)' = Runs(t)
  BY Zenon DEF TypeOK, Goto, Runs, At

\* Nobody moves: nobody runs anything else.
LEMMA RunsSame == ASSUME UNCHANGED <<pc, cur>>, NEW t PROVE Runs(t)' = Runs(t)
  BY Zenon DEF Runs, At

\* A step that moves no task keeps its count and its mark.
LEMMA Untouched ==
    ASSUME TaskOnce, StuckActive, UNCHANGED <<queue, done, batch, active, stuck>>,
           \A t \in Tasks : Runs(t)' = Runs(t)
    PROVE  TaskOnce' /\ StuckActive'
  <1>1. \A t \in Tasks : Copies(t)' = Copies(t)
    BY Zenon DEF Copies, Runs
  <1>2. QED
    BY <1>1, Zenon DEF TaskOnce, StuckActive

\* What the invariant says of one task.
LEMMA OnceCases ==
    ASSUME TaskOnce, NEW t \in Tasks
    PROVE  /\ active[t] /\ t \notin stuck => Copies(t) = 1
           /\ ~(active[t] /\ t \notin stuck) => Copies(t) = 0
  BY Zenon DEF TaskOnce

\* And how to show it after a step.
LEMMA OnceNext ==
    ASSUME \A t \in Tasks :
               /\ active'[t] /\ t \notin stuck' => Copies(t)' = 1
               /\ ~(active'[t] /\ t \notin stuck') => Copies(t)' = 0
    PROVE  TaskOnce'
  BY Zenon DEF TaskOnce

-----------------------------------------------------------------------------
(* Each step keeps the count *)

\* A task that is not underway enters the queue, or the exit task does.
LEMMA EnqueueOnce ==
    ASSUME TInv, NEW e \in AllTasks, e \in Tasks => ~active[e], Enqueue(e),
           UNCHANGED <<cur, done, batch, stuck>>
    PROVE  TaskOnce' /\ StuckActive'
  <1>0. TypeOK /\ TaskOnce /\ StuckActive
    BY Zenon DEF TInv, IInv
  <1>1. \A t : Occurs(queue', t) = Occurs(queue, t) + Same(e, t)
    BY <1>0, OccursAppend, Zenon DEF Enqueue, TypeOK
  <1>2. \A t : Runs(t)' = Runs(t)
    <2>1. CASE UNCHANGED pc
      BY <2>1, RunsSame, Zenon
    <2>2. CASE \E th \in At({"wait"}) : Goto(th, "ready")
      BY <1>0, <2>2, RunsKept DEF At
    <2>3. QED
      BY <2>1, <2>2, Zenon DEF Enqueue
  <1>3. \A t \in Tasks : Copies(t)' = Copies(t) + Same(e, t)
    <2>1. TAKE t \in Tasks
    <2>2. Same(e, t) \in Nat
      BY Zenon DEF Same
    <2>3. QED
      BY <1>0, <1>1, <1>2, <2>2, Parts, PartsNext
  <1>4. /\ e \in Tasks => active'[e]
        /\ \A t \in AllTasks \ {e} : active'[t] = active[t]
    BY <1>0, Zenon DEF Enqueue, TypeOK
  <1>5. ASSUME NEW t \in Tasks
        PROVE  /\ active'[t] /\ t \notin stuck' => Copies(t)' = 1
               /\ ~(active'[t] /\ t \notin stuck') => Copies(t)' = 0
    <2>1. CASE t = e
      <3>1. ~active[t] /\ active'[t] /\ t \notin stuck
        BY <1>0, <1>4, <2>1, Zenon DEF StuckActive
      <3>2. Copies(t) = 0
        BY <1>0, <3>1, OnceCases, Zenon
      <3>3. Copies(t)' = 1
        BY <1>3, <2>1, <3>2 DEF Same
      <3>4. QED
        BY <3>1, <3>3, Zenon
    <2>2. CASE t # e
      <3>1. Copies(t)' = Copies(t) + 0
        BY <1>3, <2>2, Zenon DEF Same
      <3>2. Copies(t)' = Copies(t)
        BY <1>0, <3>1, Parts
      <3>3. active'[t] = active[t]
        BY <1>4, <2>2, Zenon DEF AllTasks
      <3>4. QED
        BY <1>0, <3>2, <3>3, OnceCases, Zenon
    <2>3. QED
      BY <2>1, <2>2, Zenon
  <1>6. StuckActive'
    BY <1>0, <1>4, Zenon DEF StuckActive, TypeOK, AllTasks
  <1>7. QED
    BY <1>5, <1>6, OnceNext, Zenon

\* A task that stays underway: its mark is kept and so is the count.
LEMMA Moved ==
    ASSUME TInv, UNCHANGED <<active, stuck>>, \A t \in Tasks : Copies(t)' = Copies(t)
    PROVE  TaskOnce' /\ StuckActive'
  BY Zenon DEF TInv, TaskOnce, StuckActive

\* A thread takes the first task of the queue.
LEMMA DequeueOnce ==
    ASSUME TInv, NEW th \in Threads, Dequeue(th), pc[th] \in {"enter", "ready"},
           UNCHANGED <<done, batch, active, stuck>>
    PROVE  TaskOnce' /\ StuckActive'
  <1>0. TypeOK
    BY Zenon DEF TInv, IInv
  <1> DEFINE e == Head(queue)
  <1>1. \A t : /\ Occurs(queue, t) = Occurs(queue', t) + Same(e, t)
               /\ Occurs(queue', t) \in Nat
    BY <1>0, OccursTail, Zenon DEF Dequeue, TypeOK
  <1>2. ASSUME NEW t
        PROVE  Cardinality(Runs(t)') = Cardinality(Runs(t)) + Same(e, t)
    <2>1. th \notin Runs(t)
      BY Zenon DEF Runs, At
    <2>2. Runs(t)' = IF e = t THEN Runs(t) \cup {th} ELSE Runs(t)
      BY <1>0, Zenon DEF Dequeue, Goto, Runs, At, TypeOK
    <2>3. Cardinality(Runs(t) \cup {th}) = Cardinality(Runs(t)) + 1
      BY <1>0, <2>1, Parts, FS_AddElement, Zenon
    <2>4. QED
      BY <1>0, <2>2, <2>3, Parts DEF Same
  <1>3. ASSUME NEW t \in Tasks
        PROVE  Copies(t)' = Copies(t)
    <2>1. Same(e, t) \in Nat
      BY Zenon DEF Same
    <2>2. QED
      BY <1>0, <1>1, <1>2, <2>1, Parts, PartsNext
  <1>4. QED
    BY <1>3, Moved, Zenon

\* A thread puts its task on the list of done tasks.
LEMMA FinishOnce ==
    ASSUME TInv, NEW th \in Threads, Finish(th)
    PROVE  TaskOnce' /\ StuckActive'
  <1>0. TypeOK /\ FinishedTask
    BY Zenon DEF TInv, IInv
  <1>1. \A t : Occurs(done', t) = Occurs(done, t) + Same(cur[th], t)
    <2>1. cur[th] \in Tasks
      BY <1>0, Zenon DEF FinishedTask, Finish, TypeOK, AllTasks
    <2>2. QED
      BY <1>0, <2>1, OccursAppend, Zenon DEF Finish, TypeOK
  <1>2. ASSUME NEW t
        PROVE  /\ Cardinality(Runs(t)) = Cardinality(Runs(t)') + Same(cur[th], t)
               /\ Cardinality(Runs(t)') \in Nat
    <2>1. CASE cur[th] = t
      <3>1. th \in Runs(t) /\ Runs(t)' = Runs(t) \ {th}
        BY <1>0, <2>1, Zenon DEF Finish, Goto, Runs, At, TypeOK
      <3>2. /\ Cardinality(Runs(t) \ {th}) = Cardinality(Runs(t)) - 1
            /\ IsFiniteSet(Runs(t) \ {th})
        BY <1>0, <3>1, Parts, FS_RemoveElement, Zenon
      <3>3. Cardinality(Runs(t)') \in Nat
        BY <3>1, <3>2, FS_CardinalityType, Zenon
      <3>4. QED
        BY SMTT(40), <1>0, <2>1, <3>1, <3>2, <3>3, Parts DEF Same
    <2>2. CASE cur[th] # t
      <3>1. Runs(t)' = Runs(t)
        BY <1>0, <2>2, RunsKept, Zenon DEF Finish
      <3>2. QED
        BY <1>0, <2>2, <3>1, Parts DEF Same
    <2>3. QED
      BY <2>1, <2>2, Zenon
  <1>3. ASSUME NEW t \in Tasks
        PROVE  Copies(t)' = Copies(t)
    <2>1. Same(cur[th], t) \in Nat
      BY Zenon DEF Same
    <2>2. queue' = queue /\ batch' = batch
      BY Zenon DEF Finish
    <2>3. QED
      BY <1>0, <1>1, <1>2, <2>1, <2>2, Parts, PartsNext
  <1>4. QED
    BY <1>3, Moved, Zenon DEF Finish

\* The event loop takes the done tasks.
LEMMA TakeOnce ==
    ASSUME TInv, TakeDone
    PROVE  TaskOnce' /\ StuckActive'
  <1>0. TypeOK /\ batch = <<>>
    BY Zenon DEF TInv, IInv, BatchEmpty, TakeDone
  <1>1. \A t : Runs(t)' = Runs(t)
    BY RunsSame, Zenon DEF TakeDone
  <1>2. ASSUME NEW t \in Tasks
        PROVE  Copies(t)' = Copies(t)
    <2>1. /\ Occurs(batch, t) = 0 /\ Occurs(done', t) = 0
          /\ batch' = done /\ queue' = queue
      BY <1>0, OccursEmpty, Zenon DEF TakeDone
    <2>2. QED
      BY <1>0, <1>1, <2>1, Parts, PartsNext
  <1>3. QED
    BY <1>2, Moved, Zenon DEF TakeDone

\* A task is completed: it was underway once, and is no more.
LEMMA CompleteOnce ==
    ASSUME TInv, Complete
    PROVE  TaskOnce' /\ StuckActive'
  <1>0. TypeOK /\ TaskOnce /\ StuckActive
    BY Zenon DEF TInv, IInv
  <1>1. PICK e \in Tasks : e = Head(batch)
    BY <1>0 DEF Complete, TypeOK
  <1>2. \A t : /\ Occurs(batch, t) = Occurs(batch', t) + Same(e, t)
               /\ Occurs(batch', t) \in Nat
    BY <1>0, <1>1, OccursTail, Zenon DEF Complete, TypeOK
  <1>3. \A t : Runs(t)' = Runs(t)
    BY RunsSame, Zenon DEF Complete
  <1>4. \A t \in Tasks : Copies(t) = Copies(t)' + Same(e, t) /\ Copies(t)' \in Nat
    <2>1. TAKE t \in Tasks
    <2>2. Same(e, t) \in Nat /\ queue' = queue /\ done' = done
      BY Zenon DEF Same, Complete
    <2>3. QED
      BY SMTT(40), <1>0, <1>2, <1>3, <2>2, Parts, PartsNext
  <1>5. ~active'[e] /\ \A t \in AllTasks \ {e} : active'[t] = active[t]
    <2>1. e \in AllTasks
      BY Zenon DEF AllTasks
    <2>2. QED
      BY Zenon, <1>0, <1>1, <2>1 DEF Complete, TypeOK
  <1>6. Copies(e) # 0
    BY <1>4 DEF Same
  <1>7. active[e] /\ e \notin stuck /\ Copies(e) = 1
    BY <1>0, <1>6, OnceCases, Zenon
  <1>8. Copies(e)' = 0
    BY <1>4, <1>7 DEF Same
  <1>9. stuck' = stuck
    BY Zenon DEF Complete
  <1>10. ASSUME NEW t \in Tasks
         PROVE  /\ active'[t] /\ t \notin stuck' => Copies(t)' = 1
                /\ ~(active'[t] /\ t \notin stuck') => Copies(t)' = 0
    <2>1. CASE t = e
      BY <1>5, <1>8, <2>1, Zenon
    <2>2. CASE t # e
      <3>1. Copies(t)' = Copies(t)
        BY <1>4, <2>2 DEF Same
      <3>2. active'[t] = active[t]
        BY <1>5, <2>2, Zenon DEF AllTasks
      <3>3. QED
        BY <1>0, <1>9, <3>1, <3>2, OnceCases, Zenon
    <2>3. QED
      BY <2>1, <2>2, Zenon
  <1>11. StuckActive'
    <2>1. \A t \in stuck : t \in AllTasks \ {e}
      BY <1>0, <1>7, Zenon DEF TypeOK, AllTasks
    <2>2. QED
      BY <1>0, <1>5, <1>9, <2>1, Zenon DEF StuckActive
  <1>12. QED
    BY <1>10, <1>11, OnceNext, Zenon

\* A task is marked and not queued: it is nowhere.
LEMMA SignalFailsOnce ==
    ASSUME TInv, NEW e \in Tasks, SignalFails(e)
    PROVE  TaskOnce' /\ StuckActive'
  <1>0. TypeOK /\ TaskOnce /\ StuckActive
    BY Zenon DEF TInv, IInv
  <1>1. \A t \in Tasks : Copies(t)' = Copies(t)
    BY Zenon DEF SignalFails, Copies, At
  <1>2. /\ ~active[e] /\ active'[e] /\ stuck' = stuck \cup {e}
        /\ \A t \in AllTasks \ {e} : active'[t] = active[t]
    <2>1. e \in AllTasks
      BY Zenon DEF AllTasks
    <2>2. QED
      BY Zenon, <1>0, <2>1 DEF SignalFails, TypeOK
  <1>3. ASSUME NEW t \in Tasks
        PROVE  /\ active'[t] /\ t \notin stuck' => Copies(t)' = 1
               /\ ~(active'[t] /\ t \notin stuck') => Copies(t)' = 0
    <2>1. CASE t = e
      <3>1. Copies(t) = 0
        BY <1>0, <1>2, <2>1, OnceCases, Zenon
      <3>2. QED
        BY <1>1, <1>2, <2>1, <3>1, Zenon
    <2>2. CASE t # e
      <3>1. active'[t] = active[t] /\ (t \in stuck' <=> t \in stuck)
        BY <1>2, <2>2, Zenon DEF AllTasks
      <3>2. QED
        BY <1>0, <1>1, <3>1, OnceCases, Zenon
    <2>3. QED
      BY <2>1, <2>2, Zenon
  <1>4. StuckActive'
    BY <1>0, <1>2, Zenon DEF StuckActive, TypeOK, AllTasks
  <1>5. QED
    BY <1>3, <1>4, OnceNext, Zenon

\* The mark of the exit task is of no account.
LEMMA ExitMark ==
    ASSUME TInv, NEW b, active' = [active EXCEPT ![ExitTask] = b],
           UNCHANGED <<queue, pc, cur, done, batch, stuck>>
    PROVE  TaskOnce' /\ StuckActive'
  <1>0. TypeOK /\ TaskOnce /\ StuckActive
    BY Zenon DEF TInv, IInv
  <1>1. \A t \in Tasks : Copies(t)' = Copies(t)
    BY Zenon DEF Copies, At
  <1>2. \A t \in Tasks : active'[t] = active[t]
    BY <1>0, ThreadPoolAssumption, Zenon DEF TypeOK, AllTasks
  <1>3. QED
    BY <1>0, <1>1, <1>2, Zenon DEF TaskOnce, StuckActive, TypeOK

\* The steps of a thread keep the count.
LEMMA ThreadOnce ==
    ASSUME TInv, NEW th \in Threads, ThreadStep(th) \/ ThreadFault(th)
    PROVE  TaskOnce' /\ StuckActive'
  <1>0. TypeOK /\ TaskOnce /\ StuckActive
    BY Zenon DEF TInv, IInv
  <1>1. CASE (Enter(th) \/ Recheck(th)) /\ Dequeue(th)
    BY <1>1, DequeueOnce, Zenon DEF Enter, Recheck
  <1>2. CASE Finish(th)
    BY <1>2, FinishOnce, Zenon
  <1>3. CASE \/ (Enter(th) \/ Recheck(th)) /\ Sleep(th)
             \/ Notify(th) \/ ThreadFault(th)
    <2>1. /\ UNCHANGED <<queue, done, batch, active, stuck, cur>>
          /\ pc[th] \in {"enter", "ready", "notify", "wait"}
          /\ \E l \in {"wait", "enter", "ready", "gone"} : Goto(th, l)
      BY <1>3, Zenon DEF Enter, Recheck, Sleep, Notify, ThreadFault, SpuriousWakeup, LockFails,
                  CondWaitFails, NotifyFails
    <2>2. \A t \in Tasks : Runs(t)' = Runs(t)
      BY <1>0, <2>1, RunsKept, Zenon
    <2>3. QED
      BY <1>0, <2>1, <2>2, Untouched, Zenon
  <1>4. CASE Run(th)
    <2>1. /\ UNCHANGED <<queue, done, batch, active, stuck, cur>> /\ pc[th] = "run"
          /\ \/ cur[th] = ExitTask /\ Goto(th, "gone")
             \/ Goto(th, "finished")
      BY <1>4, Zenon DEF Run
    <2>2. \A t \in Tasks : Runs(t)' = Runs(t)
      BY <1>0, <2>1, RunsKept, ThreadPoolAssumption, Zenon
    <2>3. QED
      BY <1>0, <2>1, <2>2, Untouched, Zenon
  <1>5. QED
    BY <1>1, <1>2, <1>3, <1>4, Zenon DEF ThreadStep, Enter, Recheck

\* So do those of the main thread.
LEMMA MainOnce ==
    ASSUME TInv,
           \/ \E t \in Tasks : TaskPost(t) \/ SignalFails(t)
           \/ LoopStep \/ ExitWorker \/ DestroyStep \/ DestroyFails
           \/ UNCHANGED vars
    PROVE  TaskOnce' /\ StuckActive'
  <1>1. ASSUME NEW t \in Tasks, TaskPost(t)
        PROVE  TaskOnce' /\ StuckActive'
    BY <1>1, EnqueueOnce, Zenon DEF TaskPost, AllTasks
  <1>2. ASSUME NEW t \in Tasks, SignalFails(t)
        PROVE  TaskOnce' /\ StuckActive'
    BY <1>2, SignalFailsOnce, Zenon
  <1>3. CASE TakeDone
    BY <1>3, TakeOnce, Zenon
  <1>4. CASE Complete
    BY <1>4, CompleteOnce, Zenon
  <1>5. CASE DestroyPost /\ Enqueue(ExitTask)
    <2>1. ExitTask \in AllTasks /\ ExitTask \notin Tasks
      BY ThreadPoolAssumption, Zenon DEF AllTasks
    <2>2. UNCHANGED <<cur, done, batch, stuck>>
      BY <1>5, Zenon DEF DestroyPost
    <2>3. QED
      BY <1>5, <2>1, <2>2, EnqueueOnce, Zenon
  <1>6. CASE DestroyNext \/ DestroyFails
    BY <1>6, ExitMark, Zenon DEF DestroyNext, DestroyFails
  <1>7. CASE \/ Notified \/ BatchDone \/ ExitWorker \/ DestroyEnd
             \/ DestroyPost /\ ~Enqueue(ExitTask)
             \/ UNCHANGED vars
    <2>1. UNCHANGED <<queue, pc, cur, done, batch, active, stuck>>
      BY <1>7, Zenon DEF Notified, BatchDone, ExitWorker, DestroyEnd, DestroyPost, vars
    <2>2. QED
      BY <2>1, RunsSame, Untouched, Zenon DEF TInv
  <1>8. QED
    BY <1>1, <1>2, <1>3, <1>4, <1>5, <1>6, <1>7, Zenon DEF LoopStep, DestroyStep

\* The handler's list stays empty outside the handler.
LEMMA BatchStep == BatchEmpty /\ [Next]_vars => BatchEmpty'
  <1> SUFFICES ASSUME BatchEmpty, [Next]_vars PROVE BatchEmpty'
    BY Zenon
  <1> USE DEF BatchEmpty
  <1>1. ASSUME NEW th \in Threads, ThreadStep(th) \/ ThreadFault(th)
        PROVE  UNCHANGED <<loop, batch>>
    BY <1>1, Zenon DEF ThreadStep, ThreadFault, Enter, Recheck, Run, Finish, Notify,
                SpuriousWakeup, LockFails, CondWaitFails, NotifyFails
  <1>2. ASSUME NEW t \in Tasks, TaskPost(t) \/ SignalFails(t)
        PROVE  UNCHANGED <<loop, batch>>
    BY <1>2, Zenon DEF TaskPost, SignalFails
  <1>3. CASE LoopStep
    BY <1>3, Zenon DEF LoopStep, Notified, TakeDone, Complete, BatchDone
  <1>4. CASE ExitWorker \/ DestroyStep \/ DestroyFails
    BY <1>4, Zenon DEF ExitWorker, DestroyStep, DestroyPost, DestroyNext, DestroyEnd,
                DestroyFails
  <1>5. CASE UNCHANGED vars
    BY <1>5, Zenon DEF vars
  <1>6. QED
    BY <1>1, <1>2, <1>3, <1>4, <1>5, Zenon DEF Next

(* An accepted task is in one place until its completion handler is        *)
(* called, and then in none, whatever threads overtake each other, wake    *)
(* for nothing or fail, and also when the handler posts it again.          *)
THEOREM TaskIsOnce == Spec => []TaskOnce
  <1>1. Init => TInv
    <2> SUFFICES ASSUME Init PROVE TInv
      BY Zenon
    <2>1. IInv
      BY InitInv, Zenon
    <2>2. ASSUME NEW t \in Tasks
          PROVE  Copies(t) = 0 /\ ~active[t]
      <3>1. queue = <<>> /\ done = <<>> /\ batch = <<>>
        BY Zenon DEF Init
      <3>2. Runs(t) = {}
        BY Zenon DEF Init, Runs, At
      <3>3. Occurs(<<>>, t) = 0 /\ Cardinality({}) = 0
        BY OccursEmpty, FS_EmptySet, Zenon
      <3>4. Copies(t) = 0
        <4>1. TypeOK
          BY <2>1, Zenon DEF IInv
        <4>2. Copies(t) = Occurs(queue, t) + Occurs(done, t) + Occurs(batch, t)
                            + Cardinality(Runs(t))
          BY <4>1, Parts, Zenon
        <4>3. QED
          BY <3>1, <3>2, <3>3, <4>2
      <3>5. t \in AllTasks
        BY Zenon DEF AllTasks
      <3>6. ~active[t]
        BY Zenon, <3>5 DEF Init
      <3>7. QED
        BY <3>4, <3>6, Zenon
    <2>3. TaskOnce
      BY <2>2, Zenon DEF TaskOnce
    <2>4. StuckActive /\ BatchEmpty
      BY Zenon DEF Init, StuckActive, BatchEmpty
    <2>5. QED
      BY <2>1, <2>3, <2>4, Zenon DEF TInv
  <1>2. TInv /\ [Next]_vars => TInv'
    <2> SUFFICES ASSUME TInv, [Next]_vars PROVE TInv'
      BY Zenon
    <2>1. IInv'
      BY NextInv, Zenon DEF TInv
    <2>2. BatchEmpty'
      BY BatchStep, Zenon DEF TInv
    <2>3. TaskOnce' /\ StuckActive'
      BY ThreadOnce, MainOnce, Zenon DEF Next
    <2>4. QED
      BY <2>1, <2>2, <2>3, Zenon DEF TInv
  <1>3. QED
    BY <1>1, <1>2, PTL DEF Spec, TInv

=============================================================================
