----------------------------- MODULE ThreadPool -----------------------------
(***************************************************************************)
(* A thread pool of a worker: src/core/ngx_thread_pool.c.  The worker's    *)
(* main thread posts tasks, the pool's threads run them, append them to    *)
(* the list of done tasks and notify the event loop, which runs their      *)
(* completion handlers.  When the worker exits it ends the threads one by  *)
(* one with a task of its own.                                             *)
(*                                                                         *)
(* What is done under tp->mtx is one step, except that a thread sleeping   *)
(* on tp->cond takes a step to wake up ("ready") and one to run on with    *)
(* the mutex taken again.  What is done under ngx_thread_pool_done_lock is *)
(* one step.  A mutex that cannot be taken, a failing condition variable   *)
(* and a failing eventfd are faults; unlocking is assumed to work.         *)
(***************************************************************************)
EXTENDS Integers, Sequences, FiniteSets

CONSTANTS Threads,     \* the threads of the pool
          Tasks,       \* task structures of the worker
          ExitTask,    \* the task on the stack of ngx_thread_pool_destroy
          MaxQueue,    \* tp->max_queue
          MaxFaults    \* bound on failing calls

ASSUME ThreadPoolAssumption ==
    /\ IsFiniteSet(Threads)
    /\ ExitTask \notin Tasks
    /\ MaxQueue \in Nat
    /\ MaxFaults \in Nat

VARIABLES queue,     \* tp->queue
          waiting,   \* tp->waiting
          active,    \* task->event.active
          pc, cur,   \* of each thread: position, and task it runs
          done,      \* ngx_thread_pool_done
          notified,  \* the eventfd is readable
          loop,      \* what the main thread does
          batch,     \* done tasks the handler has taken and not completed
          n,         \* threads ended by ngx_thread_pool_destroy
          lock,      \* its lock: the thread has not reached the exit handler
          faults,    \* failing calls so far
          leak,      \* history: threads that left while counted in waiting
          stuck      \* history: tasks marked active and never queued

vars == <<queue, waiting, active, pc, cur, done, notified, loop, batch, n, lock,
          faults, leak, stuck>>

AllTasks == Tasks \cup {ExitTask}
PCs == {"enter", "wait", "ready", "run", "finished", "notify", "gone"}
Loops == {"idle", "handle", "batch", "destroy", "spin", "destroyed", "abandoned"}

At(P) == {th \in Threads : pc[th] \in P}
Goto(th, l) == pc' = [pc EXCEPT ![th] = l]

\* ngx_thread_pool_init_worker: the pool is zeroed, its threads are created.
Init ==
    /\ queue = <<>>
    /\ waiting = 0
    /\ active = [t \in AllTasks |-> FALSE]
    /\ pc = [th \in Threads |-> "enter"]
    /\ cur = [th \in Threads |-> ExitTask]
    /\ done = <<>>
    /\ notified = FALSE
    /\ loop = "idle"
    /\ batch = <<>>
    /\ n = 0
    /\ lock = FALSE
    /\ faults = 0
    /\ leak = 0
    /\ stuck = {}

-----------------------------------------------------------------------------
(* ngx_thread_task_post *)

\* Mutant: the limit is not looked at.
Enqueue_NoLimit(t) ==
    /\ active' = [active EXCEPT ![t] = TRUE]
    /\ \/ At({"wait"}) = {} /\ UNCHANGED pc
       \/ \E th \in At({"wait"}) : Goto(th, "ready")
    /\ queue' = Append(queue, t)
    /\ waiting' = waiting + 1

\* Mutant: sleeping threads are signalled only if the queue was empty.
Enqueue_SignalIfEmpty(t) ==
    /\ waiting < MaxQueue
    /\ active' = [active EXCEPT ![t] = TRUE]
    /\ \/ (At({"wait"}) = {} \/ queue # <<>>) /\ UNCHANGED pc
       \/ queue = <<>> /\ \E th \in At({"wait"}) : Goto(th, "ready")
    /\ queue' = Append(queue, t)
    /\ waiting' = waiting + 1

(* There is room: the task is marked, one sleeping thread is signalled and *)
(* the task appended.  Otherwise the call fails and changes nothing.       *)
Enqueue(t) ==
    /\ waiting < MaxQueue
    /\ active' = [active EXCEPT ![t] = TRUE]
    /\ \/ At({"wait"}) = {} /\ UNCHANGED pc
       \/ \E th \in At({"wait"}) : Goto(th, "ready")
    /\ queue' = Append(queue, t)
    /\ waiting' = waiting + 1

\* From the event loop, or from a completion handler.
TaskPost(t) ==
    /\ loop \in {"idle", "batch"}
    /\ ~active[t]
    /\ Enqueue(t)
    /\ UNCHANGED <<cur, done, notified, loop, batch, n, lock, faults, leak, stuck>>

\* ngx_thread_cond_signal() fails: the task stays marked and is not queued.
SignalFails(t) ==
    /\ loop \in {"idle", "batch"}
    /\ ~active[t]
    /\ waiting < MaxQueue
    /\ faults < MaxFaults
    /\ faults' = faults + 1
    /\ active' = [active EXCEPT ![t] = TRUE]
    /\ stuck' = stuck \cup {t}
    /\ UNCHANGED <<queue, waiting, pc, cur, done, notified, loop, batch, n, lock, leak>>

-----------------------------------------------------------------------------
(* ngx_thread_pool_cycle *)

Dequeue(th) ==
    /\ queue # <<>>
    /\ cur' = [cur EXCEPT ![th] = Head(queue)]
    /\ queue' = Tail(queue)
    /\ Goto(th, "run")

Sleep(th) ==
    /\ queue = <<>>
    /\ Goto(th, "wait")
    /\ UNCHANGED <<queue, cur>>

\* Mutant: waiting counts the queue only.
Enter_NoCount(th) ==
    /\ pc[th] = "enter"
    /\ Dequeue(th) \/ Sleep(th)
    /\ waiting' = IF queue = <<>> THEN waiting ELSE waiting - 1
    /\ UNCHANGED <<active, done, notified, loop, batch, n, lock, faults, leak, stuck>>

\* The mutex is taken, tp->waiting-- ("the number may become negative").
Enter(th) ==
    /\ pc[th] = "enter"
    /\ waiting' = waiting - 1
    /\ Dequeue(th) \/ Sleep(th)
    /\ UNCHANGED <<active, done, notified, loop, batch, n, lock, faults, leak, stuck>>

\* pthread_sigmask() or ngx_thread_mutex_lock() fails: the thread returns.
LockFails(th) ==
    /\ pc[th] = "enter"
    /\ faults < MaxFaults
    /\ faults' = faults + 1
    /\ Goto(th, "gone")
    /\ UNCHANGED <<queue, waiting, active, cur, done, notified, loop, batch, n, lock, leak, stuck>>

\* ngx_thread_cond_wait() may return without a signal.
SpuriousWakeup(th) ==
    /\ pc[th] = "wait"
    /\ Goto(th, "ready")
    /\ UNCHANGED <<queue, waiting, active, cur, done, notified, loop, batch, n, lock,
                   faults, leak, stuck>>

\* Back from the wait with the mutex taken: the queue is looked at again.
Recheck(th) ==
    /\ pc[th] = "ready"
    /\ Dequeue(th) \/ Sleep(th)
    /\ UNCHANGED <<waiting, active, done, notified, loop, batch, n, lock, faults, leak, stuck>>

\* ngx_thread_cond_wait() fails: the thread returns, still counted.
CondWaitFails(th) ==
    /\ pc[th] = "wait"
    /\ faults < MaxFaults
    /\ faults' = faults + 1
    /\ leak' = leak + 1
    /\ Goto(th, "gone")
    /\ UNCHANGED <<queue, waiting, active, cur, done, notified, loop, batch, n, lock, stuck>>

\* Mutant: the exit handler leaves the lock as it is.
Run_LockKept(th) ==
    /\ pc[th] = "run"
    /\ Goto(th, IF cur[th] = ExitTask THEN "gone" ELSE "finished")
    /\ UNCHANGED <<queue, waiting, active, cur, done, notified, loop, batch, n, lock, faults, leak, stuck>>

\* task->handler(); ngx_thread_pool_exit_handler ends the thread.
Run(th) ==
    /\ pc[th] = "run"
    /\ IF cur[th] = ExitTask
       THEN Goto(th, "gone") /\ lock' = FALSE
       ELSE Goto(th, "finished") /\ UNCHANGED lock
    /\ UNCHANGED <<queue, waiting, active, cur, done, notified, loop, batch, n, faults, leak, stuck>>

Finish(th) ==
    /\ pc[th] = "finished"
    /\ done' = Append(done, cur[th])
    /\ Goto(th, "notify")
    /\ UNCHANGED <<queue, waiting, active, cur, notified, loop, batch, n, lock, faults, leak, stuck>>

Notify(th) ==
    /\ pc[th] = "notify"
    /\ notified' = TRUE
    /\ Goto(th, "enter")
    /\ UNCHANGED <<queue, waiting, active, cur, done, loop, batch, n, lock, faults, leak, stuck>>

\* The write to the eventfd fails; the result of ngx_notify() is ignored.
NotifyFails(th) ==
    /\ pc[th] = "notify"
    /\ faults < MaxFaults
    /\ faults' = faults + 1
    /\ Goto(th, "enter")
    /\ UNCHANGED <<queue, waiting, active, cur, done, notified, loop, batch, n, lock, leak, stuck>>

-----------------------------------------------------------------------------
(* The event loop: ngx_epoll_process_events, ngx_thread_pool_handler *)

\* epoll_wait() reports the eventfd; the handler is about to run.
Notified ==
    /\ loop = "idle"
    /\ notified
    /\ notified' = FALSE
    /\ loop' = "handle"
    /\ UNCHANGED <<queue, waiting, active, pc, cur, done, batch, n, lock, faults, leak, stuck>>

\* The list is taken and reset under the spinlock.
TakeDone ==
    /\ loop = "handle"
    /\ batch' = done
    /\ done' = <<>>
    /\ loop' = "batch"
    /\ UNCHANGED <<queue, waiting, active, pc, cur, notified, n, lock, faults, leak, stuck>>

(* Mutant: task->next is read after the completion handler, which may have *)
(* posted the task again and so cleared it.                                *)
Complete_NextLate ==
    /\ loop = "batch" /\ batch # <<>>
    /\ active' = [active EXCEPT ![Head(batch)] = FALSE]
    /\ batch' \in {Tail(batch), <<>>}
    /\ UNCHANGED <<queue, waiting, pc, cur, done, notified, loop, n, lock, faults, leak, stuck>>

\* The next task is inactive again; its handler may post it (TaskPost).
Complete ==
    /\ loop = "batch" /\ batch # <<>>
    /\ active' = [active EXCEPT ![Head(batch)] = FALSE]
    /\ batch' = Tail(batch)
    /\ UNCHANGED <<queue, waiting, pc, cur, done, notified, loop, n, lock, faults, leak, stuck>>

\* Mutant: the eventfd is drained after the tasks have been completed.
BatchDone_DrainsLate ==
    /\ loop = "batch" /\ batch = <<>>
    /\ loop' = "idle"
    /\ notified' = FALSE
    /\ UNCHANGED <<queue, waiting, active, pc, cur, done, batch, n, lock, faults, leak, stuck>>

BatchDone ==
    /\ loop = "batch" /\ batch = <<>>
    /\ loop' = "idle"
    /\ UNCHANGED <<queue, waiting, active, pc, cur, done, notified, batch, n, lock, faults, leak, stuck>>

-----------------------------------------------------------------------------
(* ngx_thread_pool_exit_worker, ngx_thread_pool_destroy *)

ExitWorker ==
    /\ loop = "idle"
    /\ loop' = "destroy"
    /\ UNCHANGED <<queue, waiting, active, pc, cur, done, notified, batch, n, lock, faults, leak, stuck>>

DestroyPost ==
    /\ loop = "destroy" /\ n < Cardinality(Threads)
    /\ lock' = TRUE
    /\ \/ Enqueue(ExitTask) /\ loop' = "spin"
       \/ waiting >= MaxQueue /\ loop' = "abandoned" /\ UNCHANGED <<queue, waiting, active, pc>>
    /\ UNCHANGED <<cur, done, notified, batch, n, faults, leak, stuck>>

\* The signal fails: the other threads are left alone.
DestroyFails ==
    /\ loop = "destroy" /\ n < Cardinality(Threads)
    /\ waiting < MaxQueue
    /\ faults < MaxFaults
    /\ faults' = faults + 1
    /\ lock' = TRUE
    /\ active' = [active EXCEPT ![ExitTask] = TRUE]
    /\ loop' = "abandoned"
    /\ UNCHANGED <<queue, waiting, pc, cur, done, notified, batch, n, leak, stuck>>

\* Mutant: the loop does not wait for the thread.
DestroyNext_NoSpin ==
    /\ loop = "spin"
    /\ active' = [active EXCEPT ![ExitTask] = FALSE]
    /\ n' = n + 1
    /\ loop' = "destroy"
    /\ UNCHANGED <<queue, waiting, pc, cur, done, notified, batch, lock, faults, leak, stuck>>

\* while (lock) ngx_sched_yield(); task.event.active = 0;
DestroyNext ==
    /\ loop = "spin" /\ ~lock
    /\ active' = [active EXCEPT ![ExitTask] = FALSE]
    /\ n' = n + 1
    /\ loop' = "destroy"
    /\ UNCHANGED <<queue, waiting, pc, cur, done, notified, batch, lock, faults, leak, stuck>>

\* The condition variable and the mutex are destroyed.
DestroyEnd ==
    /\ loop = "destroy" /\ n = Cardinality(Threads)
    /\ loop' = "destroyed"
    /\ UNCHANGED <<queue, waiting, active, pc, cur, done, notified, batch, n, lock, faults, leak, stuck>>

-----------------------------------------------------------------------------
\* What a thread does by itself, and what the main thread does.
ThreadStep(th) == Enter(th) \/ Recheck(th) \/ Run(th) \/ Finish(th) \/ Notify(th)
ThreadFault(th) == SpuriousWakeup(th) \/ LockFails(th) \/ CondWaitFails(th) \/ NotifyFails(th)
LoopStep == Notified \/ TakeDone \/ Complete \/ BatchDone
DestroyStep == DestroyPost \/ DestroyNext \/ DestroyEnd

Next == \/ \E th \in Threads : ThreadStep(th) \/ ThreadFault(th)
        \/ \E t \in Tasks : TaskPost(t) \/ SignalFails(t)
        \/ LoopStep \/ ExitWorker \/ DestroyStep \/ DestroyFails

Spec == Init /\ [][Next]_vars

(* Threads that can run do, tasks end, the event loop and completion       *)
(* handlers return.  Nobody is obliged to post, and a worker need not exit.*)
FairSpec == /\ Spec
            /\ \A th \in Threads : WF_vars(ThreadStep(th))
            /\ WF_vars(LoopStep) /\ WF_vars(DestroyStep)

-----------------------------------------------------------------------------
(* Properties *)

\* Type invariant of the pool.
TypeOK ==
    /\ queue \in Seq(AllTasks) /\ done \in Seq(Tasks) /\ batch \in Seq(Tasks)
    /\ waiting \in Int
    /\ active \in [AllTasks -> BOOLEAN]
    /\ pc \in [Threads -> PCs] /\ cur \in [Threads -> AllTasks]
    /\ notified \in BOOLEAN /\ lock \in BOOLEAN
    /\ loop \in Loops
    /\ n \in 0..Cardinality(Threads)
    /\ faults \in Nat /\ leak \in Nat
    /\ stuck \subseteq Tasks

\* Threads that have decremented waiting and hold no task yet.
Idle == At({"wait", "ready"})

(* The comment "the number may become negative" made exact: waiting is the *)
(* length of the queue less the idle threads, and less the threads that    *)
(* died idle.                                                              *)
WaitingAccounting == waiting = Len(queue) - Cardinality(Idle) - leak

(* max_queue bounds the tasks beyond those an idle thread is about to      *)
(* take, whatever the order of posts, wakeups and threads that overtake    *)
(* them.                                                                   *)
QueueBound == Len(queue) <= MaxQueue + Cardinality(Idle) + leak

(* No wakeup is lost: as long as a thread sleeps, every queued task has a  *)
(* thread of its own that was woken, even if a busy thread takes the task  *)
(* first.                                                                  *)
NoLostWakeup == At({"wait"}) # {} => Len(queue) <= Cardinality(At({"ready"}))

\* How often t is somewhere between its post and its completion.
Copies(t) ==
    LET In(s) == Cardinality({k \in DOMAIN s : s[k] = t})
    IN  In(queue) + In(done) + In(batch)
        + Cardinality({th \in At({"run", "finished"}) : cur[th] = t})

(* A task that was accepted is in exactly one place until its completion   *)
(* handler is called, and then in none: it is neither lost nor run twice,  *)
(* also when the handler posts it again.                                   *)
TaskOnce == \A t \in Tasks : Copies(t) = IF active[t] /\ t \notin stuck THEN 1 ELSE 0

(* When the mutex and the condition variable are destroyed no thread is    *)
(* left to use them.                                                       *)
DestroyedUnused == loop = "destroyed" => At(PCs \ {"gone"}) = {}

\* The worker is leaving and completes no more tasks.
Leaving == loop \in {"destroy", "spin", "destroyed", "abandoned"}

\* No thread of the pool is left: failing calls made some leave.
NoThread == At(PCs \ {"gone"}) = {}

\* A call has failed, tasks are done and nobody will tell the event loop.
NotifyLost ==
    /\ faults > 0
    /\ done # <<>> /\ ~notified /\ At({"notify"}) = {} /\ loop = "idle"

(* Every accepted task is eventually completed, unless the worker leaves;  *)
(* with failing calls the only tasks that stay are those that were marked  *)
(* and not queued, those of a pool without threads, and those whose        *)
(* notification failed, until the next one.                                *)
TasksComplete ==
    \A t \in Tasks :
        []<>(~active[t] \/ Leaving \/ t \in stuck \/ NoThread \/ NotifyLost)

(* Ending the threads ends: all of them leave, or the queue is full.  The  *)
(* only endless wait is for a thread that has left before, after a failing *)
(* call.                                                                   *)
DestroyEnds ==
    []<>(loop \notin {"destroy", "spin"} \/ (loop = "spin" /\ NoThread))
=============================================================================
