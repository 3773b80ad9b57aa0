------------------------------- MODULE Shmtx -------------------------------
(***************************************************************************)
(* The shared-memory mutex of src/core/ngx_shmtx.c (the build with atomic  *)
(* operations), used by worker processes, any of which may be killed at    *)
(* any point, and the recovery that the master performs for a dead worker  *)
(* (ngx_process_get_status -> ngx_unlock_mutexes).                         *)
(*                                                                         *)
(* One action is one atomic access to shared memory.  A plain read of      *)
(* *mtx->lock followed by a compare-and-set is one access: it succeeds iff *)
(* the word is 0 at the compare-and-set.  The spin loop repeats the same   *)
(* access, so a failed attempt that is repeated is a stuttering step.  The *)
(* read / compare-and-set loop on *mtx->wait likewise takes effect at its  *)
(* last iteration.                                                         *)
(***************************************************************************)
EXTENDS Integers, FiniteSets

CONSTANTS Workers,    \* worker processes (their pids)
          Master,     \* the master process, which only recovers
          NoOwner,    \* 0, the free lock word
          MaxFaults   \* bound on kills and semaphore errors in one behaviour

ASSUME ShmtxAssumption ==
    /\ IsFiniteSet(Workers)
    /\ Master \notin Workers
    /\ NoOwner \notin Workers
    /\ MaxFaults \in Nat

Procs == Workers \cup {Master}

VARIABLES lock,       \* *mtx->lock
          wait,       \* *mtx->wait, read as signed
          sem,        \* value of mtx->sem
          semaphore,  \* mtx->semaphore: sem_init() succeeded
          pc,         \* where each process is
          faults,     \* kills and semaphore errors so far
          leak,       \* history: registrations abandoned minus posts lost
          broken      \* history: a fault hit a process that owed a wakeup

vars == <<lock, wait, sem, semaphore, pc, faults, leak, broken>>

(* "try": before the first attempt; "awake": before an attempt made after  *)
(* sem_wait() returned; "register", "recheck", "unregister", "sleep": the  *)
(* semaphore part of ngx_shmtx_lock; "cs": owns the mutex; "wake", "post": *)
(* inside ngx_shmtx_wakeup; "dead": killed, not reaped; "reaped": slot     *)
(* waiting for a respawn.                                                  *)
Trying     == {"try", "awake"}
Registered == {"recheck", "unregister", "sleep"}
Holding    == {"unregister", "cs"}
Waking     == {"wake", "post"}
OwesWakeup == {"awake"} \cup Waking
PCs        == Trying \cup Registered \cup Waking
              \cup {"idle", "register", "cs", "dead", "reaped"}

At(S) == {p \in Procs : pc[p] \in S}
Goto(p, l) == pc' = [pc EXCEPT ![p] = l]

Init == /\ lock = NoOwner
        /\ wait = 0
        /\ sem = 0
        /\ semaphore \in BOOLEAN
        /\ pc = [p \in Procs |-> "idle"]
        /\ faults = 0
        /\ leak = 0
        /\ broken = FALSE

-----------------------------------------------------------------------------
(* ngx_shmtx_lock and ngx_shmtx_trylock *)

\* ngx_shmtx_trylock: a single attempt; a failed one changes nothing.
Trylock(p) ==
    /\ pc[p] = "idle"
    /\ lock = NoOwner
    /\ lock' = p
    /\ Goto(p, "cs")
    /\ UNCHANGED <<wait, sem, semaphore, faults, leak, broken>>

Lock(p) ==
    /\ pc[p] = "idle"
    /\ Goto(p, "try")
    /\ UNCHANGED <<lock, wait, sem, semaphore, faults, leak, broken>>

\* Mutant: the lock word is stored instead of compared and exchanged.
Attempt_Store(p) ==
    /\ pc[p] \in Trying
    /\ lock' = p
    /\ Goto(p, "cs")
    /\ UNCHANGED <<wait, sem, semaphore, faults, leak, broken>>

\* An attempt of the loop, direct or while spinning, that succeeds.
Attempt(p) ==
    /\ pc[p] \in Trying
    /\ lock = NoOwner
    /\ lock' = p
    /\ Goto(p, "cs")
    /\ UNCHANGED <<wait, sem, semaphore, faults, leak, broken>>

\* Every attempt failed; without a semaphore the loop yields and starts over.
GiveUpSpinning(p) ==
    /\ pc[p] \in Trying
    /\ lock # NoOwner
    /\ semaphore
    /\ Goto(p, "register")
    /\ UNCHANGED <<lock, wait, sem, semaphore, faults, leak, broken>>

\* ngx_atomic_fetch_add(mtx->wait, 1)
Register(p) ==
    /\ pc[p] = "register"
    /\ wait' = wait + 1
    /\ Goto(p, "recheck")
    /\ UNCHANGED <<lock, sem, semaphore, faults, leak, broken>>

\* Mutant: no attempt between registering and sleeping.
Recheck_Sleeps(p) ==
    /\ pc[p] = "recheck"
    /\ Goto(p, "sleep")
    /\ UNCHANGED <<lock, wait, sem, semaphore, faults, leak, broken>>

\* Mutant: the registration is not taken back.
Recheck_StaysRegistered(p) ==
    /\ pc[p] = "recheck"
    /\ \/ /\ lock = NoOwner
          /\ lock' = p
          /\ Goto(p, "cs")
       \/ /\ lock # NoOwner
          /\ Goto(p, "sleep")
          /\ UNCHANGED lock
    /\ UNCHANGED <<wait, sem, semaphore, faults, leak, broken>>

\* The attempt made after registering, before going to sleep.
Recheck(p) ==
    /\ pc[p] = "recheck"
    /\ \/ /\ lock = NoOwner
          /\ lock' = p
          /\ Goto(p, "unregister")
       \/ /\ lock # NoOwner
          /\ Goto(p, "sleep")
          /\ UNCHANGED lock
    /\ UNCHANGED <<wait, sem, semaphore, faults, leak, broken>>

\* ngx_atomic_fetch_add(mtx->wait, -1)
Unregister(p) ==
    /\ pc[p] = "unregister"
    /\ wait' = wait - 1
    /\ Goto(p, "cs")
    /\ UNCHANGED <<lock, sem, semaphore, faults, leak, broken>>

\* sem_wait() takes a token; an EINTR return is retried and changes nothing.
SemWait(p) ==
    /\ pc[p] = "sleep"
    /\ sem > 0
    /\ sem' = sem - 1
    /\ Goto(p, "awake")
    /\ UNCHANGED <<lock, wait, semaphore, faults, leak, broken>>

\* sem_wait() fails for another reason: back to the loop, still counted in wait.
SemWaitFails(p) ==
    /\ pc[p] = "sleep"
    /\ faults < MaxFaults
    /\ faults' = faults + 1
    /\ leak' = leak + 1
    /\ Goto(p, "awake")
    /\ UNCHANGED <<lock, wait, sem, semaphore, broken>>

-----------------------------------------------------------------------------
(* ngx_shmtx_unlock and ngx_shmtx_wakeup *)

Unlock(p) ==
    /\ pc[p] = "cs"
    /\ IF lock = p THEN lock' = NoOwner /\ Goto(p, "wake")
                   ELSE UNCHANGED lock  /\ Goto(p, "idle")
    /\ UNCHANGED <<wait, sem, semaphore, faults, leak, broken>>

\* Mutant: off by one, the last waiter is not woken.
Wakeup_OffByOne(p) ==
    /\ pc[p] = "wake"
    /\ IF semaphore /\ wait > 1
       THEN wait' = wait - 1 /\ Goto(p, "post")
       ELSE UNCHANGED wait   /\ Goto(p, "idle")
    /\ UNCHANGED <<lock, sem, semaphore, faults, leak, broken>>

Wakeup(p) ==
    /\ pc[p] = "wake"
    /\ IF semaphore /\ wait > 0
       THEN wait' = wait - 1 /\ Goto(p, "post")
       ELSE UNCHANGED wait   /\ Goto(p, "idle")
    /\ UNCHANGED <<lock, sem, semaphore, faults, leak, broken>>

SemPost(p) ==
    /\ pc[p] = "post"
    /\ sem' = sem + 1
    /\ Goto(p, "idle")
    /\ UNCHANGED <<lock, wait, semaphore, faults, leak, broken>>

\* sem_post() fails: the error is logged and the wakeup is lost.
SemPostFails(p) ==
    /\ pc[p] = "post"
    /\ faults < MaxFaults
    /\ faults' = faults + 1
    /\ leak' = leak - 1
    /\ broken' = TRUE
    /\ Goto(p, "idle")
    /\ UNCHANGED <<lock, wait, sem, semaphore>>

-----------------------------------------------------------------------------
(* Death of a worker and its recovery by the master *)

\* A worker is killed wherever it is; what it left in shared memory stays.
Crash(p) ==
    /\ pc[p] \notin {"dead", "reaped"}
    /\ faults < MaxFaults
    /\ faults' = faults + 1
    /\ leak' = leak + (IF pc[p] \in Registered THEN 1 ELSE 0)
                    - (IF pc[p] = "post" THEN 1 ELSE 0)
    /\ broken' = (broken \/ pc[p] \in OwesWakeup)
    /\ Goto(p, "dead")
    /\ UNCHANGED <<lock, wait, sem, semaphore>>

\* Mutant: the mutex is freed whoever owns it.
ForceUnlock_AnyOwner(p) ==
    /\ pc[p] = "dead"
    /\ pc[Master] = "idle"
    /\ lock' = NoOwner
    /\ pc' = [pc EXCEPT ![p] = "reaped", ![Master] = "wake"]
    /\ UNCHANGED <<wait, sem, semaphore, faults, leak, broken>>

\* Mutant: the mutexes of a dead worker are not looked at.
ForceUnlock_Nothing(p) ==
    /\ pc[p] = "dead"
    /\ pc[Master] = "idle"
    /\ Goto(p, "reaped")
    /\ UNCHANGED <<lock, wait, sem, semaphore, faults, leak, broken>>

(* SIGCHLD is delivered to the master only inside sigsuspend(), hence when *)
(* it is idle: waitpid() reports p, and ngx_unlock_mutexes() frees the     *)
(* mutex if, and only if, p owned it.                                      *)
ForceUnlock(p) ==
    /\ pc[p] = "dead"
    /\ pc[Master] = "idle"
    /\ IF lock = p
       THEN /\ lock' = NoOwner
            /\ pc' = [pc EXCEPT ![p] = "reaped", ![Master] = "wake"]
       ELSE /\ UNCHANGED lock
            /\ Goto(p, "reaped")
    /\ UNCHANGED <<wait, sem, semaphore, faults, leak, broken>>

\* Mutant: the new process is started before the mutexes are recovered.
Respawn_Early(p) ==
    /\ pc[p] \in {"dead", "reaped"}
    /\ pc[Master] = "idle"
    /\ Goto(p, "idle")
    /\ UNCHANGED <<lock, wait, sem, semaphore, faults, leak, broken>>

\* ngx_reap_children() runs after the signal handler returned; the new
\* process may get the pid of the old one.
Respawn(p) ==
    /\ pc[p] = "reaped"
    /\ pc[Master] = "idle"
    /\ Goto(p, "idle")
    /\ UNCHANGED <<lock, wait, sem, semaphore, faults, leak, broken>>

-----------------------------------------------------------------------------
\* A step a process takes inside a call, or to leave its critical section.
Step(p) == \/ Attempt(p) \/ GiveUpSpinning(p) \/ Register(p) \/ Recheck(p)
           \/ Unregister(p) \/ SemWait(p) \/ Unlock(p) \/ Wakeup(p) \/ SemPost(p)

Call(p)    == Trylock(p) \/ Lock(p)
Fault(p)   == Crash(p) \/ SemWaitFails(p)
Recovery(p) == ForceUnlock(p) \/ Respawn(p)

Next == \/ \E p \in Workers : Call(p) \/ Fault(p) \/ Recovery(p)
        \/ \E p \in Procs : Step(p) \/ SemPostFails(p)

Spec == Init /\ [][Next]_vars

(* A process that is inside a call, or owns the mutex, keeps running, and  *)
(* the master reaps its children; nobody is obliged to call.               *)
FairSpec == /\ Spec
            /\ \A p \in Procs : WF_vars(Step(p))
            /\ \A p \in Workers : WF_vars(ForceUnlock(p))

-----------------------------------------------------------------------------
(* Properties *)

(* Type invariant.  The semaphore count is natural: sem_wait() never takes *)
(* a token that is not there.                                              *)
TypeOK == /\ lock \in Workers \cup {NoOwner}
          /\ wait \in Int
          /\ sem \in Nat
          /\ semaphore \in BOOLEAN
          /\ pc \in [Procs -> PCs]
          /\ pc[Master] \in {"idle"} \cup Waking
          /\ faults \in 0..MaxFaults
          /\ leak \in Int
          /\ broken \in BOOLEAN

(* Mutual exclusion: no two workers are past a successful attempt and      *)
(* before their unlock, even when other holders have been killed and their *)
(* lock has been forced open by the master.                                *)
MutualExclusion ==
    \A p, q \in Workers : pc[p] \in Holding /\ pc[q] \in Holding => p = q

(* The lock word names a live holder, or a dead worker the master has yet  *)
(* to recover, and a live holder is always named by it: a respawned worker *)
(* that reuses a pid never inherits the mutex.                             *)
OwnerIsHolder ==
    /\ \A p \in Workers : pc[p] \in Holding => lock = p
    /\ lock # NoOwner => pc[lock] \in Holding \cup {"dead"}

(* Every registration in *mtx->wait is matched: what is still counted,     *)
(* plus the semaphore tokens, plus the posts about to be made, are the     *)
(* processes between their registration and their wakeup, up to what       *)
(* faults abandoned.                                                       *)
WakeupAccounting ==
    wait + sem + Cardinality(At({"post"})) = Cardinality(At(Registered)) + leak

(* No wakeup is lost: a process never sleeps on a free mutex unless a      *)
(* token, a waker or an already woken process is under way to it (unless a *)
(* fault hit a process that owed exactly that wakeup).                     *)
NoLostWakeup ==
    (At({"sleep"}) # {} /\ lock = NoOwner /\ ~broken)
        => (sem > 0 \/ At(OwesWakeup) # {})

\* The mutex of a killed worker is eventually freed by the master.
DeadOwnerRecovered ==
    \A p \in Workers : (lock = p /\ pc[p] = "dead") ~> (lock # p)

(* As long as no fault hits a process that owes a wakeup, whenever someone *)
(* waits for the mutex someone eventually gets it (or the last waiter is   *)
(* killed).                                                                *)
SomeoneGetsIn ==
    [](~broken) => (At(Trying \cup {"register", "recheck", "sleep"}) # {}
                        ~> (\/ At(Holding) # {}
                            \/ At(Trying \cup {"register", "recheck", "sleep"}) = {}))

\* The workers that have not been killed.
Alive == {p \in Workers : pc[p] \notin {"dead", "reaped"}}
M == INSTANCE Mutex WITH owner <- lock, alive <- Alive
(* ngx_shmtx with the master's recovery implements a mutex whose owner may *)
(* die: the lock is only taken when free, released by its owner, and taken *)
(* back from a dead owner before that worker is replaced.                  *)
ImplementsMutex == M!MSpec
=============================================================================
