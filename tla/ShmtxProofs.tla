---------------------------- MODULE ShmtxProofs ----------------------------
(***************************************************************************)
(* Proofs about Shmtx for any finite set of workers and any number of      *)
(* faults.                                                                 *)
(***************************************************************************)
EXTENDS Shmtx, FiniteSetTheorems, TLAPS

\* Without a semaphore nobody registers, so nobody can be left asleep.
SleepNeedsSemaphore ==
    ~semaphore => At(Registered \cup {"register"}) = {}

\* Only a fault that hits a process owing a wakeup can lose a post.
LeakSign == ~broken => leak >= 0

IInv == /\ TypeOK
        /\ OwnerIsHolder
        /\ SleepNeedsSemaphore
        /\ LeakSign
        /\ WakeupAccounting
        /\ NoLostWakeup

\* 1 if x is in S, else 0: how much x counts in a cardinality of S.
Count(x, S) == IF x \in S THEN 1 ELSE 0

-----------------------------------------------------------------------------
(* Counting processes by their position *)

\* There are finitely many processes: the master and its workers.
LEMMA ProcsFinite == IsFiniteSet(Procs) /\ Master \in Procs /\ Workers \subseteq Procs
  BY ZenonT(40), ShmtxAssumption, FS_Singleton, FS_Union DEF Procs

\* So the processes at a set of positions can be counted.
LEMMA AtFinite == ASSUME NEW S PROVE IsFiniteSet(At(S)) /\ Cardinality(At(S)) \in Nat
  <1>1. At(S) \subseteq Procs
    BY Zenon DEF At
  <1>2. QED
    BY <1>1, ProcsFinite, FS_Subset, FS_CardinalityType, Zenon

\* When one process moves, a count changes by what that process contributed
\* before and after.
LEMMA MoveOne ==
    ASSUME pc \in [Procs -> PCs], NEW p \in Procs, NEW l, Goto(p, l), NEW S
    PROVE  Cardinality(At(S)') = Cardinality(At(S)) - Count(pc[p], S) + Count(l, S)
  <1> DEFINE A == At(S)
             B == At(S)'
  <1>1. pc'[p] = l /\ \A q \in Procs \ {p} : pc'[q] = pc[q]
    BY Zenon DEF Goto
  <1>2. IsFiniteSet(A) /\ Cardinality(A) \in Nat
    BY AtFinite, Zenon
  <1>3. A \ {p} = B \ {p}
    BY <1>1 DEF At
  <1>4. IsFiniteSet(A \ {p}) /\ Cardinality(A \ {p}) = Cardinality(A) - Count(pc[p], S)
    <2>1. p \in A <=> pc[p] \in S
      BY Zenon DEF At
    <2>2. CASE p \in A
      BY <2>1, <2>2, <1>2, FS_RemoveElement, Zenon DEF Count
    <2>3. CASE p \notin A
      <3>1. A \ {p} = A
        BY <2>3, Zenon
      <3>2. Count(pc[p], S) = 0
        BY <2>1, <2>3, Zenon DEF Count
      <3> HIDE DEF A
      <3>3. QED
        BY <3>1, <3>2, <1>2
    <2>4. QED
      BY <2>2, <2>3, Zenon
  <1>5. Cardinality(B) = Cardinality(B \ {p}) + Count(l, S)
    <2>1. p \in B <=> l \in S
      BY <1>1, Zenon DEF At
    <2>2. CASE p \in B
      <3>1. B = (B \ {p}) \cup {p} /\ p \notin B \ {p}
        BY <2>2, Zenon
      <3>2. IsFiniteSet(B \ {p})
        BY <1>3, <1>4, Zenon
      <3>3. Cardinality((B \ {p}) \cup {p}) = Cardinality(B \ {p}) + 1
        BY <3>1, <3>2, FS_AddElement, Zenon
      <3>4. QED
        BY <3>1, <3>3, <2>1, <2>2, Zenon DEF Count
    <2>3. CASE p \notin B
      <3>1. B \ {p} = B
        BY <2>3, Zenon
      <3>2. Cardinality(B) \in Nat
        BY ZenonT(40), <3>1, <1>3, <1>4, FS_CardinalityType
      <3>3. Count(l, S) = 0
        BY <2>1, <2>3, Zenon DEF Count
      <3> HIDE DEF A, B
      <3>4. QED
        BY <3>1, <3>2, <3>3
    <2>4. QED
      BY <2>2, <2>3, Zenon
  <1>6. QED
    BY ZenonT(40), <1>2, <1>3, <1>4, <1>5

-----------------------------------------------------------------------------
(* Each conjunct of the inductive invariant is preserved *)

\* The types survive every step of the code, of a fault and of a recovery.
LEMMA TypeStep == TypeOK /\ [Next]_vars => TypeOK'
  <1> SUFFICES ASSUME TypeOK, [Next]_vars PROVE TypeOK'
    BY Zenon
  <1> USE ShmtxAssumption DEF TypeOK, Procs, PCs, Trying, Registered, Waking, Goto
  <1>1. ASSUME NEW p \in Workers, Call(p) PROVE TypeOK'
    BY <1>1, Zenon DEF Call, Trylock, Lock
  <1>2. ASSUME NEW p \in Workers, Fault(p) PROVE TypeOK'
    <2>1. CASE Crash(p)
      BY <2>1 DEF Crash, OwesWakeup
    <2>2. CASE SemWaitFails(p)
      BY <2>2 DEF SemWaitFails
    <2>3. QED
      BY <1>2, <2>1, <2>2, Zenon DEF Fault
  <1>3. ASSUME NEW p \in Workers, Recovery(p) PROVE TypeOK'
    BY <1>3, Zenon DEF Recovery, ForceUnlock, Respawn
  <1>4. ASSUME NEW p \in Procs, Step(p) PROVE TypeOK'
    <2>1. CASE Attempt(p) \/ GiveUpSpinning(p) \/ Register(p)
      BY <2>1 DEF Attempt, GiveUpSpinning, Register
    <2>2. CASE Recheck(p) \/ Unregister(p) \/ SemWait(p)
      BY <2>2 DEF Recheck, Unregister, SemWait
    <2>3. CASE Unlock(p) \/ Wakeup(p) \/ SemPost(p)
      BY <2>3 DEF Unlock, Wakeup, SemPost
    <2>4. QED
      BY <1>4, <2>1, <2>2, <2>3, Zenon DEF Step
  <1>5. ASSUME NEW p \in Procs, SemPostFails(p) PROVE TypeOK'
    BY <1>5 DEF SemPostFails
  <1>6. CASE UNCHANGED vars
    BY <1>6, Zenon DEF vars
  <1>7. QED
    BY <1>1, <1>2, <1>3, <1>4, <1>5, <1>6, Zenon DEF Next

(* The lock word names the holder after every step: only a compare and swap *)
(* from 0 sets it, only its owner or a recovery for its owner clears it.    *)
LEMMA OwnerStep == TypeOK /\ OwnerIsHolder /\ [Next]_vars => OwnerIsHolder'
  <1> SUFFICES ASSUME TypeOK, OwnerIsHolder, [Next]_vars PROVE OwnerIsHolder'
    BY Zenon
  <1> USE ShmtxAssumption
      DEF TypeOK, OwnerIsHolder, Procs, Holding, Trying, Waking, Goto
  <1>1. ASSUME NEW p \in Workers, Call(p) PROVE OwnerIsHolder'
    BY <1>1, Zenon DEF Call, Trylock, Lock
  <1>2. ASSUME NEW p \in Workers, Fault(p) PROVE OwnerIsHolder'
    BY <1>2, Zenon DEF Fault, Crash, SemWaitFails
  <1>3. ASSUME NEW p \in Workers, Recovery(p) PROVE OwnerIsHolder'
    BY <1>3, Zenon DEF Recovery, ForceUnlock, Respawn
  <1>4. ASSUME NEW p \in Procs, Step(p) PROVE OwnerIsHolder'
    <2>1. CASE Attempt(p) \/ GiveUpSpinning(p) \/ Register(p)
      BY <2>1, Zenon DEF Attempt, GiveUpSpinning, Register
    <2>2. CASE Recheck(p) \/ Unregister(p) \/ SemWait(p)
      BY <2>2, Zenon DEF Recheck, Unregister, SemWait
    <2>3. CASE Unlock(p) \/ Wakeup(p) \/ SemPost(p)
      BY <2>3, Zenon DEF Unlock, Wakeup, SemPost
    <2>4. QED
      BY <1>4, <2>1, <2>2, <2>3, Zenon DEF Step
  <1>5. ASSUME NEW p \in Procs, SemPostFails(p) PROVE OwnerIsHolder'
    BY <1>5, Zenon DEF SemPostFails
  <1>6. CASE UNCHANGED vars
    BY <1>6, Zenon DEF vars
  <1>7. QED
    BY <1>1, <1>2, <1>3, <1>4, <1>5, <1>6, Zenon DEF Next

\* mtx->semaphore is tested before a process registers in mtx->wait.
LEMMA SemaphoreStep ==
    TypeOK /\ SleepNeedsSemaphore /\ [Next]_vars => SleepNeedsSemaphore'
  <1> SUFFICES ASSUME TypeOK, SleepNeedsSemaphore, [Next]_vars
               PROVE  SleepNeedsSemaphore'
    BY Zenon
  <1> USE ShmtxAssumption
      DEF TypeOK, SleepNeedsSemaphore, At, Registered, Procs, Goto
  <1>1. ASSUME NEW p \in Workers, Call(p) \/ Fault(p) \/ Recovery(p)
        PROVE  SleepNeedsSemaphore'
    BY <1>1, Zenon DEF Call, Trylock, Lock, Fault, Crash, SemWaitFails, Recovery,
                ForceUnlock, Respawn
  <1>2. ASSUME NEW p \in Procs, Step(p) \/ SemPostFails(p)
        PROVE  SleepNeedsSemaphore'
    <2>1. CASE Attempt(p) \/ GiveUpSpinning(p) \/ Register(p) \/ Recheck(p)
      BY <2>1, Zenon DEF Attempt, GiveUpSpinning, Register, Recheck
    <2>2. CASE Unregister(p) \/ SemWait(p) \/ Unlock(p) \/ Wakeup(p)
               \/ SemPost(p) \/ SemPostFails(p)
      BY <2>2, Zenon DEF Unregister, SemWait, Unlock, Wakeup, SemPost, SemPostFails
    <2>3. QED
      BY <1>2, <2>1, <2>2, Zenon DEF Step
  <1>3. CASE UNCHANGED vars
    BY <1>3, Zenon DEF vars
  <1>4. QED
    BY <1>1, <1>2, <1>3, Zenon DEF Next

\* Only a fault of a process that owes a wakeup makes the balance negative.
LEMMA LeakStep == TypeOK /\ LeakSign /\ [Next]_vars => LeakSign'
  <1> SUFFICES ASSUME TypeOK, LeakSign, [Next]_vars PROVE LeakSign'
    BY Zenon
  <1> USE DEF TypeOK, LeakSign
  <1>1. ASSUME NEW p \in Workers, Call(p) \/ Recovery(p) \/ SemWaitFails(p)
        PROVE  LeakSign'
    BY <1>1 DEF Call, Trylock, Lock, SemWaitFails, Recovery, ForceUnlock, Respawn
  <1>2. ASSUME NEW p \in Workers, Crash(p) PROVE LeakSign'
    <2>1. ~broken' => ~broken /\ pc[p] # "post"
      BY ZenonT(40), <1>2 DEF Crash, OwesWakeup, Waking
    <2>2. pc[p] # "post" => leak' \in Int /\ leak' >= leak
      BY <1>2 DEF Crash
    <2>3. QED
      BY <2>1, <2>2
  <1>3. ASSUME NEW p \in Procs, Step(p) \/ SemPostFails(p) PROVE LeakSign'
    BY <1>3, Zenon DEF Step, Attempt, GiveUpSpinning, Register, Recheck, Unregister,
                SemWait, Unlock, Wakeup, SemPost, SemPostFails
  <1>4. CASE UNCHANGED vars
    BY <1>4, Zenon DEF vars
  <1>5. QED
    BY <1>1, <1>2, <1>3, <1>4, Zenon DEF Next, Fault

(* Registering, waking, posting and sleeping move one unit from one place  *)
(* to the next; a fault books its unit in leak.                            *)
LEMMA AccountingStep ==
    TypeOK /\ WakeupAccounting /\ [Next]_vars => WakeupAccounting'
  <1> SUFFICES ASSUME TypeOK, WakeupAccounting, [Next]_vars
               PROVE  WakeupAccounting'
    BY Zenon
  <1> DEFINE R == Cardinality(At(Registered))
             P == Cardinality(At({"post"}))
  <1>a. R \in Nat /\ P \in Nat
    BY AtFinite, Zenon
  <1>b. wait \in Int /\ sem \in Nat /\ leak \in Int /\ wait + sem + P = R + leak
    BY Zenon DEF TypeOK, WakeupAccounting
  <1>c. ASSUME NEW p \in Procs, NEW l, Goto(p, l)
        PROVE  /\ R' = R - Count(pc[p], Registered) + Count(l, Registered)
               /\ P' = P - Count(pc[p], {"post"}) + Count(l, {"post"})
    BY <1>c, MoveOne, Zenon DEF TypeOK
  <1>d. SUFFICES wait' + sem' + P' = R' + leak'
    BY Zenon DEF WakeupAccounting
  <1> HIDE DEF R, P
  <1> USE DEF Count, Registered, Trying, Waking
  <1>1. ASSUME NEW p \in Workers, Call(p) PROVE wait' + sem' + P' = R' + leak'
    BY <1>1, <1>a, <1>b, <1>c DEF Call, Trylock, Lock, Procs
  <1>2. ASSUME NEW p \in Workers, Crash(p) PROVE wait' + sem' + P' = R' + leak'
    BY SMTT(40), <1>2, <1>a, <1>b, <1>c DEF Crash, Procs
  <1>3. ASSUME NEW p \in Workers, SemWaitFails(p)
        PROVE  wait' + sem' + P' = R' + leak'
    BY <1>3, <1>a, <1>b, <1>c DEF SemWaitFails, Procs
  <1>4. ASSUME NEW p \in Workers, ForceUnlock(p)
        PROVE  wait' + sem' + P' = R' + leak'
    <2>1. ASSUME NEW S \in {Registered, {"post"}} PROVE At(S)' = At(S)
      BY <1>4, ShmtxAssumption, Zenon DEF ForceUnlock, Goto, At, TypeOK, Procs
    <2>2. R' = R /\ P' = P
      BY <2>1, Zenon DEF R, P
    <2>3. QED
      BY <1>4, <1>a, <1>b, <2>2, Zenon DEF ForceUnlock
  <1>5. ASSUME NEW p \in Workers, Respawn(p) PROVE wait' + sem' + P' = R' + leak'
    BY <1>5, <1>a, <1>b, <1>c DEF Respawn, Procs
  <1>6. ASSUME NEW p \in Procs, Step(p) PROVE wait' + sem' + P' = R' + leak'
    <2>1. CASE Attempt(p) \/ GiveUpSpinning(p)
      BY <2>1, <1>a, <1>b, <1>c DEF Attempt, GiveUpSpinning
    <2>2. CASE Register(p)
      BY <2>2, <1>a, <1>b, <1>c DEF Register
    <2>3. CASE Recheck(p)
      BY <2>3, <1>a, <1>b, <1>c DEF Recheck
    <2>4. CASE Unregister(p)
      BY <2>4, <1>a, <1>b, <1>c DEF Unregister
    <2>5. CASE SemWait(p)
      BY SMTT(40), <2>5, <1>a, <1>b, <1>c DEF SemWait
    <2>6. CASE Unlock(p)
      BY <2>6, <1>a, <1>b, <1>c DEF Unlock
    <2>7. CASE Wakeup(p)
      BY SMTT(40), <2>7, <1>a, <1>b, <1>c DEF Wakeup
    <2>8. CASE SemPost(p)
      BY <2>8, <1>a, <1>b, <1>c DEF SemPost
    <2>9. QED
      BY <1>6, <2>1, <2>2, <2>3, <2>4, <2>5, <2>6, <2>7, <2>8, Zenon DEF Step
  <1>7. ASSUME NEW p \in Procs, SemPostFails(p)
        PROVE  wait' + sem' + P' = R' + leak'
    BY <1>7, <1>a, <1>b, <1>c DEF SemPostFails
  <1>8. CASE UNCHANGED vars
    <2>1. R' = R /\ P' = P
      BY <1>8, Zenon DEF vars, R, P, At
    <2>2. QED
      BY <1>8, <1>b, <2>1, Zenon DEF vars
  <1>9. QED
    BY <1>1, <1>2, <1>3, <1>4, <1>5, <1>6, <1>7, <1>8, Zenon DEF Next, Fault, Recovery

\* A sleeper, no lost post and nothing left to hand out in wait: the wakeup
\* is a token or a post under way.
LEMMA SomeoneWillPost ==
    ASSUME TypeOK, WakeupAccounting, leak >= 0, wait <= 0, At({"sleep"}) # {}
    PROVE  sem > 0 \/ At({"post"}) # {}
  <1>1. PICK p \in Procs : pc[p] = "sleep"
    BY Zenon DEF At
  <1>2. At(Registered) # {} /\ IsFiniteSet(At(Registered))
    BY ZenonT(40), <1>1, AtFinite DEF At, Registered
  <1>3. Cardinality(At(Registered)) \in Nat /\ Cardinality(At(Registered)) # 0
    BY <1>2, AtFinite, FS_EmptySet, Zenon
  <1>4. sem + Cardinality(At({"post"})) > 0
    BY <1>3, AtFinite DEF TypeOK, WakeupAccounting
  <1>5. QED
    BY <1>4, AtFinite, FS_EmptySet DEF TypeOK

(* A step that frees the mutex leaves somebody who owes the wakeup, and one *)
(* that pays the wakeup leaves a token, a post or a process that tries.     *)
LEMMA WakeupStep == IInv /\ [Next]_vars => NoLostWakeup'
  <1> SUFFICES ASSUME IInv, [Next]_vars,
                      At({"sleep"})' # {}, lock' = NoOwner, ~broken'
               PROVE  sem' > 0 \/ At(OwesWakeup)' # {}
    BY Zenon DEF NoLostWakeup
  <1> USE ShmtxAssumption DEF Procs, At, OwesWakeup, Waking, Goto
  <1>a. TypeOK /\ OwnerIsHolder /\ NoLostWakeup
    BY Zenon DEF IInv
  <1>1. ASSUME NEW p \in Workers, Call(p)
        PROVE  sem' > 0 \/ At(OwesWakeup)' # {}
    BY <1>1, <1>a, Zenon DEF Call, Trylock, Lock, NoLostWakeup, TypeOK
  <1>2. ASSUME NEW p \in Workers, Crash(p)
        PROVE  sem' > 0 \/ At(OwesWakeup)' # {}
    BY ZenonT(40), <1>2, <1>a DEF Crash, NoLostWakeup, TypeOK
  <1>3. ASSUME NEW p \in Workers, SemWaitFails(p)
        PROVE  sem' > 0 \/ At(OwesWakeup)' # {}
    BY <1>3, <1>a, Zenon DEF SemWaitFails, TypeOK
  <1>4. ASSUME NEW p \in Workers, ForceUnlock(p)
        PROVE  sem' > 0 \/ At(OwesWakeup)' # {}
    BY <1>4, <1>a, Zenon DEF ForceUnlock, NoLostWakeup, TypeOK
  <1>5. ASSUME NEW p \in Workers, Respawn(p)
        PROVE  sem' > 0 \/ At(OwesWakeup)' # {}
    BY <1>5, <1>a, Zenon DEF Respawn, NoLostWakeup, TypeOK
  <1>6. ASSUME NEW p \in Procs, Step(p)
        PROVE  sem' > 0 \/ At(OwesWakeup)' # {}
    <2>1. CASE Attempt(p) \/ GiveUpSpinning(p) \/ Recheck(p)
      BY <2>1, <1>a, Zenon DEF Attempt, GiveUpSpinning, Recheck, Trying, TypeOK
    <2>2. CASE Register(p)
      BY <2>2, <1>a, Zenon DEF Register, NoLostWakeup, TypeOK
    <2>3. CASE Unregister(p)
      BY <2>3, <1>a, Zenon DEF Unregister, OwnerIsHolder, Holding, TypeOK
    <2>4. CASE SemWait(p)
      BY <2>4, <1>a, Zenon DEF SemWait, TypeOK
    <2>5. CASE Unlock(p)
      BY <2>5, <1>a, Zenon DEF Unlock, OwnerIsHolder, Holding, TypeOK
    <2>6. CASE Wakeup(p)
      <3>1. CASE semaphore /\ wait > 0
        BY <2>6, <3>1, <1>a, Zenon DEF Wakeup, TypeOK
      <3>2. CASE ~(semaphore /\ wait > 0)
        <4>1. At({"sleep"}) # {} /\ ~broken /\ sem' = sem
          BY <2>6, <3>2, <1>a, Zenon DEF Wakeup, TypeOK
        <4>2. semaphore
          BY <4>1, Zenon DEF IInv, SleepNeedsSemaphore, Registered
        <4>3. wait <= 0 /\ leak >= 0
          BY <3>2, <4>1, <4>2 DEF IInv, TypeOK, LeakSign
        <4>4. sem > 0 \/ At({"post"}) # {}
          BY <4>1, <4>3, <1>a, SomeoneWillPost, Zenon DEF IInv
        <4>5. QED
          BY SMTT(40), <4>1, <4>4, <2>6, <3>2, <1>a DEF Wakeup, TypeOK
      <3>3. QED
        BY <3>1, <3>2, Zenon
    <2>7. CASE SemPost(p)
      BY <2>7, <1>a DEF SemPost, TypeOK
    <2>8. QED
      BY <1>6, <2>1, <2>2, <2>3, <2>4, <2>5, <2>6, <2>7, Zenon DEF Step
  <1>7. ASSUME NEW p \in Procs, SemPostFails(p)
        PROVE  sem' > 0 \/ At(OwesWakeup)' # {}
    BY <1>7, Zenon DEF SemPostFails
  <1>8. CASE UNCHANGED vars
    BY <1>8, <1>a, Zenon DEF vars, NoLostWakeup
  <1>9. QED
    BY <1>1, <1>2, <1>3, <1>4, <1>5, <1>6, <1>7, <1>8, Zenon DEF Next, Fault, Recovery

-----------------------------------------------------------------------------
(* The theorems *)

\* A mutex that was just created satisfies the inductive invariant.
LEMMA InitInv == Init => IInv
  <1> SUFFICES ASSUME Init PROVE IInv
    BY Zenon
  <1>1. TypeOK
    <2>1. pc \in [Procs -> PCs] /\ pc[Master] = "idle"
      BY Zenon DEF Init, PCs, Procs
    <2>2. 0 \in 0..MaxFaults
      BY ShmtxAssumption
    <2>3. semaphore \in BOOLEAN /\ broken \in BOOLEAN
      BY ZenonT(40) DEF Init
    <2>4. QED
      BY <2>1, <2>2, <2>3 DEF Init, TypeOK
  <1>2. At(Registered \cup {"register"}) = {} /\ At(Registered) = {}
        /\ At({"post"}) = {} /\ At({"sleep"}) = {}
    BY Zenon DEF Init, At, Registered
  <1>3. WakeupAccounting
    BY SMTT(40), <1>2, FS_EmptySet DEF Init, WakeupAccounting
  <1>4. OwnerIsHolder /\ SleepNeedsSemaphore /\ LeakSign /\ NoLostWakeup
    BY <1>2 DEF Init, OwnerIsHolder, Holding, SleepNeedsSemaphore, LeakSign,
                NoLostWakeup, Procs
  <1>5. QED
    BY <1>1, <1>3, <1>4, Zenon DEF IInv

(* The inductive invariant of ngx_shmtx_lock, _unlock, _wakeup and the     *)
(* master's ngx_shmtx_force_unlock.                                        *)
THEOREM Invariance == Spec => []IInv
  <1>1. IInv /\ [Next]_vars => IInv'
    BY Zenon, TypeStep, OwnerStep, SemaphoreStep, LeakStep, AccountingStep, WakeupStep
       DEF IInv
  <1>2. QED
    BY InitInv, <1>1, PTL DEF Spec

(* The variables keep their types. *)
THEOREM TypeCorrect == Spec => []TypeOK
  BY Invariance, PTL DEF IInv

(* No two workers hold the mutex, for any number of workers and faults. *)
THEOREM Exclusion == Spec => []MutualExclusion
  <1>1. IInv => MutualExclusion
    BY Zenon DEF IInv, OwnerIsHolder, MutualExclusion
  <1>2. QED
    BY Invariance, <1>1, PTL

(* The lock word and the holder agree across kills, forced unlocks and pid *)
(* reuse.                                                                  *)
THEOREM OwnerCorrect == Spec => []OwnerIsHolder
  BY Invariance, PTL DEF IInv

(* wait, the semaphore and the wakers account for every registration. *)
THEOREM AccountingCorrect == Spec => []WakeupAccounting
  BY Invariance, PTL DEF IInv

(* ngx_shmtx_wakeup never leaves a sleeper behind on a free mutex. *)
THEOREM WakeupNotLost == Spec => []NoLostWakeup
  BY Invariance, PTL DEF IInv

\* Every step of the code is a step of the abstract mutex, or none.
LEMMA StepSimulation == TypeOK /\ OwnerIsHolder /\ [Next]_vars => [M!MNext]_(M!mvars)
  <1> SUFFICES ASSUME TypeOK, OwnerIsHolder, [Next]_vars
               PROVE  [M!MNext]_(M!mvars)
    BY Zenon
  <1> USE ShmtxAssumption DEF TypeOK, Procs, Alive, Goto, M!mvars, M!MNext
  <1>1. ASSUME NEW p \in Workers, Call(p) PROVE [M!MNext]_(M!mvars)
    BY <1>1, Zenon DEF Call, Trylock, Lock, M!Acquire
  <1>2. ASSUME NEW p \in Workers, Fault(p) PROVE [M!MNext]_(M!mvars)
    BY <1>2, Zenon DEF Fault, Crash, SemWaitFails, M!Die
  <1>3. ASSUME NEW p \in Workers, ForceUnlock(p) PROVE [M!MNext]_(M!mvars)
    BY <1>3, Zenon DEF ForceUnlock, M!Recover
  <1>4. ASSUME NEW p \in Workers, Respawn(p) PROVE [M!MNext]_(M!mvars)
    BY <1>4, Zenon DEF Respawn, OwnerIsHolder, Holding, M!Replace
  <1>5. ASSUME NEW p \in Procs, Step(p) PROVE [M!MNext]_(M!mvars)
    <2>1. CASE Attempt(p) \/ Recheck(p)
      BY <2>1, Zenon DEF Attempt, Recheck, Trying, Waking, M!Acquire
    <2>2. CASE GiveUpSpinning(p) \/ Register(p) \/ Unregister(p) \/ SemWait(p)
      BY <2>2, Zenon DEF GiveUpSpinning, Register, Unregister, SemWait, Trying
    <2>3. CASE Unlock(p)
      BY <2>3, Zenon DEF Unlock, Waking, M!Release
    <2>4. CASE Wakeup(p) \/ SemPost(p)
      BY <2>4, Zenon DEF Wakeup, SemPost
    <2>5. QED
      BY <1>5, <2>1, <2>2, <2>3, <2>4, Zenon DEF Step
  <1>6. ASSUME NEW p \in Procs, SemPostFails(p) PROVE [M!MNext]_(M!mvars)
    BY <1>6, Zenon DEF SemPostFails
  <1>7. CASE UNCHANGED vars
    BY <1>7, Zenon DEF vars
  <1>8. QED
    BY <1>1, <1>2, <1>3, <1>4, <1>5, <1>6, <1>7, Zenon DEF Next, Recovery

(* ngx_shmtx with the master's recovery implements the abstract mutex. *)
THEOREM Refinement == Spec => ImplementsMutex
  <1>1. Init => M!MInit
    BY Zenon DEF Init, M!MInit, Alive, Procs
  <1>2. IInv /\ [Next]_vars => [M!MNext]_(M!mvars)
    BY StepSimulation, Zenon DEF IInv
  <1>3. QED
    BY <1>1, <1>2, Invariance, PTL DEF Spec, ImplementsMutex, M!MSpec
=============================================================================
