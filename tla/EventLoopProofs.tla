-------------------------- MODULE EventLoopProofs --------------------------
(***************************************************************************)
(* Proofs about EventLoop and the read-write lock its handlers use, for    *)
(* any number of workers, sockets, connections and faults.                 *)
(***************************************************************************)
EXTENDS EventLoop, FiniteSetTheorems, TLAPS

\* There is at most one writer.
OneWriter == \A p, q \in writers : p = q

(* Where a process is tells whether it holds the lock, and as what.        *)
Asking == {"rlock", "wlock", "rset", "wset"}
Positions ==
    \A p \in Procs :
        /\ at[p] \in Asking => p \notin readers \cup writers
        /\ at[p] \in {"held", "unlock", "downgrade"} => p \in readers \cup writers
        /\ at[p] \in {"clear", "store"} => p \in writers
        /\ at[p] = "leave" => p \in readers
        /\ at[p] = "rset" => seen[p] # NGX_RWLOCK_WLOCK

\* The word of the lock.
Word ==
    /\ writers # {} => readers = {}
    /\ lock = IF writers # {} THEN NGX_RWLOCK_WLOCK ELSE Cardinality(readers)

RwInv == RwTypeOK /\ OneWriter /\ Positions /\ Word

-----------------------------------------------------------------------------
(* The read-write lock *)

\* Readers can be counted.
LEMMA ReadersFinite ==
    ASSUME RwTypeOK
    PROVE  /\ IsFiniteSet(readers) /\ Cardinality(readers) \in Nat
           /\ Cardinality(readers) = 0 <=> readers = {}
  <1>1. IsFiniteSet(readers)
    BY ProcsAssumption, FS_Subset, Zenon DEF RwTypeOK
  <1>2. QED
    BY <1>1, FS_CardinalityType, FS_EmptySet, Zenon

\* The mark of a writer is no number of readers.
LEMMA WordMeaning ==
    ASSUME RwInv
    PROVE  /\ lock = NGX_RWLOCK_WLOCK <=> writers # {}
           /\ lock = 0 <=> readers = {} /\ writers = {}
  BY ReadersFinite DEF RwInv, Word, NGX_RWLOCK_WLOCK

\* The types are kept.
LEMMA RwTypes ==
    ASSUME RwTypeOK, NEW p \in Procs, RwStep(p)
    PROVE  RwTypeOK'
  <1> USE DEF RwTypeOK, Goto, CmpSet, NGX_RWLOCK_WLOCK
  <1>1. CASE CallRwlock(p)
    BY <1>1, Zenon DEF CallRwlock
  <1>2. CASE ReadWord(p)
    BY <1>2 DEF ReadWord
  <1>3. CASE ngx_rwlock_rlock(p)
    BY <1>3 DEF ngx_rwlock_rlock
  <1>4. CASE ngx_rwlock_wlock(p)
    BY <1>4 DEF ngx_rwlock_wlock
  <1>5. CASE ngx_rwlock_unlock(p)
    BY <1>5 DEF ngx_rwlock_unlock
  <1>6. CASE ngx_rwlock_downgrade(p)
    BY <1>6 DEF ngx_rwlock_downgrade
  <1>7. QED
    BY <1>1, <1>2, <1>3, <1>4, <1>5, <1>6, Zenon DEF RwStep

(* A step of a process that holds nothing when it is outside keeps the     *)
(* invariant of the lock.                                                  *)
LEMMA RwStepInv ==
    ASSUME RwInv, NEW p \in Procs, RwStep(p),
           at[p] = "out" => p \notin readers \cup writers
    PROVE  RwInv'
  <1> USE DEF Goto, CmpSet
  <1>0. RwTypeOK'
    BY RwTypes, Zenon DEF RwInv
  <1>1. CASE CallRwlock(p)
    <2>1. UNCHANGED <<lock, seen, readers, writers>>
      BY <1>1, Zenon DEF CallRwlock
    <2>2. Positions'
      BY <1>1, <2>1, Zenon DEF CallRwlock, RwInv, RwTypeOK, Positions, Asking
    <2>3. QED
      BY <1>0, <2>1, <2>2, Zenon DEF RwInv, OneWriter, Word
  <1>2. CASE ReadWord(p)
    <2>1. UNCHANGED <<lock, readers, writers>>
      BY <1>2, Zenon DEF ReadWord
    <2>2. Positions'
      BY <1>2, <2>1, WordMeaning DEF ReadWord, RwInv, RwTypeOK, Positions, Asking, Word
    <2>3. QED
      BY <1>0, <2>1, <2>2, Zenon DEF RwInv, OneWriter, Word
  <1>3. CASE ngx_rwlock_rlock(p)
    <2>1. CASE lock = seen[p]
      <3>1. lock # NGX_RWLOCK_WLOCK /\ writers = {} /\ p \notin readers
        BY <1>3, <2>1, WordMeaning, Zenon DEF ngx_rwlock_rlock, RwInv, Positions, Asking
      <3>2. lock' = lock + 1 /\ readers' = readers \cup {p} /\ writers' = writers
        BY <1>3, <2>1, Zenon DEF ngx_rwlock_rlock
      <3>3. Cardinality(readers') = Cardinality(readers) + 1
        BY <3>1, <3>2, ReadersFinite, FS_AddElement, Zenon DEF RwInv
      <3>4. Positions'
        BY <1>3, <2>1, <3>1, <3>2 DEF ngx_rwlock_rlock, RwInv, RwTypeOK, Positions, Asking
      <3>5. QED
        BY <1>0, <3>1, <3>2, <3>3, <3>4, Zenon DEF RwInv, OneWriter, Word
    <2>2. CASE lock # seen[p]
      <3>1. UNCHANGED <<lock, readers, writers>>
        BY <1>3, <2>2, Zenon DEF ngx_rwlock_rlock
      <3>2. Positions'
        BY <1>3, <2>2, <3>1, Zenon DEF ngx_rwlock_rlock, RwInv, RwTypeOK, Positions, Asking
      <3>3. QED
        BY <1>0, <3>1, <3>2, Zenon DEF RwInv, OneWriter, Word
    <2>3. QED
      BY <2>1, <2>2, Zenon
  <1>4. CASE ngx_rwlock_wlock(p)
    <2>1. CASE lock = 0
      <3>1. writers = {} /\ readers = {}
        BY <2>1, WordMeaning, Zenon
      <3>2. lock' = NGX_RWLOCK_WLOCK /\ readers' = {} /\ writers' = {p}
        BY <1>4, <2>1, <3>1, Zenon DEF ngx_rwlock_wlock
      <3>3. Positions'
        BY <1>4, <2>1, <3>1, <3>2, Zenon DEF ngx_rwlock_wlock, RwInv, RwTypeOK, Positions, Asking
      <3>4. QED
        BY <1>0, <3>2, <3>3, Zenon DEF RwInv, OneWriter, Word
    <2>2. CASE lock # 0
      <3>1. UNCHANGED <<lock, readers, writers>>
        BY <1>4, <2>2, Zenon DEF ngx_rwlock_wlock
      <3>2. Positions'
        BY <1>4, <2>2, <3>1, Zenon DEF ngx_rwlock_wlock, RwInv, RwTypeOK, Positions, Asking
      <3>3. QED
        BY <1>0, <3>1, <3>2, Zenon DEF RwInv, OneWriter, Word
    <2>3. QED
      BY <2>1, <2>2, Zenon
  <1>5. CASE ngx_rwlock_unlock(p)
    <2>1. CASE at[p] = "clear"
      <3>1. p \in writers
        BY <2>1, Zenon DEF RwInv, Positions
      <3>2. writers = {p} /\ readers = {} /\ lock = NGX_RWLOCK_WLOCK
        BY <3>1, WordMeaning, Zenon DEF RwInv, OneWriter, Word
      <3>3. lock' = 0 /\ readers' = {} /\ writers' = {}
        BY <1>5, <2>1, <3>2, Zenon DEF ngx_rwlock_unlock
      <3>4. Positions'
        BY <1>5, <2>1, <3>2, <3>3, Zenon DEF ngx_rwlock_unlock, RwInv, RwTypeOK, Positions, Asking
      <3>5. QED
        BY <1>0, <3>3, <3>4, FS_EmptySet, Zenon DEF RwInv, OneWriter, Word
    <2>2. CASE at[p] = "leave"
      <3>1. p \in readers /\ writers = {}
        BY <2>2, Zenon DEF RwInv, Positions, Word
      <3>2. lock' = lock - 1 /\ readers' = readers \ {p} /\ writers' = {}
        BY <1>5, <2>2, <3>1, Zenon DEF ngx_rwlock_unlock
      <3>3. Cardinality(readers') = Cardinality(readers) - 1
        BY <3>1, <3>2, ReadersFinite, FS_RemoveElement, Zenon DEF RwInv
      <3>4. Positions'
        BY <1>5, <2>2, <3>1, <3>2, Zenon DEF ngx_rwlock_unlock, RwInv, RwTypeOK, Positions, Asking
      <3>5. QED
        BY <1>0, <3>1, <3>2, <3>3, <3>4, Zenon DEF RwInv, OneWriter, Word
    <2>3. QED
      BY <1>5, <2>1, <2>2, Zenon DEF ngx_rwlock_unlock
  <1>6. CASE ngx_rwlock_downgrade(p)
    <2>1. writers = {p} /\ readers = {}
      BY <1>6, Zenon DEF ngx_rwlock_downgrade, RwInv, Positions, OneWriter, Word
    <2>2. lock' = 1 /\ readers' = {p} /\ writers' = {}
      BY <1>6, <2>1, Zenon DEF ngx_rwlock_downgrade
    <2>3. Positions'
      BY <1>6, <2>1, <2>2, Zenon DEF ngx_rwlock_downgrade, RwInv, RwTypeOK, Positions, Asking
    <2>4. QED
      BY <1>0, <2>2, <2>3, FS_Singleton, Zenon DEF RwInv, OneWriter, Word
  <1>7. QED
    BY <1>1, <1>2, <1>3, <1>4, <1>5, <1>6, Zenon DEF RwStep

\* The invariant is exclusion, and more.
LEMMA RwInvExclusion == ASSUME RwInv PROVE RwExclusion
  <1>1. Cardinality(writers) <= 1
    <2>1. CASE writers = {}
      BY <2>1, FS_EmptySet
    <2>2. CASE writers # {}
      <3>1. PICK p \in writers : TRUE
        BY <2>2, Zenon
      <3>2. writers = {p}
        BY <3>1, Zenon DEF RwInv, OneWriter
      <3>3. Cardinality({p}) = 1
        BY FS_Singleton, Zenon
      <3>4. QED
        BY <3>2, <3>3
    <2>3. QED
      BY <2>1, <2>2, Zenon
  <1>2. QED
    BY <1>1, Zenon DEF RwInv, Word, RwExclusion

\* At first nobody holds the lock.
LEMMA RwInitInv == ASSUME RwInit PROVE RwInv
  BY FS_EmptySet DEF RwInit, RwInv, RwTypeOK, OneWriter, Positions, Asking, Word

(* The lock by itself: a process that is outside holds nothing.            *)
RwOutside == \A p \in Procs : at[p] = "out" => p \notin readers \cup writers

(* In every use of ngx_rwlock by live processes a writer is alone and the  *)
(* word counts the readers.                                                *)
THEOREM RwLockCorrect == RwSpec => []RwExclusion
  <1>1. RwInit => RwInv /\ RwOutside
    BY RwInitInv, Zenon DEF RwInit, RwOutside
  <1>2. ASSUME RwInv, RwOutside, [RwNext]_rwvars
        PROVE  RwInv' /\ RwOutside'
    <2>1. CASE RwNext
      <3>1. PICK p \in Procs : RwStep(p)
        BY <2>1, Zenon DEF RwNext
      <3>2. RwInv'
        BY <1>2, <3>1, RwStepInv, Zenon DEF RwOutside
      <3>3. RwOutside'
        BY <1>2, <3>1 DEF RwStep, RwOutside, RwInv, RwTypeOK, CallRwlock, ReadWord,
           ngx_rwlock_rlock, ngx_rwlock_wlock, ngx_rwlock_unlock,
           ngx_rwlock_downgrade, Goto
      <3>4. QED
        BY <3>2, <3>3, Zenon
    <2>2. CASE UNCHANGED rwvars
      BY <1>2, <2>2, Zenon DEF rwvars, RwInv, RwTypeOK, OneWriter, Positions, Word, RwOutside
    <2>3. QED
      BY <1>2, <2>1, <2>2, Zenon
  <1>3. RwInv => RwExclusion
    BY RwInvExclusion, Zenon
  <1>4. QED
    BY <1>1, <1>2, <1>3, PTL DEF RwSpec

-----------------------------------------------------------------------------
(* The event loop *)

\* The zone's lock is used in the handlers only.
ZonePlaces == \A w \in Procs : at[w] # "out" => step[w] = "zone"

\* It is held by a worker in the middle of its use, or left by a dead one.
HolderPlaces ==
    \A w \in readers \cup writers :
        \/ step[w] \in {"dead", "reaped"}
        \/ step[w] = "zone" /\ at[w] # "out"

\* The owner of the accept mutex remembers it where it would free it.
OwnerPlaces ==
    \A w \in Procs : mutex = w =>
        /\ step[w] \in {"enable", "poll", "accept", "dead"}
        /\ step[w] \in {"poll", "accept"} => held[w]

\* The flag tells whether the listening sockets are in the epoll set.
EventsHeld ==
    ~eventfailed => \A w \in Procs : active[w] # {} => held[w]

\* What the attempt of this iteration has left behind.
PollPlaces ==
    \A w \in Procs :
        /\ step[w] = "enable" => iter[w] = "locked" /\ mutex = w
        /\ step[w] = "poll" =>
              \/ iter[w] = "skip"
              \/ iter[w] = "locked" /\ mutex = w
              \/ iter[w] = "delay" /\ ~held[w]

LoopInv == /\ TypeOK
           /\ ZonePlaces /\ HolderPlaces
           /\ OwnerPlaces /\ EventsHeld /\ PollPlaces

IInv == LoopInv /\ RwInv

-----------------------------------------------------------------------------
(* Types *)

\* The types of the event loop are kept.
LEMMA TypeStep ==
    ASSUME TypeOK, [Next]_vars
    PROVE  TypeOK'
  <1> USE EventLoopAssumption DEF TypeOK
  <1>1. ASSUME NEW w \in Procs
        PROVE  /\ LoopStep(w) => TypeOK'
               /\ ngx_process_events(w) => TypeOK'
               /\ (\E l \in Listening : AcceptFull(w, l)) => TypeOK'
               /\ CloseConnection(w) => TypeOK'
               /\ EnterZone(w) => TypeOK'
               /\ Crash(w) => TypeOK'
    <2>1. CASE SkipMutex(w)
      BY <2>1 DEF SkipMutex, StepTo, rest, rwvars, RwTypeOK
    <2>2. CASE ngx_trylock_accept_mutex(w)
      <3>1. RwTypeOK' /\ UNCHANGED <<disabled, free, ready, pending, timers, full, zonecalls>>
        BY <2>2, Zenon DEF ngx_trylock_accept_mutex, rwvars, RwTypeOK
      <3>2. active' \in [Procs -> SUBSET Listening]
        BY <2>2 DEF ngx_trylock_accept_mutex, ngx_disable_accept_events, DisableFails
      <3>3. faults' \in 0..MaxFaults
        BY <2>2 DEF ngx_trylock_accept_mutex, Fault
      <3>3a. eventfailed' \in BOOLEAN
        BY <2>2, Zenon DEF ngx_trylock_accept_mutex, ngx_disable_accept_events, DisableFails
      <3>4. mutex' \in Procs \cup {Free} /\ held' \in [Procs -> BOOLEAN]
        BY <2>2, Zenon DEF ngx_trylock_accept_mutex
      <3>5. /\ step' \in [Procs -> {"unborn", "top", "enable", "poll", "accept",
                                    "handlers", "zone", "dead", "reaped"}]
            /\ iter' \in [Procs -> {"none", "locked", "delay", "skip"}]
        BY <2>2, Zenon DEF ngx_trylock_accept_mutex, StepTo
      <3>6. QED
        BY <3>1, <3>2, <3>3, <3>3a, <3>4, <3>5, Zenon
    <2>3. CASE ngx_enable_accept_events(w)
      <3>1. RwTypeOK' /\ UNCHANGED <<iter, disabled, free, ready, pending, timers, full, zonecalls>>
        BY <2>3, Zenon DEF ngx_enable_accept_events, rwvars, RwTypeOK
      <3>2. active' \in [Procs -> SUBSET Listening]
        BY <2>3 DEF ngx_enable_accept_events
      <3>3. faults' \in 0..MaxFaults
        BY <2>3 DEF ngx_enable_accept_events, Fault
      <3>3a. eventfailed' \in BOOLEAN
        BY <2>3, Zenon DEF ngx_enable_accept_events
      <3>4. mutex' \in Procs \cup {Free} /\ held' \in [Procs -> BOOLEAN]
        BY <2>3, Zenon DEF ngx_enable_accept_events, Unlock
      <3>5. step' \in [Procs -> {"unborn", "top", "enable", "poll", "accept",
                                 "handlers", "zone", "dead", "reaped"}]
        BY <2>3, Zenon DEF ngx_enable_accept_events, StepTo
      <3>6. QED
        BY <3>1, <3>2, <3>3, <3>3a, <3>4, <3>5, Zenon
    <2>4. CASE ngx_process_events(w)
      BY <2>4, Zenon DEF ngx_process_events, StepTo, Reported, rest, rwvars, RwTypeOK
    <2>5. CASE (\E l \in Listening : ngx_event_accept(w, l))
      <3>1. PICK l \in Listening : ngx_event_accept(w, l)
        BY <2>5, Zenon
      <3>2. RwTypeOK' /\ UNCHANGED <<mutex, step, iter, held, active, rest>>
        BY <3>1, Zenon DEF ngx_event_accept, rest, rwvars, RwTypeOK
      <3>3. ready' \in [Procs -> SUBSET Listening]
        BY <3>1, Zenon DEF ngx_event_accept
      <3>4. pending' \in [Listening -> 0..MaxPending]
        BY <3>1 DEF ngx_event_accept
      <3>5. disabled' \in [Procs -> Nat]
        <4>1. free[w] < Reserve => Reserve - free[w] \in Nat
          OBVIOUS
        <4>2. QED
          BY <3>1, <4>1 DEF ngx_event_accept
      <3>6. free' \in [Procs -> 0..Connections]
        BY SMTT(40), <3>1 DEF ngx_event_accept
      <3>7. QED
        BY <3>2, <3>3, <3>4, <3>5, <3>6, Zenon DEF rest
    <2>6. CASE (\E l \in Listening : AcceptFull(w, l))
      <3>1. PICK l \in Listening : AcceptFull(w, l)
        BY <2>6, Zenon
      <3>2. RwTypeOK' /\ UNCHANGED <<step, iter, free, pending, zonecalls>>
        BY <3>1, Zenon DEF AcceptFull, rwvars, RwTypeOK
      <3>3. ready' \in [Procs -> SUBSET Listening] /\ active' \in [Procs -> SUBSET Listening]
        BY <3>1 DEF AcceptFull, ngx_disable_accept_events, DisableFails
      <3>4. faults' \in 0..MaxFaults
        BY <3>1 DEF AcceptFull, Fault
      <3>4a. full' \in BOOLEAN /\ timers' \in BOOLEAN
        BY <3>1, Zenon DEF AcceptFull
      <3>4b. eventfailed' \in BOOLEAN
        BY <3>1, Zenon DEF AcceptFull, ngx_disable_accept_events, DisableFails
      <3>5. mutex' \in Procs \cup {Free} /\ held' \in [Procs -> BOOLEAN]
        BY ZenonT(40), <3>1 DEF AcceptFull, Unlock
      <3>6. disabled' \in [Procs -> Nat]
        BY <3>1 DEF AcceptFull
      <3>7. QED
        BY <3>2, <3>3, <3>4, <3>4a, <3>4b, <3>5, <3>6, Zenon
    <2>7. CASE UnlockAcceptMutex(w)
      BY <2>7, Zenon DEF UnlockAcceptMutex, StepTo, Unlock, rest, rwvars, RwTypeOK
    <2>8. CASE CloseConnection(w)
      BY SMTT(40), <2>8 DEF CloseConnection, rest, rwvars, RwTypeOK
    <2>9. CASE EnterZone(w)
      <3>1. RwTypeOK'
        BY <2>9, RwTypes, Zenon DEF EnterZone, RwStep
      <3>2. QED
        BY <2>9, <3>1 DEF EnterZone, StepTo
    <2>10. CASE InZone(w)
      BY <2>10, RwTypes, Zenon DEF InZone, loopvars
    <2>11. CASE EndIteration(w)
      BY <2>11, ZenonT(30) DEF EndIteration, StepTo, rest, rwvars, RwTypeOK
    <2>12. CASE Crash(w)
      <3>1. RwTypeOK'
        BY <2>12 DEF Crash, Goto, RwTypeOK
      <3>2. faults' \in 0..MaxFaults
        BY <2>12 DEF Crash, Fault
      <3>3. /\ step' \in [Procs -> {"unborn", "top", "enable", "poll", "accept",
                                   "handlers", "zone", "dead", "reaped"}]
            /\ iter' \in [Procs -> {"none", "locked", "delay", "skip"}]
        BY <2>12, ZenonT(30) DEF Crash, StepTo
      <3>4. /\ held' \in [Procs -> BOOLEAN]
            /\ active' \in [Procs -> SUBSET Listening]
            /\ ready' \in [Procs -> SUBSET Listening]
        BY <2>12, ZenonT(30) DEF Crash
      <3>5. disabled' \in [Procs -> Nat] /\ free' \in [Procs -> 0..Connections]
        BY <2>12 DEF Crash
      <3>6. QED
        BY <2>12, <3>1, <3>2, <3>3, <3>4, <3>5, ZenonT(30) DEF Crash
    <2>13. CASE ngx_unlock_mutexes(w)
      BY <2>13, Zenon DEF ngx_unlock_mutexes, Unlock, With, rest, rwvars, RwTypeOK
    <2>14. QED
      BY ZenonT(40), <2>1, <2>2, <2>3, <2>4, <2>5, <2>6, <2>7, <2>8, <2>9, <2>10, <2>11, <2>12, <2>13 DEF LoopStep
  <1>2. CASE \E l \in Listening : Arrive(l)
    BY <1>2 DEF Arrive, rest, rwvars, RwTypeOK
  <1>3. CASE UNCHANGED vars
    BY <1>3, Zenon DEF vars, loopvars, rwvars, RwTypeOK
  <1>4. QED
    BY <1>1, <1>2, <1>3, Zenon DEF Next

-----------------------------------------------------------------------------
(* The accept mutex and the places where locks are held *)

\* A step in the zone ends outside without the lock, or keeps to the zone.
LEMMA ZoneStep ==
    ASSUME RwInv, NEW p \in Procs, RwStep(p)
    PROVE  /\ \A q \in Procs \ {p} : at'[q] = at[q]
           /\ readers' \cup writers' \subseteq readers \cup writers \cup {p}
           /\ at'[p] = "out" => p \notin readers' \cup writers'
  BY Zenon DEF RwInv, RwTypeOK, RwStep, CallRwlock, ReadWord, ngx_rwlock_rlock,
     ngx_rwlock_wlock, ngx_rwlock_unlock, ngx_rwlock_downgrade, Goto

\* What a worker, or the master for it, does keeps the places.
LEMMA WorkerInv ==
    ASSUME LoopInv, RwInv, NEW w \in Procs
    PROVE  \/ LoopStep(w) \/ ngx_process_events(w)
           \/ \E l \in Listening : AcceptFull(w, l)
           \/ CloseConnection(w) \/ EnterZone(w) \/ Crash(w)
           => ZonePlaces' /\ HolderPlaces' /\ OwnerPlaces' /\ EventsHeld' /\ PollPlaces'
  <1> DEFINE Kept == ZonePlaces' /\ HolderPlaces' /\ OwnerPlaces' /\ EventsHeld' /\ PollPlaces'
  <1> USE FreeAssumption DEF LoopInv
  <1>0. /\ mutex \in Procs \cup {Free}
        /\ step \in [Procs -> {"unborn", "top", "enable", "poll", "accept",
                               "handlers", "zone", "dead", "reaped"}]
        /\ iter \in [Procs -> {"none", "locked", "delay", "skip"}]
        /\ held \in [Procs -> BOOLEAN]
        /\ active \in [Procs -> SUBSET Listening]
        /\ at \in [Procs -> {"out", "rlock", "wlock", "rset", "wset", "held",
                             "unlock", "clear", "leave", "downgrade", "store"}]
        /\ readers \subseteq Procs /\ writers \subseteq Procs
    BY Zenon DEF TypeOK, RwTypeOK
  <1> HIDE DEF LoopInv
  <1>1. ASSUME SkipMutex(w) PROVE Kept
    <2>1. ZonePlaces' /\ HolderPlaces'
      BY <1>0, <1>1, Zenon DEF LoopInv, ZonePlaces, HolderPlaces, SkipMutex, StepTo, rest, rwvars
    <2>2. OwnerPlaces'
      BY <1>0, <1>1, Zenon DEF LoopInv, OwnerPlaces, SkipMutex, StepTo, rest, rwvars
    <2>3. EventsHeld'
      BY <1>0, <1>1, Zenon DEF LoopInv, EventsHeld, SkipMutex, StepTo, rest, rwvars
    <2>4. PollPlaces'
      <3>1. \A v \in Procs \ {w} : /\ step'[v] = step[v] /\ iter'[v] = iter[v]
                                    /\ held'[v] = held[v]
        BY <1>0, <1>1, Zenon DEF SkipMutex, StepTo
      <3>2. \A v \in Procs \ {w} : mutex = v => mutex' = v
        BY <1>0, <1>1, Zenon DEF SkipMutex, Unlock, rest
      <3>3. iter'[w] = "skip" /\ step'[w] = "poll"
        BY <1>0, <1>1, Zenon DEF SkipMutex, StepTo
      <3>4. QED
        BY <3>1, <3>2, <3>3 DEF LoopInv, PollPlaces
    <2>5. QED
      BY <2>1, <2>2, <2>3, <2>4, Zenon
  <1>2. ASSUME ngx_trylock_accept_mutex(w) PROVE Kept
    <2>1. /\ UNCHANGED <<at, readers, writers>>
          /\ step[w] = "top"
          /\ \A v \in Procs \ {w} : /\ step'[v] = step[v] /\ iter'[v] = iter[v]
                                    /\ held'[v] = held[v]
      BY <1>0, <1>2, Zenon DEF ngx_trylock_accept_mutex, StepTo, rwvars
    <2>2. \/ /\ mutex = Free /\ mutex' = w
             /\ iter'[w] = "locked" /\ held'[w] = held[w]
             /\ step'[w] = IF held[w] THEN "poll" ELSE "enable"
          \/ /\ mutex' = mutex
             /\ iter'[w] = "delay" /\ ~held'[w] /\ step'[w] = "poll"
          \/ mutex' = mutex /\ step'[w] = "top" /\ held'[w] = held[w]
      BY <1>0, <1>2, Zenon DEF ngx_trylock_accept_mutex, StepTo
    <2>3. \/ eventfailed'
          \/ /\ \A v \in Procs \ {w} : active'[v] = active[v]
             /\ eventfailed' = eventfailed
             /\ \/ active'[w] = {}
                \/ active'[w] = active[w] /\ held'[w] = held[w]
      BY <1>0, <1>2, Zenon DEF ngx_trylock_accept_mutex, ngx_disable_accept_events, DisableFails
    <2>4. ZonePlaces' /\ HolderPlaces'
      BY <1>0, <2>1, <2>2 DEF LoopInv, ZonePlaces, HolderPlaces
    <2>5. OwnerPlaces'
      BY <1>0, <2>1, <2>2, Zenon DEF LoopInv, OwnerPlaces
    <2>6. EventsHeld'
      BY <2>1, <2>3, Zenon DEF LoopInv, EventsHeld
    <2>7. PollPlaces'
      BY <2>1, <2>2, Zenon DEF LoopInv, PollPlaces
    <2>8. QED
      BY <2>4, <2>5, <2>6, <2>7, Zenon
  <1>3. ASSUME ngx_enable_accept_events(w) PROVE Kept
    <2>1. ZonePlaces' /\ HolderPlaces'
      BY <1>0, <1>3 DEF LoopInv, ZonePlaces, HolderPlaces, ngx_enable_accept_events, StepTo, Unlock, rwvars
    <2>2. OwnerPlaces'
      BY <1>0, <1>3 DEF LoopInv, OwnerPlaces, ngx_enable_accept_events, StepTo, Unlock, rwvars
    <2>3. EventsHeld'
      BY <1>0, <1>3, Zenon DEF LoopInv, EventsHeld, ngx_enable_accept_events, StepTo, Unlock, rwvars
    <2>4. PollPlaces'
      <3>1. \A v \in Procs \ {w} : /\ step'[v] = step[v] /\ iter'[v] = iter[v]
                                    /\ held'[v] = held[v]
        BY <1>0, <1>3, Zenon DEF ngx_enable_accept_events, StepTo
      <3>2. \A v \in Procs \ {w} : mutex = v => mutex' = v
        BY <1>0, <1>3, Zenon DEF ngx_enable_accept_events, Unlock, rest
      <3>3. \/ step'[w] = "top"
            \/ step'[w] = "poll" /\ iter'[w] = "locked" /\ mutex' = w
        BY <1>0, <1>3, Zenon DEF ngx_enable_accept_events, StepTo, LoopInv, PollPlaces
      <3>4. QED
        BY <3>1, <3>2, <3>3, Zenon DEF LoopInv, PollPlaces
    <2>5. QED
      BY <2>1, <2>2, <2>3, <2>4, Zenon
  <1>4. ASSUME ngx_process_events(w) PROVE Kept
    <2>1. ZonePlaces' /\ HolderPlaces'
      BY <1>0, <1>4, Zenon DEF LoopInv, ZonePlaces, HolderPlaces, ngx_process_events, StepTo, rest, rwvars
    <2>2. OwnerPlaces'
      BY <1>0, <1>4, Zenon DEF LoopInv, OwnerPlaces, ngx_process_events, StepTo, rest, rwvars
    <2>3. EventsHeld'
      BY <1>0, <1>4, Zenon DEF LoopInv, EventsHeld, ngx_process_events, StepTo, rest, rwvars
    <2>4. PollPlaces'
      BY <1>0, <1>4, Zenon DEF LoopInv, PollPlaces, ngx_process_events, StepTo, rest, rwvars
    <2>5. QED
      BY <2>1, <2>2, <2>3, <2>4, Zenon
  <1>5. ASSUME \E l \in Listening : ngx_event_accept(w, l) PROVE Kept
    <2>1. UNCHANGED <<mutex, step, iter, held, active, eventfailed, at, readers, writers>>
      BY <1>5, Zenon DEF ngx_event_accept, rest, rwvars
    <2>2. QED
      BY <2>1, Zenon DEF LoopInv, ZonePlaces, HolderPlaces, OwnerPlaces, EventsHeld, PollPlaces
  <1>6. ASSUME \E l \in Listening : AcceptFull(w, l) PROVE Kept
    <2>0. PICK l \in Listening : AcceptFull(w, l)
      BY <1>6, Zenon
    <2>1. /\ UNCHANGED <<at, readers, writers, step, iter>>
          /\ step[w] = "accept"
          /\ \A v \in Procs \ {w} : held'[v] = held[v]
      BY <1>0, <2>0, Zenon DEF AcceptFull, rwvars
    <2>2. \/ ~held'[w] /\ mutex' = IF held[w] /\ mutex = w THEN Free ELSE mutex
          \/ held'[w] = held[w] /\ mutex' = mutex
      BY <1>0, <2>0, Zenon DEF AcceptFull, Unlock
    <2>3. \/ eventfailed'
          \/ /\ \A v \in Procs \ {w} : active'[v] = active[v]
             /\ eventfailed' = eventfailed
             /\ active'[w] = {}
      BY <1>0, <2>0, Zenon DEF AcceptFull, ngx_disable_accept_events, DisableFails
    <2>4. ZonePlaces' /\ HolderPlaces'
      BY <2>1, Zenon DEF LoopInv, ZonePlaces, HolderPlaces
    <2>5. OwnerPlaces'
      BY <1>0, <2>1, <2>2 DEF LoopInv, OwnerPlaces
    <2>6. EventsHeld'
      BY <2>1, <2>3, Zenon DEF LoopInv, EventsHeld
    <2>7. PollPlaces'
      BY <1>0, <2>1, <2>2, Zenon DEF LoopInv, PollPlaces
    <2>8. QED
      BY <2>4, <2>5, <2>6, <2>7, Zenon
  <1>7. ASSUME UnlockAcceptMutex(w) PROVE Kept
    <2>1. ZonePlaces' /\ HolderPlaces'
      BY <1>0, <1>7, ZenonT(30) DEF LoopInv, ZonePlaces, HolderPlaces, UnlockAcceptMutex, StepTo, Unlock, rest, rwvars
    <2>2. OwnerPlaces'
      BY <1>0, <1>7, Zenon DEF LoopInv, OwnerPlaces, UnlockAcceptMutex, StepTo, Unlock, rest, rwvars
    <2>3. EventsHeld'
      BY <1>0, <1>7, Zenon DEF LoopInv, EventsHeld, UnlockAcceptMutex, StepTo, Unlock, rest, rwvars
    <2>4. PollPlaces'
      BY <1>0, <1>7, Zenon DEF LoopInv, PollPlaces, UnlockAcceptMutex, StepTo, Unlock, rest, rwvars
    <2>5. QED
      BY <2>1, <2>2, <2>3, <2>4, Zenon
  <1>8. ASSUME CloseConnection(w) PROVE Kept
    <2>1. UNCHANGED <<mutex, step, iter, held, active, eventfailed, at, readers, writers>>
      BY <1>8, Zenon DEF CloseConnection, rest, rwvars
    <2>2. QED
      BY <2>1, Zenon DEF LoopInv, ZonePlaces, HolderPlaces, OwnerPlaces, EventsHeld, PollPlaces
  <1>9. ASSUME EnterZone(w) PROVE Kept
    <2>1. ZonePlaces' /\ HolderPlaces'
      BY SMTT(40), <1>0, <1>9 DEF LoopInv, ZonePlaces, HolderPlaces, EnterZone, CallRwlock, Goto, StepTo
    <2>2. OwnerPlaces'
      BY <1>0, <1>9, Zenon DEF LoopInv, OwnerPlaces, EnterZone, CallRwlock, Goto, StepTo
    <2>3. EventsHeld'
      BY <1>0, <1>9, Zenon DEF LoopInv, EventsHeld, EnterZone, CallRwlock, Goto, StepTo
    <2>4. PollPlaces'
      BY <1>0, <1>9, Zenon DEF LoopInv, PollPlaces, EnterZone, CallRwlock, Goto, StepTo
    <2>5. QED
      BY <2>1, <2>2, <2>3, <2>4, Zenon
  <1>10. ASSUME InZone(w) PROVE Kept
    <2>1. ZonePlaces' /\ HolderPlaces'
      BY <1>0, <1>10, ZoneStep DEF LoopInv, ZonePlaces, HolderPlaces, InZone, loopvars
    <2>2. OwnerPlaces'
      BY <1>0, <1>10, Zenon DEF LoopInv, OwnerPlaces, InZone, loopvars
    <2>3. EventsHeld'
      BY <1>0, <1>10, Zenon DEF LoopInv, EventsHeld, InZone, loopvars
    <2>4. PollPlaces'
      BY <1>0, <1>10, Zenon DEF LoopInv, PollPlaces, InZone, loopvars
    <2>5. QED
      BY <2>1, <2>2, <2>3, <2>4, Zenon
  <1>11. ASSUME EndIteration(w) PROVE Kept
    <2>1. ZonePlaces' /\ HolderPlaces'
      BY <1>0, <1>11, Zenon DEF LoopInv, ZonePlaces, HolderPlaces, EndIteration, StepTo, rest, rwvars
    <2>2. OwnerPlaces'
      BY <1>0, <1>11, Zenon DEF LoopInv, OwnerPlaces, EndIteration, StepTo, rest, rwvars
    <2>3. EventsHeld'
      BY <1>0, <1>11, Zenon DEF LoopInv, EventsHeld, EndIteration, StepTo, rest, rwvars
    <2>4. PollPlaces'
      BY <1>0, <1>11, Zenon DEF LoopInv, PollPlaces, EndIteration, StepTo, rest, rwvars
    <2>5. QED
      BY <2>1, <2>2, <2>3, <2>4, Zenon
  <1>12. ASSUME Crash(w) PROVE Kept
    <2>1. ZonePlaces' /\ HolderPlaces'
      BY <1>0, <1>12, ZenonT(30) DEF LoopInv, ZonePlaces, HolderPlaces, Crash, StepTo, Goto
    <2>2. OwnerPlaces'
      BY <1>0, <1>12, Zenon DEF LoopInv, OwnerPlaces, Crash, StepTo, Goto
    <2>3. EventsHeld'
      BY <1>0, <1>12, Zenon DEF LoopInv, EventsHeld, Crash, StepTo, Goto
    <2>4. PollPlaces'
      BY <1>0, <1>12, Zenon DEF LoopInv, PollPlaces, Crash, StepTo, Goto
    <2>5. QED
      BY <2>1, <2>2, <2>3, <2>4, Zenon
  <1>13. ASSUME ngx_unlock_mutexes(w) PROVE Kept
    <2>1. ZonePlaces' /\ HolderPlaces'
      BY SMTT(40), <1>0, <1>13 DEF LoopInv, ZonePlaces, HolderPlaces, ngx_unlock_mutexes, Unlock, With, rest, rwvars
    <2>2. OwnerPlaces'
      BY <1>0, <1>13, Zenon DEF LoopInv, OwnerPlaces, ngx_unlock_mutexes, Unlock, With, rest, rwvars
    <2>3. EventsHeld'
      BY <1>0, <1>13, Zenon DEF LoopInv, EventsHeld, ngx_unlock_mutexes, Unlock, With, rest, rwvars
    <2>4. PollPlaces'
      BY <1>0, <1>13 DEF LoopInv, PollPlaces, ngx_unlock_mutexes, Unlock, With, rest, rwvars
    <2>5. QED
      BY <2>1, <2>2, <2>3, <2>4, Zenon
  <1> HIDE DEF Kept
  <1>14. LoopStep(w) => Kept
    BY <1>1, <1>2, <1>3, <1>5, <1>7, <1>10, <1>11, <1>13, Zenon DEF LoopStep
  <1>15. QED
    BY <1>4, <1>6, <1>8, <1>9, <1>12, <1>14, Zenon DEF Kept

\* Arrivals and stuttering keep the places too.
LEMMA PlacesStep ==
    ASSUME LoopInv, RwInv, [Next]_vars
    PROVE  ZonePlaces' /\ HolderPlaces' /\ OwnerPlaces' /\ EventsHeld' /\ PollPlaces'
  <1>1. CASE \E l \in Listening : Arrive(l)
    BY SMTT(40), <1>1 DEF Arrive, rest, rwvars, LoopInv, ZonePlaces, HolderPlaces, OwnerPlaces,
       EventsHeld, PollPlaces
  <1>2. CASE UNCHANGED vars
    BY <1>2, Zenon DEF vars, loopvars, rwvars, LoopInv, ZonePlaces, HolderPlaces, OwnerPlaces,
       EventsHeld, PollPlaces
  <1>3. QED
    BY <1>1, <1>2, WorkerInv, Zenon DEF Next

(* The lock's invariant is kept: its steps are taken in the zone only, by  *)
(* workers that hold nothing when they enter, and the others, deaths       *)
(* included, leave the word and the holders alone.                         *)
LEMMA LockStep ==
    ASSUME LoopInv, RwInv, [Next]_vars
    PROVE  RwInv'
  <1>1. ASSUME NEW w \in Procs, EnterZone(w) \/ InZone(w)
        PROVE  RwInv'
    <2>1. RwStep(w)
      BY <1>1, Zenon DEF EnterZone, InZone, RwStep
    <2>2. at[w] = "out" => w \notin readers \cup writers
      BY <1>1, Zenon DEF EnterZone, InZone, LoopInv, HolderPlaces
    <2>3. QED
      BY <2>1, <2>2, RwStepInv, Zenon
  <1>2. ASSUME NEW w \in Procs, Crash(w)
        PROVE  RwInv'
    <2>1. UNCHANGED <<lock, readers, writers>>
      BY <1>2, Zenon DEF Crash
    <2>2. /\ at' = [at EXCEPT ![w] = "out"]
          /\ seen' = [seen EXCEPT ![w] = 0]
      BY <1>2, Zenon DEF Crash, Goto
    <2>3. RwTypeOK'
      BY <2>1, <2>2 DEF RwInv, RwTypeOK
    <2>4. Positions'
      BY <2>1, <2>2, Zenon DEF RwInv, RwTypeOK, Positions, Asking
    <2>5. QED
      BY <2>1, <2>3, <2>4, Zenon DEF RwInv, OneWriter, Word
  <1>3. CASE UNCHANGED rwvars
    BY <1>3, Zenon DEF rwvars, RwInv, RwTypeOK, OneWriter, Positions, Word
  <1>4. ASSUME NEW w \in Procs,
               \/ SkipMutex(w) \/ ngx_trylock_accept_mutex(w)
               \/ ngx_enable_accept_events(w) \/ ngx_process_events(w)
               \/ \E l \in Listening : ngx_event_accept(w, l) \/ AcceptFull(w, l)
               \/ UnlockAcceptMutex(w) \/ CloseConnection(w) \/ EndIteration(w)
               \/ ngx_unlock_mutexes(w)
        PROVE  UNCHANGED rwvars
    BY <1>4, Zenon DEF SkipMutex, ngx_trylock_accept_mutex, ngx_enable_accept_events,
       ngx_process_events, ngx_event_accept, AcceptFull, UnlockAcceptMutex,
       CloseConnection, EndIteration, ngx_unlock_mutexes, rest
  <1>5. (\E l \in Listening : Arrive(l)) \/ UNCHANGED vars => UNCHANGED rwvars
    BY Zenon DEF Arrive, rest, vars
  <1>6. QED
    BY <1>1, <1>2, <1>3, <1>4, <1>5, Zenon DEF Next, LoopStep

\* The invariant holds at first.
LEMMA InitInv == ASSUME Init PROVE IInv
  <1>1. RwInv
    BY RwInitInv, Zenon DEF Init
  <1>2. TypeOK
    <2>1. /\ RwTypeOK
          /\ step \in [Procs -> {"unborn", "top", "enable", "poll", "accept",
                                 "handlers", "zone", "dead", "reaped"}]
          /\ active \in [Procs -> SUBSET Listening]
          /\ ready \in [Procs -> SUBSET Listening]
      BY <1>1, Zenon DEF Init, RwInv
    <2>2. /\ disabled \in [Procs -> Nat] /\ free \in [Procs -> 0..Connections]
          /\ pending \in [Listening -> 0..MaxPending]
          /\ faults \in 0..MaxFaults /\ zonecalls \in 0..MaxZoneCalls
      BY EventLoopAssumption DEF Init
    <2>3. /\ timers \in BOOLEAN /\ eventfailed \in BOOLEAN /\ full \in BOOLEAN
          /\ held \in [Procs -> BOOLEAN]
          /\ mutex \in Procs \cup {Free}
          /\ iter \in [Procs -> {"none", "locked", "delay", "skip"}]
      BY Zenon DEF Init
    <2>4. QED
      BY <2>1, <2>2, <2>3, Zenon DEF TypeOK
  <1>3. ZonePlaces /\ HolderPlaces /\ OwnerPlaces /\ EventsHeld /\ PollPlaces
    BY FreeAssumption, Zenon DEF Init, RwInit, ZonePlaces, HolderPlaces, OwnerPlaces, EventsHeld,
       PollPlaces
  <1>4. QED
    BY <1>1, <1>2, <1>3, Zenon DEF IInv, LoopInv

-----------------------------------------------------------------------------
(* Theorems *)

(* The inductive invariant of the event loop and the zone's lock.          *)
THEOREM Invariance == Spec => []IInv
  <1>1. Init => IInv
    BY InitInv, Zenon
  <1>2. IInv /\ [Next]_vars => IInv'
    BY TypeStep, PlacesStep, LockStep, Zenon DEF IInv, LoopInv
  <1>3. QED
    BY <1>1, <1>2, PTL DEF Spec

(* The state of the loops and of the lock keeps its types.                 *)
THEOREM TypeCorrect == Spec => []TypeOK
  <1>1. IInv => TypeOK
    BY Zenon DEF IInv, LoopInv
  <1>2. QED
    BY <1>1, Invariance, PTL

(* A writer of an upstream zone is alone and its readers are counted       *)
(* exactly, whatever workers die with the lock.                            *)
THEOREM ZoneExclusion == Spec => []RwExclusion
  <1>1. IInv => RwExclusion
    BY RwInvExclusion, Zenon DEF IInv
  <1>2. QED
    BY <1>1, Invariance, PTL

(* Handlers, and the wait for a zone's lock in them, never run with the    *)
(* accept mutex: ngx_process_events_and_timers frees it before.            *)
THEOREM HandlersRunUnlocked == Spec => []HandlersUnlocked
  <1>1. IInv => HandlersUnlocked
    BY Zenon DEF IInv, LoopInv, ZonePlaces, OwnerPlaces, HandlersUnlocked
  <1>2. QED
    BY <1>1, Invariance, PTL

(* Workers wait for connections by turns, as long as ngx_add_event() and   *)
(* ngx_del_event() do not fail and no worker is short of connections.      *)
THEOREM AcceptByTurn == Spec => []ByTurn
  <1>1. ASSUME IInv PROVE ByTurn
    <2>1. SUFFICES ASSUME ~eventfailed, NEW w \in Procs, step[w] = "poll", active[w] # {}
                   PROVE  mutex = w \/ iter[w] = "skip"
      BY Zenon DEF ByTurn
    <2>2. held[w]
      BY <1>1, <2>1, Zenon DEF IInv, LoopInv, EventsHeld
    <2>3. QED
      BY <1>1, <2>1, <2>2, Zenon DEF IInv, LoopInv, PollPlaces
  <1>2. QED
    BY <1>1, Invariance, PTL
=============================================================================
