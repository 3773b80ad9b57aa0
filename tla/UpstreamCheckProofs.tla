------------------------ MODULE UpstreamCheckProofs ------------------------
(***************************************************************************)
(* Proofs about UpstreamCheck for any number of workers, any interval and  *)
(* thresholds, and any number of crashes and moves of the arrays.          *)
(***************************************************************************)
EXTENDS UpstreamCheck, SequenceTheorems, FiniteSetTheorems, TLAPS

PCs == {"idle", "lock", "claimed", "check", "done", "clean"}

\* The types the ownership needs.
OwnerTypes ==
    /\ owner \in Workers \cup {Nobody, Dead}
    /\ pc \in [Workers -> PCs]
    /\ moved \in [Workers -> BOOLEAN]

OInv == OwnerTypes /\ OwnerWorks

\* The last n elements of s are r.
Trail(s, n, r) ==
    /\ n <= Len(s)
    /\ \A i \in 0..(n - 1) : s[Len(s) - i] = r

(* The counters of the peer count the last results.                        *)
CInv ==
    /\ recent \in Seq(BOOLEAN)
    /\ fall_count \in 0..Fall /\ rise_count \in 0..Rise
    /\ Trail(recent, fall_count, FALSE) /\ Trail(recent, rise_count, TRUE)

-----------------------------------------------------------------------------
(* The ownership *)

\* A worker's own steps keep the invariant of the ownership.
LEMMA WorkerOwner ==
    ASSUME OInv, NEW w \in Workers,
           \/ Begin(w) \/ Handler(w) \/ ngx_time_update(w)
           \/ ngx_http_upstream_check_discard_handler(w)
           \/ Realloc(w) \/ Crash(w)
    PROVE  OInv'
  <1> USE NobodyAssumption DEF OInv, OwnerTypes, OwnerWorks, PCs
  <1>1. CASE Begin(w)
    BY <1>1, Zenon DEF Begin, shm
  <1>2. CASE Claim(w)
    BY <1>2, Zenon DEF Claim
  <1>3. CASE Connect(w)
    BY <1>3, Zenon DEF Connect, shm
  <1>4. CASE Answer(w)
    BY <1>4, Zenon DEF Answer, shm
  <1>5. CASE Result(w)
    BY <1>5, Zenon DEF Result
  <1>6. CASE ngx_http_upstream_check_clean_event(w)
    BY <1>6, Zenon DEF ngx_http_upstream_check_clean_event, GiveUp
  <1>7. CASE ngx_time_update(w)
    BY <1>7, Zenon DEF ngx_time_update, shm
  <1>8. CASE ngx_http_upstream_check_discard_handler(w)
    BY <1>8, Zenon DEF ngx_http_upstream_check_discard_handler, GiveUp
  <1>9. CASE Realloc(w)
    BY <1>9, Zenon DEF Realloc, shm
  <1>10. CASE Crash(w)
    BY <1>10, Zenon DEF Crash
  <1>11. QED
    BY <1>1, <1>2, <1>3, <1>4, <1>5, <1>6, <1>7, <1>8, <1>9, <1>10, Zenon DEF Handler

\* So do time, the peer and stuttering.
LEMMA OwnerStep ==
    ASSUME OInv, [Next]_vars
    PROVE  OInv'
  <1>1. CASE Tick
    BY <1>1, Zenon DEF Tick, OInv, OwnerTypes, OwnerWorks
  <1>2. CASE Flip
    BY <1>2, Zenon DEF Flip, shm, work, OInv, OwnerTypes, OwnerWorks
  <1>3. CASE UNCHANGED vars
    BY <1>3, Zenon DEF vars, shm, work, OInv, OwnerTypes, OwnerWorks
  <1>4. QED
    BY <1>1, <1>2, <1>3, WorkerOwner, Zenon DEF Next

(* A peer is blocked only by a dead worker, until the takeover, or by one  *)
(* whose array moved: every other owner is at work on it.                  *)
THEOREM OwnersWork == Spec => []OwnerWorks
  <1>1. Init => OInv
    BY NobodyAssumption, Zenon DEF Init, OInv, OwnerTypes, OwnerWorks, PCs
  <1>2. OInv /\ [Next]_vars => OInv'
    BY OwnerStep, Zenon
  <1>3. OInv => OwnerWorks
    BY Zenon DEF OInv
  <1>4. QED
    BY <1>1, <1>2, <1>3, PTL DEF Spec

-----------------------------------------------------------------------------
(* The results *)

\* Appending r makes the run of r at the end one longer.
LEMMA AppendTrail ==
    ASSUME NEW S, NEW s \in Seq(S), NEW r \in S, NEW n \in Nat, Trail(s, n, r),
           NEW m \in 0..(n + 1)
    PROVE  Trail(Append(s, r), m, r)
  <1> DEFINE t == Append(s, r)
  <1>1. Len(t) = Len(s) + 1 /\ Len(s) \in Nat
    BY AppendProperties
  <1>2. \A i \in 1..Len(s) : t[i] = s[i]
    BY AppendProperties
  <1>3. t[Len(s) + 1] = r
    BY AppendProperties, Zenon
  <1>4. n <= Len(s) /\ \A i \in 0..(n - 1) : s[Len(s) - i] = r
    BY Zenon DEF Trail
  <1> HIDE DEF t
  <1>5. ASSUME NEW i \in 0..(m - 1)
        PROVE  t[Len(t) - i] = r
    <2>1. CASE i = 0
      BY <1>1, <1>3, <2>1
    <2>2. CASE i # 0
      <3>1. i - 1 \in 0..(n - 1) /\ Len(s) - (i - 1) \in 1..Len(s)
        BY <1>1, <1>4, <2>2
      <3>2. Len(t) - i = Len(s) - (i - 1)
        BY <1>1
      <3>3. QED
        BY <1>2, <1>4, <3>1, <3>2, Zenon
    <2>3. QED
      BY <2>1, <2>2, Zenon
  <1>6. m <= Len(t)
    BY <1>1, <1>4
  <1>7. QED
    BY <1>5, <1>6, Zenon DEF Trail, t

\* Forgetting the first element keeps a run that does not reach it.
LEMMA TailTrail ==
    ASSUME NEW S, NEW s \in Seq(S), NEW r \in S, NEW m \in Nat, m < Len(s),
           Trail(s, m, r)
    PROVE  Trail(Tail(s), m, r)
  BY DEF Trail

\* Both keep a sequence over S one.
LEMMA SeqTypes ==
    ASSUME NEW S, NEW s \in Seq(S), NEW r \in S
    PROVE  /\ Append(s, r) \in Seq(S)
           /\ Len(Append(s, r)) = Len(s) + 1
           /\ Tail(Append(s, r)) \in Seq(S)
  <1>1. /\ Append(s, r) \in Seq(S) /\ Append(s, r) # <<>>
        /\ Len(Append(s, r)) = Len(s) + 1
    BY AppendProperties, Zenon
  <1>2. QED
    BY <1>1, HeadTailProperties, Zenon

(* Recording a result makes the run of equal results one longer, and the   *)
(* results that are forgotten are older than either threshold.             *)
LEMMA RecordTrail ==
    ASSUME recent \in Seq(BOOLEAN), NEW r \in BOOLEAN, NEW n \in Nat,
           Trail(recent, n, r), Record(r)
    PROVE  /\ recent' \in Seq(BOOLEAN)
           /\ \A m \in 0..(n + 1) :
                m <= Rise \/ m <= Fall => Trail(recent', m, r)
  <1> DEFINE s == Append(recent, r)
  <1>1. s \in Seq(BOOLEAN) /\ Len(s) \in Nat /\ Tail(s) \in Seq(BOOLEAN)
    BY SeqTypes
  <1>2. recent' = IF Len(s) > Rise /\ Len(s) > Fall THEN Tail(s) ELSE s
    BY Zenon DEF Record
  <1>3. ASSUME NEW m \in 0..(n + 1), m <= Rise \/ m <= Fall
        PROVE  Trail(recent', m, r)
    <2>1. Trail(s, m, r)
      BY AppendTrail, Zenon
    <2>2. m \in Nat
      OBVIOUS
    <2>3. CASE Len(s) > Rise /\ Len(s) > Fall
      <3>1. m < Len(s)
        BY <1>1, <1>3, <2>2, <2>3, ConstantsAssumption
      <3>2. Trail(Tail(s), m, r)
        BY <1>1, <2>1, <2>2, <3>1, TailTrail, Zenon
      <3>3. QED
        BY <1>2, <2>3, <3>2, Zenon
    <2>4. CASE ~(Len(s) > Rise /\ Len(s) > Fall)
      BY <1>2, <2>1, <2>4, Zenon
    <2>5. QED
      BY <2>3, <2>4, Zenon
  <1>4. recent' \in Seq(BOOLEAN)
    BY <1>1, <1>2, Zenon
  <1>5. QED
    BY <1>3, <1>4, Zenon

\* Every sequence ends with no element of whatever value.
LEMMA NoTrail == ASSUME NEW S, NEW s \in Seq(S), NEW r PROVE Trail(s, 0, r)
  BY DEF Trail

(* A result of any worker keeps the counters right, and changes the status *)
(* only at a threshold.                                                    *)
LEMMA UpdateStep ==
    ASSUME CInv, NEW w \in Workers, NEW r \in BOOLEAN,
           ngx_http_upstream_check_status_update(w, r)
    PROVE  /\ CInv'
           /\ ~down /\ down' => Trail(recent', Fall, FALSE)
           /\ down /\ ~down' => Trail(recent', Rise, TRUE)
  <1> USE ConstantsAssumption
  <1>1. Record(r)
    BY Zenon DEF ngx_http_upstream_check_status_update
  <1>2. CASE r
    <2>1. rise_count' = Least(rise_count + 1, Rise) /\ fall_count' = 0
      BY <1>2, Zenon DEF ngx_http_upstream_check_status_update
    <2>2. down' = (down /\ rise_count + 1 < Rise)
      BY <1>2, Zenon DEF ngx_http_upstream_check_status_update
    <2>3. /\ recent' \in Seq(BOOLEAN)
          /\ \A m \in 0..(rise_count + 1) :
               m <= Rise \/ m <= Fall => Trail(recent', m, TRUE)
      <3>1. r = TRUE
        BY <1>2, Zenon
      <3>2. rise_count \in Nat
        BY DEF CInv
      <3>3. QED
        BY <1>1, <3>1, <3>2, RecordTrail, Zenon DEF CInv
    <2>4. /\ rise_count' \in 0..Rise /\ rise_count' \in 0..(rise_count + 1)
          /\ rise_count' <= Rise
          /\ fall_count' \in 0..Fall
      BY <2>1 DEF Least, CInv
    <2>5. Trail(recent', rise_count', TRUE)
      BY <2>3, <2>4, Zenon
    <2>6. Trail(recent', fall_count', FALSE)
      BY <2>1, <2>3, NoTrail, Zenon
    <2>7. CInv'
      BY <2>3, <2>4, <2>5, <2>6, Zenon DEF CInv
    <2>8. ASSUME down, ~down'
          PROVE  Trail(recent', Rise, TRUE)
      <3>1. ~(rise_count + 1 < Rise)
        BY <2>2, <2>8, Zenon
      <3>2. Rise \in 0..(rise_count + 1) /\ Rise <= Rise
        BY <3>1 DEF CInv
      <3>3. QED
        BY <2>3, <3>2, Zenon
    <2>9. ~(~down /\ down')
      BY <2>2, Zenon
    <2>10. QED
      BY <2>7, <2>8, <2>9, Zenon
  <1>3. CASE ~r
    <2>1. fall_count' = Least(fall_count + 1, Fall) /\ rise_count' = 0
      BY <1>3, Zenon DEF ngx_http_upstream_check_status_update
    <2>2. down' = (down \/ fall_count + 1 >= Fall)
      BY <1>3, Zenon DEF ngx_http_upstream_check_status_update
    <2>3. /\ recent' \in Seq(BOOLEAN)
          /\ \A m \in 0..(fall_count + 1) :
               m <= Rise \/ m <= Fall => Trail(recent', m, FALSE)
      <3>1. r = FALSE
        BY <1>3, Zenon
      <3>2. fall_count \in Nat
        BY DEF CInv
      <3>3. QED
        BY <1>1, <3>1, <3>2, RecordTrail, Zenon DEF CInv
    <2>4. /\ fall_count' \in 0..Fall /\ fall_count' \in 0..(fall_count + 1)
          /\ fall_count' <= Fall
          /\ rise_count' \in 0..Rise
      BY <2>1 DEF Least, CInv
    <2>5. Trail(recent', fall_count', FALSE)
      BY <2>3, <2>4, Zenon
    <2>6. Trail(recent', rise_count', TRUE)
      BY <2>1, <2>3, NoTrail, Zenon
    <2>7. CInv'
      BY <2>3, <2>4, <2>5, <2>6, Zenon DEF CInv
    <2>8. ASSUME ~down, down'
          PROVE  Trail(recent', Fall, FALSE)
      <3>1. fall_count + 1 >= Fall
        BY <2>2, <2>8, Zenon
      <3>2. Fall \in 0..(fall_count + 1) /\ Fall <= Fall
        BY <3>1 DEF CInv
      <3>3. QED
        BY <2>3, <3>2, Zenon
    <2>9. ~(down /\ ~down')
      BY <2>2, Zenon
    <2>10. QED
      BY <2>7, <2>8, <2>9, Zenon
  <1>4. QED
    BY <1>2, <1>3, Zenon

\* The answers are results.
AInv == answer \in [Workers -> BOOLEAN] /\ alive \in BOOLEAN

\* Every step keeps them so.
LEMMA AnswerStep ==
    ASSUME AInv, [Next]_vars
    PROVE  AInv'
  <1> USE DEF AInv
  <1>1. ASSUME NEW w \in Workers, Begin(w) \/ Claim(w) \/ Connect(w) \/ Result(w)
        PROVE  AInv'
    BY <1>1, Zenon DEF Begin, Claim, Connect, Result, env
  <1>2. ASSUME NEW w \in Workers, Answer(w)
        PROVE  AInv'
    BY <1>2, Zenon DEF Answer, env
  <1>3. ASSUME NEW w \in Workers,
               \/ ngx_http_upstream_check_clean_event(w) \/ Realloc(w) \/ Crash(w)
        PROVE  AInv'
    BY <1>3, Zenon DEF ngx_http_upstream_check_clean_event, Realloc, Crash, env
  <1>4. ASSUME NEW w \in Workers,
               \/ ngx_time_update(w) \/ ngx_http_upstream_check_discard_handler(w)
        PROVE  AInv'
    BY <1>4, Zenon DEF ngx_time_update, ngx_http_upstream_check_discard_handler, env
  <1>5. CASE Tick
    BY <1>5, Zenon DEF Tick, env
  <1>6. CASE Flip
    BY <1>6, Zenon DEF Flip, work
  <1>7. CASE UNCHANGED vars
    BY <1>7, Zenon DEF vars, work, env
  <1>8. QED
    BY <1>1, <1>2, <1>3, <1>4, <1>5, <1>6, <1>7, Zenon DEF Next, Handler

\* A step that records no result leaves the counters and the status alone.
LEMMA OtherSteps ==
    ASSUME [Next]_vars, \A w \in Workers : ~Result(w)
    PROVE  UNCHANGED <<recent, rise_count, fall_count, down>>
  <1>1. ASSUME NEW w \in Workers, Begin(w) \/ Claim(w) \/ Connect(w) \/ Answer(w)
        PROVE  UNCHANGED <<recent, rise_count, fall_count, down>>
    BY <1>1, Zenon DEF Begin, Claim, Connect, Answer, shm
  <1>2. ASSUME NEW w \in Workers,
               \/ ngx_http_upstream_check_clean_event(w) \/ Realloc(w) \/ Crash(w)
        PROVE  UNCHANGED <<recent, rise_count, fall_count, down>>
    BY <1>2, Zenon DEF ngx_http_upstream_check_clean_event, Realloc, Crash, shm
  <1>3. ASSUME NEW w \in Workers,
               \/ ngx_time_update(w) \/ ngx_http_upstream_check_discard_handler(w)
        PROVE  UNCHANGED <<recent, rise_count, fall_count, down>>
    BY <1>3, Zenon DEF ngx_time_update, ngx_http_upstream_check_discard_handler, shm
  <1>4. CASE Tick \/ Flip \/ UNCHANGED vars
    BY <1>4, Zenon DEF Tick, Flip, vars, shm
  <1>5. QED
    BY <1>1, <1>2, <1>3, <1>4, Zenon DEF Next, Handler

\* Every step keeps the counters right, and changes the status only at a
\* threshold.
LEMMA CountStep ==
    ASSUME AInv, CInv, [Next]_vars
    PROVE  /\ CInv'
           /\ ~down /\ down' => LastAre(Fall, FALSE)
           /\ down /\ ~down' => LastAre(Rise, TRUE)
  <1>1. ASSUME NEW w \in Workers, Result(w)
        PROVE  /\ CInv'
               /\ ~down /\ down' => LastAre(Fall, FALSE)
               /\ down /\ ~down' => LastAre(Rise, TRUE)
    <2>1. answer[w] \in BOOLEAN /\ ngx_http_upstream_check_status_update(w, answer[w])
      BY <1>1, Zenon DEF Result, AInv
    <2>2. /\ CInv'
          /\ ~down /\ down' => Trail(recent', Fall, FALSE)
          /\ down /\ ~down' => Trail(recent', Rise, TRUE)
      BY <2>1, UpdateStep, Zenon
    <2>3. \A n \in Nat : \A r : Trail(recent', n, r) => LastAre(n, r)
      BY <2>2, Zenon DEF CInv, Trail, LastAre
    <2>4. QED
      BY <2>2, <2>3, ConstantsAssumption, Zenon
  <1>2. ASSUME \A w \in Workers : ~Result(w)
        PROVE  CInv' /\ UNCHANGED down
    <2>1. UNCHANGED <<recent, rise_count, fall_count, down>>
      BY <1>2, OtherSteps, Zenon
    <2>2. CInv'
      BY <2>1, Zenon DEF CInv
    <2>3. QED
      BY <2>1, <2>2, Zenon
  <1>3. CASE \E w \in Workers : Result(w)
    BY Zenon, <1>1, <1>3
  <1>4. CASE ~\E w \in Workers : Result(w)
    <2>1. CInv' /\ down' = down
      BY Zenon, <1>2, <1>4
    <2>2. QED
      BY Zenon, <2>1
  <1>5. QED
    BY <1>3, <1>4, Zenon

(* The status changes only on a run of results as long as its threshold,   *)
(* whichever workers they come from, at whatever pace, and through the     *)
(* death of an owner or the move of its array.                             *)
THEOREM StatusHysteresis == Spec => Hysteresis
  <1> DEFINE A == /\ ~down /\ down' => LastAre(Fall, FALSE)
                  /\ down /\ ~down' => LastAre(Rise, TRUE)
             HInv == AInv /\ CInv
  <1>1. Init => HInv
    BY ConstantsAssumption DEF Init, AInv, CInv, Trail
  <1>2. HInv /\ [Next]_vars => HInv' /\ [A]_vars
    BY AnswerStep, CountStep, Zenon
  <1>3. QED
    BY <1>1, <1>2, PTL DEF Spec, Hysteresis

-----------------------------------------------------------------------------
(* The types *)

\* The ages, and what the other invariants leave out.
Ages ==
    /\ age \in 0..MaxAge /\ lag \in [Workers -> 0..MaxLag]
    /\ down \in BOOLEAN /\ kept \in [Workers -> BOOLEAN]
    /\ flips \in 0..MaxFlips /\ crashes \in 0..MaxCrashes /\ reallocs \in 0..MaxReallocs

\* A clock that lags is never older than the oldest result.
LEMMA AgeBound == MaxAge \in Nat /\ MaxLag <= MaxAge
  <1>1. 2 ^ Shift \in Nat
    <2>1. IsFiniteSet(1..Shift) /\ Cardinality(1..Shift) = IF 1 > Shift THEN 0 ELSE Shift - 1 + 1
      BY ConstantsAssumption, FS_Interval
    <2>2. Cardinality(1..Shift) = Shift
      BY <2>1, ConstantsAssumption
    <2>3. /\ IsFiniteSet(SUBSET (1..Shift))
          /\ Cardinality(SUBSET (1..Shift)) = 2 ^ Cardinality(1..Shift)
      BY <2>1, FS_SUBSET, Zenon
    <2>4. QED
      BY <2>2, <2>3, FS_CardinalityType, Zenon
  <1>2. Takeover \in Nat
    BY <1>1, ConstantsAssumption DEF Takeover
  <1>3. QED
    BY <1>2, ConstantsAssumption DEF MaxAge

\* Every step keeps the ages.
LEMMA AgesStep == ASSUME Ages, [Next]_vars PROVE Ages'
  <1> USE ConstantsAssumption, AgeBound DEF Ages
  <1>1. ASSUME NEW w \in Workers, Begin(w) \/ Connect(w) \/ Answer(w)
        PROVE  Ages'
    BY <1>1, Zenon DEF Begin, Connect, Answer, shm, env
  <1>2. ASSUME NEW w \in Workers, Claim(w)
        PROVE  Ages'
    BY <1>2 DEF Claim, env
  <1>3. ASSUME NEW w \in Workers, Result(w)
        PROVE  Ages'
    <2>1. age' = lag[w] /\ down' \in BOOLEAN /\ UNCHANGED <<lag, kept, env>>
      BY <1>3, Zenon DEF Result, ngx_http_upstream_check_status_update
    <2>2. QED
      BY <2>1 DEF env
  <1>4. ASSUME NEW w \in Workers,
               \/ ngx_http_upstream_check_clean_event(w)
               \/ ngx_http_upstream_check_discard_handler(w)
        PROVE  Ages'
    <2>1. kept' \in [Workers -> BOOLEAN]
      BY ZenonT(40), <1>4 DEF ngx_http_upstream_check_clean_event,
         ngx_http_upstream_check_discard_handler
    <2>2. UNCHANGED <<age, lag, down, env>>
      BY <1>4, Zenon DEF ngx_http_upstream_check_clean_event,
         ngx_http_upstream_check_discard_handler
    <2>3. QED
      BY <2>1, <2>2, Zenon DEF env
  <1>4a. ASSUME NEW w \in Workers, ngx_time_update(w)
         PROVE  Ages'
    BY <1>4a DEF ngx_time_update, shm, env
  <1>5. ASSUME NEW w \in Workers, Realloc(w) \/ Crash(w)
        PROVE  Ages'
    <2>1. kept' \in [Workers -> BOOLEAN]
      BY ZenonT(40), <1>5 DEF Realloc, Crash
    <2>2. /\ UNCHANGED <<age, down, flips>> /\ lag' \in [Workers -> 0..MaxLag]
          /\ crashes' \in 0..MaxCrashes /\ reallocs' \in 0..MaxReallocs
      <3>1. CASE Realloc(w)
        BY <3>1 DEF Realloc, shm
      <3>2. CASE Crash(w)
        BY <3>2 DEF Crash
      <3>3. QED
        BY <1>5, <3>1, <3>2, Zenon
    <2>3. QED
      BY <2>1, <2>2, Zenon
  <1>6. CASE Tick
    BY <1>6 DEF Tick, Least, env
  <1>7. CASE Flip
    BY <1>7 DEF Flip, shm, work
  <1>8. CASE UNCHANGED vars
    BY <1>8, Zenon DEF vars, shm, work, env
  <1>9. QED
    BY <1>1, <1>2, <1>3, <1>4, <1>4a, <1>5, <1>6, <1>7, <1>8, Zenon DEF Next, Handler

(* The state of the peer and of its checks keeps its types: the counters   *)
(* stay below their thresholds and the ages below their bounds.            *)
THEOREM TypeCorrect == Spec => []TypeOK
  <1> DEFINE TInv == OInv /\ AInv /\ CInv /\ Ages
  <1>1. Init => TInv
    BY ConstantsAssumption, NobodyAssumption, AgeBound
       DEF Init, OInv, OwnerTypes, OwnerWorks, PCs, AInv, CInv, Trail, Ages
  <1>2. TInv /\ [Next]_vars => TInv'
    BY OwnerStep, AnswerStep, CountStep, AgesStep, Zenon
  <1>3. TInv => TypeOK
    BY Zenon DEF OInv, OwnerTypes, PCs, AInv, CInv, Ages, TypeOK
  <1>4. QED
    BY <1>1, <1>2, <1>3, PTL DEF Spec

=============================================================================
