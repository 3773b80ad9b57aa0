---------------------------- MODULE DyupsProofs ----------------------------
(***************************************************************************)
(* Proofs about Dyups for any number of workers, names and contents, and   *)
(* any number of messages, deaths and faults: a message never has more     *)
(* readers than room for them, and it is not freed before every worker     *)
(* that has to apply it has done so.                                       *)
(***************************************************************************)
EXTENDS Dyups, FiniteSetTheorems, TLAPS

Up == {w \in Workers : phase[w] = "up"}
Sleeping == {w \in Workers : phase[w] = "sleep"}
Pids(W) == {pid[w] : w \in W}

\* No two workers have the same pid.
PidInv ==
    /\ \A w \in Up \cup Sleeping : pid[w] # 0
    /\ \A v, w \in Workers : pid[v] = pid[w] /\ pid[v] # 0 => v = w

\* The ids order the messages; without one nothing has changed.
QueueInv ==
    /\ \A m, k \in queue : m.id = k.id => m = k
    /\ version = 0 => queue = {} /\ truth = [n \in Names |-> Initial]

\* A new worker that sleeps has left no trace yet.
SleepInv ==
    /\ \A w \in Workers : waiting[w] \subseteq Up
    /\ \A w \in Workers \ Sleeping : waiting[w] = {}
    /\ \A w \in Workers \ Up : known[w] = {}
    /\ \A w \in Sleeping : /\ version # 0
                           /\ pid[w] \notin Range(status)
                           /\ \A m \in queue : pid[w] \notin m.pids

----------------------------------------------------------------------------
(* The slots: Head(status) never is the pid of a running worker when a     *)
(* new worker takes it.                                                    *)

\* Slot a was stamped before slot b, and no pid has two slots.
Before(s, a, b) == \E i, j \in DOMAIN s : i < j /\ s[i] = a /\ s[j] = b
Distinct(s) == \A i, j \in DOMAIN s : s[i] = s[j] => i = j

\* The running workers that have stamped their slots since w was started.
Fresh(w) == Pids(Up \ waiting[w])

\* The pids of dead workers that such a worker's pid does not precede.
Stale(w) ==
    {a \in Range(status) \ Pids(Up) :
        \A b \in Fresh(w) \cap Range(status) : Before(status, a, b)}

\* Those that sleep since w was started, and the workers without a slot.
Sleepers(w) == {v \in Sleeping : pid[v] <= pid[w]}
Slotless == {u \in Up : pid[u] \notin Range(status)}

\* There is a slot for each of them.
Room(w) == Cardinality(Sleepers(w)) + Cardinality(Slotless)
             <= Cardinality(Stale(w)) + (N - Len(status))

SlotInv ==
    /\ Distinct(status)
    /\ lates = 0 => \A w \in Sleeping : Room(w)

----------------------------------------------------------------------------
(* The messages: one that a worker has still to apply has fewer readers    *)
(* than there are workers.                                                 *)

\* The readers that were replaced since, and the workers other than v that
\* do not read m before v does.
Old(m) == m.pids \ Pids(Workers)
Gap(m, v) ==
    {u \in Workers \ {v} : /\ pid[u] \notin m.pids
                           /\ phase[u] = "down" \/ v \in waiting[u]}

ToApply(m, v) ==
    /\ pid[v] \notin m.pids
    /\ Cardinality(Old(m)) <= Cardinality(Gap(m, v))

InStep(v, name) ==
    \/ /\ conf[v][name] = truth[name]
       /\ \A m \in Unread(pid[v]) : m.name # name
    \/ \E m \in queue :
        /\ m.name = name /\ m.val = truth[name]
        /\ ToApply(m, v)
        /\ \A k \in queue : k.name = name => k.id <= m.id

SyncInv ==
    lates = 0 => \A v \in Up : \A name \in known[v] \ unsynced : InStep(v, name)

IInv == /\ TypeOK /\ ReadersFit /\ PidInv /\ QueueInv /\ SleepInv
        /\ SlotInv /\ SyncInv

----------------------------------------------------------------------------
(* Numbers of workers, and the message that is read last *)

Msgs(v, l) == [id : 1..v, name : Names, val : Vals \cup {Absent},
               pids : SUBSET (1..l)]

\* The workers can be counted.
LEMMA WorkersFinite ==
    /\ IsFiniteSet(Workers) /\ Cardinality(Workers) = N
    /\ \A W \in SUBSET Workers : IsFiniteSet(W) /\ Cardinality(W) \in 0..N
  <1>1. IsFiniteSet(Workers) /\ Cardinality(Workers) = N
    BY FS_Interval, NAssumption DEF Workers
  <1>2. ASSUME NEW W \in SUBSET Workers
        PROVE  IsFiniteSet(W) /\ Cardinality(W) \in 0..N
    <2>1. IsFiniteSet(W) /\ Cardinality(W) <= N
      BY <1>1, FS_Subset, Zenon
    <2>2. Cardinality(W) \in Nat
      BY <2>1, FS_CardinalityType, Zenon
    <2>3. QED
      BY <2>1, <2>2, NAssumption
  <1>3. QED
    BY <1>1, <1>2, Zenon

\* A bounded set of numbers has a largest element.
LEMMA Largest ==
    ASSUME NEW n \in Nat, NEW S \in SUBSET (0..n), S # {}
    PROVE  \E x \in S : \A y \in S : y <= x
  <1> DEFINE T == {x..n : x \in S}
  <1>1. T \subseteq FiniteSubsetsOf(Nat)
    <2> SUFFICES ASSUME NEW x \in S PROVE x..n \in FiniteSubsetsOf(Nat)
      BY Zenon
    <2>1. IsFiniteSet(x..n) /\ x..n \in SUBSET Nat
      BY FS_Interval
    <2>2. QED
      BY <2>1, Zenon DEF FiniteSubsetsOf
  <1>2. T # {}
    BY ZenonT(40)
  <1>3. PICK U \in T : \A V \in T : ~(<<V, U>> \in StrictSubsetOrdering(Nat))
    BY ZenonT(40), <1>1, <1>2, WFMin, FS_StrictSubsetOrderingWellFounded
  <1>4. PICK x \in S : U = x..n
    BY Zenon
  <1>5. ASSUME NEW y \in S PROVE y <= x
    <2> SUFFICES ASSUME x < y PROVE FALSE
      OBVIOUS
    <2>1. y..n \in SUBSET Nat /\ x..n \in SUBSET Nat /\ y..n \subseteq x..n
      OBVIOUS
    <2>2. x \in x..n /\ x \notin y..n
      OBVIOUS
    <2>3. <<y..n, x..n>> \in StrictSubsetOrdering(Nat)
      BY <2>1, <2>2, Zenon DEF StrictSubsetOrdering
    <2>4. QED
      BY ZenonT(40), <1>3, <1>4, <2>3
  <1>6. QED
    BY <1>5, Zenon

\* Of some messages one is read last.
LEMMA NewestIsLast ==
    ASSUME NEW v \in Nat, NEW l \in Nat, NEW ms \in SUBSET Msgs(v, l), ms # {}
    PROVE  Newest(ms) \in ms /\ \A k \in ms : k.id <= Newest(ms).id
  <1> DEFINE S == {m.id : m \in ms}
  <1>1. \A m \in ms : m.id \in 0..v
    BY DEF Msgs
  <1>2. S \in SUBSET (0..v) /\ S # {}
    BY <1>1, Zenon
  <1>3. PICK x \in S : \A y \in S : y <= x
    BY <1>2, Largest, Zenon
  <1>4. PICK m \in ms : x = m.id
    BY Zenon
  <1>5. \A k \in ms : k.id <= m.id
    BY <1>3, <1>4, Zenon
  <1>6. QED
    BY <1>5, Zenon DEF Newest

----------------------------------------------------------------------------
(* Stamping a slot *)

\* t is s without its k-th element and with p at the end.
Moved(s, t, k, p) ==
    /\ Len(t) = Len(s)
    /\ \A i \in 1..Len(s) :
        t[i] = IF i < k THEN s[i] ELSE IF i < Len(s) THEN s[i + 1] ELSE p

\* What the two ways of replacing a slot do to the array.
LEMMA Moves ==
    ASSUME NEW S, NEW s \in Seq(S), NEW p \in S
    PROVE  /\ \A k \in DOMAIN s : ToEnd(s, k) \in Seq(S) /\ Moved(s, ToEnd(s, k), k, s[k])
           /\ s # <<>> => LET t == Append(Tail(s), p)
                          IN  t \in Seq(S) /\ Moved(s, t, 1, p)
  <1>1. ASSUME NEW k \in DOMAIN s
        PROVE  ToEnd(s, k) \in Seq(S) /\ Moved(s, ToEnd(s, k), k, s[k])
    <2>1. PICK n \in Nat : n = Len(s)
      OBVIOUS
    <2>2. \A i \in 1..n : s[i] \in S
      BY <2>1
    <2>3. ToEnd(s, k) \in [1..n -> S]
      BY <2>1, <2>2 DEF ToEnd
    <2>4. ToEnd(s, k) \in Seq(S) /\ Len(ToEnd(s, k)) = n
      BY <2>3
    <2>5. QED
      BY <2>1, <2>4, Zenon DEF ToEnd, Moved
  <1>2. ASSUME s # <<>>
        PROVE  LET t == Append(Tail(s), p) IN t \in Seq(S) /\ Moved(s, t, 1, p)
    BY <1>2 DEF Moved
  <1>3. QED
    BY <1>1, <1>2, Zenon

(* The order of the other slots stays and the new one is the last.         *)
LEMMA MovedOrder ==
    ASSUME NEW S, NEW s \in Seq(S), NEW t \in Seq(S), NEW k \in DOMAIN s, NEW p,
           Moved(s, t, k, p), Distinct(s), p = s[k] \/ p \notin Range(s)
    PROVE  /\ Distinct(t)
           /\ Range(t) = (Range(s) \ {s[k]}) \cup {p}
           /\ \A a, b \in Range(s) \ {s[k]} : Before(s, a, b) => Before(t, a, b)
           /\ \A a \in Range(s) \ {s[k]} : Before(t, a, p)
  <1> DEFINE L == Len(s)
             back(i) == IF i < k THEN i ELSE IF i < L THEN i + 1 ELSE k
             to(i) == IF i < k THEN i ELSE IF i = k THEN L ELSE i - 1
  <1>1. L \in Nat /\ DOMAIN s = 1..L /\ DOMAIN t = 1..L /\ k \in 1..L
    BY DEF Moved
  <1>2. \A i \in 1..L : t[i] = IF i < L \/ i < k THEN s[back(i)] ELSE p
    BY <1>1, Zenon DEF Moved
  <1>3. /\ \A i \in 1..L : back(i) \in 1..L /\ to(i) \in 1..L
        /\ \A i \in 1..L : back(i) = k <=> i = L
        /\ \A i \in 1..L : to(i) = L <=> i = k
        /\ \A i, j \in 1..L : back(i) = back(j) => i = j
        /\ \A i, j \in (1..L) \ {k} : i < j => to(i) < to(j)
    <2> HIDE DEF L
    <2>1. \A i \in 1..L : back(i) \in 1..L /\ (back(i) = k <=> i = L)
      BY <1>1
    <2>2. \A i \in 1..L : to(i) \in 1..L /\ (to(i) = L <=> i = k)
      BY <1>1
    <2>3. \A i, j \in 1..L : back(i) = back(j) => i = j
      <3>1. \A i \in 1..L : to(back(i)) = i
        BY <1>1
      <3>2. QED
        BY <3>1, Zenon
    <2>4. \A i, j \in (1..L) \ {k} : i < j => to(i) < to(j)
      BY <1>1
    <2>5. QED
      BY <2>1, <2>2, <2>3, <2>4, Zenon
  <1>4. t[L] = p /\ \A i \in 1..L : i # k => t[to(i)] = s[i]
    BY SMTT(30), <1>1, <1>2
  <1>5. \A i \in 1..L : i # L => t[i] = s[back(i)] /\ back(i) # k
    BY <1>1, <1>2, <1>3, Zenon
  <1> HIDE DEF L, back, to
  <1>6. \A i \in 1..L : i # L => t[i] # p
    BY <1>1, <1>3, <1>5 DEF Distinct, Range
  <1>7. Distinct(t)
    <2> SUFFICES ASSUME NEW i \in 1..L, NEW j \in 1..L, t[i] = t[j] PROVE i = j
      BY <1>1, Zenon DEF Distinct
    <2>1. CASE i = L \/ j = L
      BY <2>1, <1>4, <1>6, Zenon
    <2>2. CASE i # L /\ j # L
      BY <2>2, <1>1, <1>3, <1>5, Zenon DEF Distinct
    <2>3. QED
      BY <2>1, <2>2, Zenon
  <1>8. Range(t) = (Range(s) \ {s[k]}) \cup {p}
    <2>1. ASSUME NEW x \in Range(t) PROVE x \in (Range(s) \ {s[k]}) \cup {p}
      <3>1. PICK i \in 1..L : x = t[i]
        BY <2>1, <1>1, Zenon DEF Range
      <3>2. CASE i = L
        BY <3>1, <3>2, <1>4, Zenon
      <3>3. CASE i # L
        <4>1. x = s[back(i)] /\ back(i) \in 1..L /\ back(i) # k
          BY <3>1, <3>3, <1>3, <1>5, Zenon
        <4>2. QED
          BY <4>1, <1>1, Zenon DEF Range, Distinct
      <3>4. QED
        BY <3>2, <3>3, Zenon
    <2>2. ASSUME NEW x \in Range(s), x # s[k] PROVE x \in Range(t)
      BY <2>2, <1>1, <1>3, <1>4, Zenon DEF Range
    <2>3. p \in Range(t)
      BY <1>1, <1>4 DEF Range, L
    <2>4. QED
      BY <2>1, <2>2, <2>3, Zenon
  <1>9. ASSUME NEW a \in Range(s) \ {s[k]}, NEW b \in Range(s) \ {s[k]}, Before(s, a, b)
        PROVE  Before(t, a, b)
    <2>1. PICK i \in 1..L, j \in 1..L : i < j /\ s[i] = a /\ s[j] = b
      BY <1>9, <1>1, Zenon DEF Before
    <2>2. i # k /\ j # k
      BY <2>1, Zenon
    <2>3. to(i) \in 1..L /\ to(j) \in 1..L /\ to(i) < to(j) /\ t[to(i)] = a /\ t[to(j)] = b
      BY <2>1, <2>2, <1>3, <1>4, Zenon
    <2>4. QED
      BY <2>3, <1>1, Zenon DEF Before
  <1>10. ASSUME NEW a \in Range(s) \ {s[k]} PROVE Before(t, a, p)
    <2>1. PICK i \in 1..L : i # k /\ s[i] = a
      BY <1>1, Zenon DEF Range
    <2>2. to(i) \in 1..L /\ to(i) # L /\ t[to(i)] = a
      BY <2>1, <1>3, <1>4, Zenon
    <2>3. L \in 1..L /\ to(i) < L
      BY <2>2, <1>1
    <2>4. QED
      BY <2>2, <2>3, <1>1, <1>4, Zenon DEF Before
  <1>11. QED
    BY <1>7, <1>8, <1>9, <1>10, Zenon

----------------------------------------------------------------------------
(* Steps and types *)

V == Vals \cup {Initial, Broken, Absent}

\* A read that nothing follows.
ReadOnly(w, o) ==
    /\ Reads(w, o, 0)
    /\ queue' = ReadQueue(w, o)
    /\ conf' = [conf EXCEPT ![w] = ReadConf(w, o)]
    /\ unsynced' = unsynced \cup Missed(w, o)
    /\ UNCHANGED <<version, truth, known>>

\* What a running worker does with the zone's mutex.
Handles(w, o) ==
    \/ ReadOnly(w, o)
    \/ \E name \in Names, val \in Vals \cup {Absent} : Sends(w, o, name, val)
    \/ \E name \in Names, val \in V : SendFails(w, o, name, val)

\* The contents of a message are among the contents of a name.
LEMMA Contents == Vals \cup {Absent} \subseteq V /\ Initial \in V /\ Broken \in V
  BY Zenon DEF V

\* There are four kinds of steps.
LEMMA Steps ==
    ASSUME Next
    PROVE  \E w \in Workers : \/ Start(w) \/ Wake(w) \/ Crash(w)
                              \/ \E o \in Outcomes(w) : Handles(w, o)
  <1>1. PICK w \in Workers : Step(w)
    BY Zenon DEF Next
  <1>2. CASE ngx_http_dyups_read_msg(w)
    BY <1>2, Zenon DEF ngx_http_dyups_read_msg, Handles, ReadOnly
  <1>3. CASE \E name \in Names, val \in Vals : ngx_dyups_update_upstream(w, name, val)
    BY <1>3, Contents, Zenon DEF ngx_dyups_update_upstream, Handles
  <1>4. CASE \E name \in Names : ngx_dyups_delete_upstream(w, name)
    BY <1>4, Contents, Zenon DEF ngx_dyups_delete_upstream, Handles
  <1>5. QED
    BY <1>1, <1>2, <1>3, <1>4, Zenon DEF Step

\* What the types of the variables give.
LEMMA Types ==
    ASSUME TypeOK
    PROVE  /\ queue \subseteq Msgs(version, lastPid)
           /\ \A m \in queue : /\ m.id \in 1..version
                               /\ m.pids \in SUBSET (1..lastPid)
           /\ version \in Nat /\ lastPid \in Nat /\ lates \in Nat
           /\ status \in Seq(1..lastPid) /\ Len(status) \in Nat /\ Len(status) <= N
           /\ Range(status) \subseteq 1..lastPid
           /\ phase \in [Workers -> {"down", "sleep", "up"}]
           /\ pid \in [Workers -> 0..lastPid]
           /\ conf \in [Workers -> [Names -> V]]
           /\ waiting \in [Workers -> SUBSET Workers]
           /\ truth \in [Names -> V]
           /\ known \in [Workers -> SUBSET Names]
  <1>1. Range(status) \subseteq 1..lastPid
    BY DEF TypeOK, Range
  <1>2. QED
    BY <1>1 DEF TypeOK, Msgs, V

\* What is at most the number that one more element may give is at most one more.
LEMMA OneMore ==
    ASSUME NEW a \in Nat, NEW b, NEW c \in Nat, b \in {a, a + 1}, c <= b
    PROVE  c <= a + 1
  BY SMT

\* Of two counts, the one that grows by at most one stays below the one that grows.
LEMMA StillBelow ==
    ASSUME NEW a \in Nat, NEW b \in Nat, NEW c \in Nat, NEW d \in Nat,
           a <= b, c <= a + 1, b + 1 <= d
    PROVE  c <= d
  BY SMT

\* The number after n is new, and not zero.
LEMMA NextNumber == ASSUME NEW n \in Nat PROVE n + 1 \notin 1..n /\ n + 1 # 0
  BY SMT

\* No count is below zero.
LEMMA ZeroLeast == ASSUME NEW n \in Nat PROVE 0 <= n
  BY SMT

\* A worker's pid is one that was given out.
LEMMA PidRange == ASSUME TypeOK, NEW w \in Workers, pid[w] # 0 PROVE pid[w] \in 1..lastPid
  BY Types, SMT

\* The ids of the messages are numbers.
LEMMA IdNat == ASSUME TypeOK, NEW m \in queue PROVE m.id \in Nat
  BY Types, SMT

\* No message has the id that stands for a missing pool.
LEMMA NothingMissed == ASSUME TypeOK, NEW w, NEW o, o = NoPool PROVE Missed(w, o) = {}
  <1>1. ASSUME NEW m \in queue PROVE m.id # o
    BY IdNat, SMT DEF NoPool
  <1>2. QED
    BY <1>1, Zenon DEF Missed, Unread

\* The ids of the messages after a step.
LEMMA TypesAfter == ASSUME TypeOK' PROVE \A k \in queue' : k.id \in 1..version'
  BY Zenon DEF TypeOK

\* The types of what a read leaves.
LEMMA ReadTypes ==
    ASSUME TypeOK, NEW w \in Workers, pid[w] # 0, NEW o
    PROVE  /\ ReadQueue(w, o) \subseteq Msgs(version, lastPid)
           /\ ReadConf(w, o) \in [Names -> V]
           /\ Missed(w, o) \subseteq Names
  <1>1. /\ queue \subseteq Msgs(version, lastPid)
        /\ conf[w] \in [Names -> V]
        /\ pid[w] \in 1..lastPid
        /\ version \in Nat /\ lastPid \in Nat
    BY Types
  <1>2. Unread(pid[w]) \subseteq queue
    BY Zenon DEF Unread
  <1>3. MarkRead(pid[w], queue) \subseteq Msgs(version, lastPid)
    BY <1>1 DEF MarkRead, Msgs
  <1>4. SyncAll(conf[w], Unread(pid[w]), o) \in [Names -> V]
    <2> SUFFICES ASSUME NEW n \in Names
                 PROVE  LET about == {m \in Unread(pid[w]) : m.name = n}
                        IN  (IF about = {} THEN conf[w][n]
                             ELSE ngx_dyups_sync_cmd(Newest(about), o)) \in V
      BY Zenon DEF SyncAll
    <2> DEFINE about == {m \in Unread(pid[w]) : m.name = n}
    <2>1. about \in SUBSET Msgs(version, lastPid)
      BY <1>1, <1>2, Zenon
    <2> HIDE DEF about
    <2>2. CASE about # {}
      <3>1. Newest(about) \in Msgs(version, lastPid)
        BY <1>1, <2>1, <2>2, NewestIsLast, Zenon
      <3>2. QED
        BY <2>2, <3>1, Contents, Zenon DEF ngx_dyups_sync_cmd, Msgs, about
    <2>3. CASE about = {}
      BY <2>3, <1>1, Zenon DEF about
    <2>4. QED
      BY <2>2, <2>3, Zenon
  <1>5. Missed(w, o) \subseteq Names
    BY <1>1, <1>2, Zenon DEF Missed, Msgs
  <1>6. QED
    BY <1>1, <1>3, <1>4, <1>5, Zenon DEF ReadQueue, ReadConf

\* The types of the slots.
LEMMA StampTypes ==
    ASSUME TypeOK, NEW p \in 1..lastPid
    PROVE  Stamp(p) \in Seq(1..lastPid) /\ Len(Stamp(p)) <= N
  <1>1. status \in Seq(1..lastPid) /\ Len(status) <= N /\ Len(status) \in Nat
    BY Types, Zenon
  <1>2. CASE p \in Range(status)
    <2>1. (CHOOSE k \in DOMAIN status : status[k] = p) \in DOMAIN status
      BY <1>2, Zenon DEF Range
    <2>2. QED
      BY <1>1, <1>2, <2>1, Moves DEF Stamp, Moved
  <1>3. CASE p \notin Range(status) /\ Len(status) < N
    BY <1>1, <1>3, NAssumption DEF Stamp
  <1>4. CASE p \notin Range(status) /\ ~(Len(status) < N)
    BY <1>1, <1>4, Zenon DEF Stamp
  <1>5. QED
    BY <1>2, <1>3, <1>4, Zenon

\* Types are kept.
LEMMA TypeStep ==
    ASSUME TypeOK, PidInv, [Next]_vars
    PROVE  TypeOK'
  <1>0. /\ queue \subseteq Msgs(version, lastPid)
        /\ {version, lastPid, crashes, fails, lates} \subseteq Nat
        /\ status \in Seq(1..lastPid) /\ Len(status) <= N
        /\ phase \in [Workers -> {"down", "sleep", "up"}]
        /\ pid \in [Workers -> 0..lastPid]
        /\ conf \in [Workers -> [Names -> V]]
        /\ waiting \in [Workers -> SUBSET Workers]
        /\ truth \in [Names -> Vals \cup {Initial, Absent}]
        /\ unsynced \subseteq Names
        /\ known \in [Workers -> SUBSET Names]
    BY Zenon DEF TypeOK, Msgs, V
  <1> DEFINE Goal ==
        /\ queue' \subseteq Msgs(version', lastPid')
        /\ {version, lastPid, crashes, fails, lates}' \subseteq Nat
        /\ status' \in Seq(1..lastPid') /\ Len(status') <= N
        /\ phase' \in [Workers -> {"down", "sleep", "up"}]
        /\ pid' \in [Workers -> 0..lastPid']
        /\ conf' \in [Workers -> [Names -> V]]
        /\ waiting' \in [Workers -> SUBSET Workers]
        /\ truth' \in [Names -> Vals \cup {Initial, Absent}]
        /\ unsynced' \subseteq Names
        /\ known' \in [Workers -> SUBSET Names]
  <1>1. ASSUME NEW w \in Workers, Start(w) PROVE Goal
    <2>1. /\ UNCHANGED <<queue, version, status, truth, unsynced>>
          /\ UNCHANGED <<crashes, fails, lates>>
          /\ lastPid' = lastPid + 1
          /\ pid' = [pid EXCEPT ![w] = lastPid + 1]
          /\ conf' = [conf EXCEPT ![w] = [n \in Names |-> Initial]]
      BY <1>1, Zenon DEF Start, shared
    <2>2. phase' \in [Workers -> {"down", "sleep", "up"}]
      BY <1>0, <1>1, Zenon DEF Start
    <2>3. waiting' \in [Workers -> SUBSET Workers]
      <3>1. \/ waiting' = waiting
            \/ waiting' = [waiting EXCEPT ![w] = {v \in Workers : phase[v] = "up"}]
        BY <1>1, Zenon DEF Start
      <3>2. QED
        BY SMTT(30), <1>0, <3>1
    <2>4. known' \in [Workers -> SUBSET Names]
      BY <1>0, <1>1, Zenon DEF Start
    <2>5. Msgs(version, lastPid) \subseteq Msgs(version, lastPid + 1)
      BY <1>0 DEF Msgs
    <2>6. status \in Seq(1..(lastPid + 1))
      <3>1. 1..lastPid \subseteq 1..(lastPid + 1)
        BY <1>0
      <3>2. QED
        BY <1>0, <3>1
    <2>7. pid' \in [Workers -> 0..(lastPid + 1)]
      BY <1>0, <2>1
    <2>8. conf' \in [Workers -> [Names -> V]]
      BY <1>0, <2>1, Contents, Zenon
    <2>9. QED
      BY <1>0, <2>1, <2>2, <2>3, <2>4, <2>5, <2>6, <2>7, <2>8
  <1>2. ASSUME NEW w \in Workers, Wake(w) PROVE Goal
    <2>1. /\ UNCHANGED <<version, pid, conf, lastPid, truth, unsynced, known>>
          /\ UNCHANGED <<crashes, fails>> /\ lates' \in {lates, lates + 1}
          /\ phase' = [phase EXCEPT ![w] = "up"]
          /\ waiting' = [waiting EXCEPT ![w] = {}]
      BY <1>2, Zenon DEF Wake, ghost
    <2>2. pid[w] \in 1..lastPid
      BY <1>0, <1>2 DEF Wake, PidInv, Sleeping
    <2>3. CASE Len(status) < N
      <3>1. status' = Append(status, pid[w]) /\ queue' = queue
        BY <1>2, <2>3, Zenon DEF Wake
      <3>2. status' \in Seq(1..lastPid) /\ Len(status') <= N
        BY <1>0, <2>2, <2>3, <3>1, NAssumption
      <3>3. QED
        BY <1>0, <2>1, <3>1, <3>2
    <2>4. CASE ~(Len(status) < N)
      <3>1. status' = Append(Tail(status), pid[w])
            /\ queue' = ngx_dyups_purge_msg(Head(status), pid[w])
        BY <1>2, <2>4, Zenon DEF Wake
      <3>2. status # <<>>
        BY <1>0, <2>4, NAssumption
      <3>3. status' \in Seq(1..lastPid) /\ Len(status') <= N
        BY <1>0, <2>2, <3>1, <3>2, Moves DEF Moved
      <3>4. queue' \subseteq Msgs(version, lastPid)
        <4> SUFFICES ASSUME NEW m \in queue
                     PROVE  [m EXCEPT !.pids = {IF p = Head(status) THEN pid[w] ELSE p : p \in @}]
                                \in Msgs(version, lastPid)
          BY <3>1, Zenon DEF ngx_dyups_purge_msg
        <4>1. {IF p = Head(status) THEN pid[w] ELSE p : p \in m.pids} \subseteq 1..lastPid
          BY <1>0, <2>2, Zenon DEF Msgs
        <4>2. QED
          BY <1>0, <4>1, ZenonT(30) DEF Msgs
      <3>5. QED
        BY <1>0, <2>1, <3>3, <3>4
    <2>5. QED
      BY <2>3, <2>4, Zenon
  <1>3. ASSUME NEW w \in Workers, Crash(w) PROVE Goal
    <2>1. /\ UNCHANGED <<version, status, pid, lastPid, truth, unsynced>>
          /\ UNCHANGED <<fails, lates>> /\ crashes' = crashes + 1
          /\ phase' = [phase EXCEPT ![w] = "down"]
          /\ known' = [known EXCEPT ![w] = {}]
          /\ conf' = [conf EXCEPT ![w] = [n \in Names |-> Initial]]
      BY <1>3, Zenon DEF Crash
    <2>2. waiting' \in [Workers -> SUBSET Workers]
      BY <1>0, <1>3, Zenon DEF Crash
    <2>3. conf' \in [Workers -> [Names -> V]]
      BY <1>0, <2>1, Contents, Zenon
    <2>4. pid[w] \in 1..lastPid
      BY <1>0, <1>3 DEF Crash, PidInv, Sleeping, Up
    <2>5. queue' \subseteq Msgs(version, lastPid)
      <3>1. MarkRead(pid[w], queue) \subseteq Msgs(version, lastPid)
        <4>1. ReadQueue(w, 0) \subseteq Msgs(version, lastPid)
          BY <2>4, ReadTypes
        <4>2. QED
          BY <4>1 DEF ReadQueue, NoPool
      <3>2. PICK k : queue' = MarkRead(pid[w], {m \in queue : m.id <= k})
                              \cup {m \in queue : m.id > k}
        BY <1>3, Zenon DEF Crash
      <3>3. MarkRead(pid[w], {m \in queue : m.id <= k}) \subseteq MarkRead(pid[w], queue)
        BY Zenon DEF MarkRead
      <3>4. QED
        BY <1>0, <3>1, <3>2, <3>3, Zenon
    <2>6. QED
      BY <1>0, <2>1, <2>2, <2>3, <2>5
  <1>4. ASSUME NEW w \in Workers, NEW o \in Outcomes(w), Handles(w, o) PROVE Goal
    <2>1. PICK more \in {0, 1} : Reads(w, o, more)
      BY <1>4, Zenon DEF Handles, ReadOnly, Sends, SendFails
    <2>2. /\ phase[w] = "up" /\ status' = Stamp(pid[w])
          /\ UNCHANGED <<phase, pid, lastPid, crashes, lates>>
          /\ fails' \in Nat
      BY <1>0, <2>1 DEF Reads
    <2>3. waiting' \in [Workers -> SUBSET Workers]
      BY <1>0, <2>1, Zenon DEF Reads
    <2>4. pid[w] \in 1..lastPid
      BY <1>0, <2>2 DEF PidInv, Up
    <2>5. status' \in Seq(1..lastPid) /\ Len(status') <= N
      BY <2>2, <2>4, StampTypes, Zenon
    <2>6. /\ ReadQueue(w, o) \subseteq Msgs(version, lastPid)
          /\ ReadConf(w, o) \in [Names -> V]
          /\ Missed(w, o) \subseteq Names
      BY <2>4, ReadTypes
    <2>7. CASE ReadOnly(w, o)
      BY <1>0, <2>2, <2>3, <2>5, <2>6, <2>7, Zenon DEF ReadOnly
    <2>8. ASSUME NEW name \in Names, NEW val \in Vals \cup {Absent}, Sends(w, o, name, val)
          PROVE  Goal
      <3>1. version' \in Nat /\ queue' \subseteq Msgs(version', lastPid)
        BY <1>0, <2>4, <2>6, <2>8 DEF Sends, Msgs
      <3>2. conf' \in [Workers -> [Names -> V]]
        BY <1>0, <2>6, <2>8, Contents, Zenon DEF Sends
      <3>3. truth' \in [Names -> Vals \cup {Initial, Absent}]
        BY <1>0, <2>8, Zenon DEF Sends
      <3>4. unsynced' \subseteq Names
        BY <1>0, <2>6, <2>8, Zenon DEF Sends
      <3>5. known' \in [Workers -> SUBSET Names]
        BY <1>0, <2>8, Zenon DEF Sends
      <3>6. QED
        BY <1>0, <2>2, <2>3, <2>5, <3>1, <3>2, <3>3, <3>4, <3>5, Zenon
    <2>9. ASSUME NEW name \in Names, NEW val \in V, SendFails(w, o, name, val)
          PROVE  Goal
      <3>1. /\ UNCHANGED <<version, truth, known>> /\ queue' = ReadQueue(w, o)
            /\ unsynced' \subseteq Names
        BY <1>0, <2>6, <2>9, Zenon DEF SendFails
      <3>2. conf' \in [Workers -> [Names -> V]]
        BY <1>0, <2>6, <2>9, Zenon DEF SendFails
      <3>3. QED
        BY <1>0, <2>2, <2>3, <2>5, <2>6, <3>1, <3>2, Zenon
    <2> HIDE DEF Goal
    <2>10. QED
      BY <1>4, <2>7, <2>8, <2>9, Zenon DEF Handles
  <1>5. ASSUME UNCHANGED vars PROVE Goal
    BY <1>0, <1>5, Zenon DEF vars, shared, local, env, ghost
  <1> HIDE DEF Goal
  <1>6. Goal
    BY <1>1, <1>2, <1>3, <1>4, <1>5, Steps, Zenon
  <1>7. QED
    BY <1>6, Zenon DEF Goal, TypeOK, Msgs, V

----------------------------------------------------------------------------
(* The small invariants *)

(* The slots of t are those of s and p's, which is the last, in their      *)
(* order, perhaps but for some.                                            *)
Later(s, t, p) ==
    /\ Distinct(t)
    /\ \A a, b \in (Range(s) \cap Range(t)) \ {p} : Before(s, a, b) => Before(t, a, b)
    /\ p \in Range(t) => \A a \in Range(t) \ {p} : Before(t, a, p)

\* A first slot is taken behind the others.
LEMMA AppendOrder ==
    ASSUME NEW S, NEW s \in Seq(S), NEW p \in S, Distinct(s), p \notin Range(s)
    PROVE  LET t == Append(s, p)
           IN  /\ Later(s, t, p) /\ Range(t) = Range(s) \cup {p} /\ Len(t) = Len(s) + 1
  <1> DEFINE t == Append(s, p)
  <1>1. PICK n \in Nat : n = Len(s)
    OBVIOUS
  <1>2. /\ Len(t) = n + 1 /\ t[n + 1] = p /\ \A i \in 1..n : t[i] = s[i]
        /\ DOMAIN t = 1..(n + 1) /\ DOMAIN s = 1..n
    BY <1>1
  <1> HIDE DEF t
  <1>3. \A i \in 1..n : s[i] # p
    BY <1>2, Zenon DEF Range
  <1>4. Distinct(t)
    <2>1. \A i \in 1..(n + 1) : i \in 1..n \/ i = n + 1
      OBVIOUS
    <2>2. \A i \in 1..n : t[i] = s[i] /\ t[i] # p
      BY <1>2, <1>3, Zenon
    <2>3. \A i, j \in 1..n : t[i] = t[j] => i = j
      BY <1>2, <2>2, Zenon DEF Distinct
    <2>4. \A i, j \in 1..(n + 1) : t[i] = t[j] => i = j
      BY <1>2, <2>1, <2>2, <2>3, Zenon
    <2>5. QED
      BY <1>2, <2>4, Zenon DEF Distinct
  <1>5. Range(t) = Range(s) \cup {p}
    <2>1. \A i \in 1..(n + 1) : i \in 1..n \/ i = n + 1
      OBVIOUS
    <2>2. 1..n \subseteq 1..(n + 1) /\ n + 1 \in 1..(n + 1)
      OBVIOUS
    <2>3. QED
      BY <1>2, <2>1, <2>2, Zenon DEF Range
  <1>6. ASSUME NEW a \in Range(s), NEW b \in Range(s), Before(s, a, b)
        PROVE  Before(t, a, b)
    <2>1. PICK i \in 1..n, j \in 1..n : i < j /\ s[i] = a /\ s[j] = b
      BY <1>6, <1>2, Zenon DEF Before
    <2>2. i \in 1..(n + 1) /\ j \in 1..(n + 1)
      OBVIOUS
    <2>3. QED
      BY <2>1, <2>2, <1>2, Zenon DEF Before
  <1>7. ASSUME NEW a \in Range(s) PROVE Before(t, a, p)
    <2>1. PICK i \in 1..n : s[i] = a
      BY <1>2, Zenon DEF Range
    <2>2. i \in 1..(n + 1) /\ n + 1 \in 1..(n + 1) /\ i < n + 1
      OBVIOUS
    <2>3. QED
      BY <2>1, <2>2, <1>2, Zenon DEF Before
  <1>8. QED
    BY <1>1, <1>2, <1>4, <1>5, <1>6, <1>7, Zenon DEF Later, t

\* What a stamp does to the slots.
LEMMA StampOrder ==
    ASSUME TypeOK, Distinct(status), NEW p \in 1..lastPid
    PROVE  /\ Later(status, Stamp(p), p)
           /\ \/ /\ p \in Range(status) /\ Range(Stamp(p)) = Range(status)
                 /\ Len(Stamp(p)) = Len(status)
              \/ /\ p \notin Range(status) /\ Len(status) < N
                 /\ Range(Stamp(p)) = Range(status) \cup {p}
                 /\ Len(Stamp(p)) = Len(status) + 1
              \/ /\ p \notin Range(status) /\ Len(status) = N
                 /\ Stamp(p) = status
  <1>1. status \in Seq(1..lastPid) /\ Len(status) <= N /\ Len(status) \in Nat
    BY Types, Zenon
  <1>2. CASE p \in Range(status)
    <2> DEFINE k == CHOOSE i \in DOMAIN status : status[i] = p
    <2>1. k \in DOMAIN status /\ status[k] = p
      BY <1>2, Zenon DEF Range
    <2> HIDE DEF k
    <2>2. Stamp(p) = ToEnd(status, k)
      BY <1>2, Zenon DEF Stamp, k
    <2>3. Stamp(p) \in Seq(1..lastPid) /\ Moved(status, Stamp(p), k, p)
      BY <1>1, <2>1, <2>2, Moves
    <2>4. /\ Distinct(Stamp(p))
          /\ Range(Stamp(p)) = (Range(status) \ {p}) \cup {p}
          /\ \A a, b \in Range(status) \ {p} :
                Before(status, a, b) => Before(Stamp(p), a, b)
          /\ \A a \in Range(status) \ {p} : Before(Stamp(p), a, p)
      BY <1>1, <2>1, <2>3, MovedOrder
    <2>5. QED
      BY <1>2, <2>3, <2>4, Zenon DEF Later, Moved
  <1>3. CASE p \notin Range(status) /\ Len(status) < N
    <2>1. Stamp(p) = Append(status, p)
      BY <1>3, Zenon DEF Stamp
    <2>2. /\ Later(status, Append(status, p), p)
          /\ Range(Append(status, p)) = Range(status) \cup {p}
          /\ Len(Append(status, p)) = Len(status) + 1
      <3> DEFINE S == 1..lastPid
      <3>1. status \in Seq(S) /\ p \in S
        BY <1>1, Zenon
      <3> HIDE DEF S
      <3>2. QED
        BY <1>3, <3>1, AppendOrder
    <2>3. QED
      BY <1>3, <2>1, <2>2, Zenon
  <1>4. CASE p \notin Range(status) /\ ~(Len(status) < N)
    <2>1. Stamp(p) = status /\ Len(status) = N
      BY <1>1, <1>4, NAssumption DEF Stamp
    <2>2. Later(status, status, p)
      BY <1>4, Zenon DEF Later
    <2>3. QED
      BY <1>4, <2>1, <2>2, Zenon
  <1>5. QED
    BY <1>2, <1>3, <1>4, Zenon

\* What a new worker does to the slots.
LEMMA WakeOrder ==
    ASSUME TypeOK, Distinct(status), PidInv, SleepInv, NEW w \in Workers, Wake(w)
    PROVE  /\ pid[w] \in 1..lastPid /\ pid[w] \notin Range(status)
           /\ Later(status, status', pid[w])
           /\ \/ /\ Len(status) < N /\ Len(status') = Len(status) + 1
                 /\ Range(status') = Range(status) \cup {pid[w]}
                 /\ queue' = queue
              \/ /\ Len(status) = N /\ Len(status') = N
                 /\ Head(status) \in Range(status)
                 /\ Head(status) = status[1]
                 /\ Range(status') = (Range(status) \ {Head(status)}) \cup {pid[w]}
                 /\ queue' = ngx_dyups_purge_msg(Head(status), pid[w])
  <1>1. /\ status \in Seq(1..lastPid) /\ Len(status) <= N /\ Len(status) \in Nat
        /\ pid[w] \in 0..lastPid /\ lastPid \in Nat
    BY Types, Zenon
  <1>2. w \in Sleeping
    BY Zenon DEF Wake, Sleeping
  <1>3. pid[w] \in 1..lastPid /\ pid[w] \notin Range(status)
    BY <1>1, <1>2 DEF PidInv, SleepInv
  <1>4. CASE Len(status) < N
    <2>1. status' = Append(status, pid[w]) /\ queue' = queue
      BY <1>4, Zenon DEF Wake
    <2>2. QED
      BY <1>1, <1>3, <1>4, <2>1, AppendOrder
  <1>5. CASE ~(Len(status) < N)
    <2>1. /\ status' = Append(Tail(status), pid[w]) /\ Len(status) = N
          /\ queue' = ngx_dyups_purge_msg(Head(status), pid[w])
      BY <1>1, <1>5, NAssumption DEF Wake
    <2>2. status # <<>> /\ 1 \in DOMAIN status /\ Head(status) = status[1]
      BY <1>1, <2>1, NAssumption
    <2>3. status' \in Seq(1..lastPid) /\ Moved(status, status', 1, pid[w])
      BY <1>1, <1>3, <2>1, <2>2, Moves, Zenon
    <2>4. /\ Distinct(status')
          /\ Range(status') = (Range(status) \ {status[1]}) \cup {pid[w]}
          /\ \A a, b \in Range(status) \ {status[1]} :
                Before(status, a, b) => Before(status', a, b)
          /\ \A a \in Range(status) \ {status[1]} : Before(status', a, pid[w])
      BY <1>1, <1>3, <2>2, <2>3, MovedOrder, Zenon
    <2>5. Head(status) \in Range(status)
      BY <2>2, Zenon DEF Range
    <2>6. QED
      BY <1>3, <2>1, <2>2, <2>3, <2>4, <2>5, Zenon DEF Later, Moved
  <1>6. QED
    BY <1>3, <1>4, <1>5, Zenon

\* A set of readers in which n takes the place of o.
Swap(S, o, n) == {IF p = o THEN n ELSE p : p \in S}

\* How many readers a message has once its reader o is replaced by n.
LEMMA Replaced ==
    ASSUME NEW S, IsFiniteSet(S), NEW o, NEW n
    PROVE  LET T == Swap(S, o, n)
           IN  /\ T = IF o \in S THEN (S \ {o}) \cup {n} ELSE S
               /\ IsFiniteSet(T) /\ Cardinality(T) \in Nat
               /\ Cardinality(T) <= Cardinality(S)
               /\ n \notin S => Cardinality(T) = Cardinality(S)
  <1> DEFINE T == Swap(S, o, n)
  <1>1. Cardinality(S) \in Nat
    BY FS_CardinalityType, Zenon
  <1>2. T = IF o \in S THEN (S \ {o}) \cup {n} ELSE S
    BY Zenon DEF Swap
  <1> HIDE DEF T
  <1>3. CASE o \in S
    <2>1. IsFiniteSet(S \ {o}) /\ Cardinality(S \ {o}) = Cardinality(S) - 1
      BY <1>3, FS_RemoveElement, Zenon
    <2>2. /\ IsFiniteSet(T)
          /\ Cardinality(T) = IF n \in S \ {o} THEN Cardinality(S \ {o})
                              ELSE Cardinality(S \ {o}) + 1
      BY <1>2, <1>3, <2>1, FS_AddElement, Zenon
    <2>3. Cardinality(T) \in Nat
      BY <2>2, FS_CardinalityType, Zenon
    <2>4. QED
      BY <1>1, <1>2, <2>1, <2>2, <2>3 DEF T
  <1>4. CASE o \notin S
    BY <1>1, <1>2, <1>4 DEF T
  <1>5. QED
    BY <1>3, <1>4, Zenon

\* What messages have in common before and after a step.
Same(m, k) == m.id = k.id /\ m.name = k.name /\ m.val = k.val

(* Where the messages of a queue come from after w's step: those it has    *)
(* read have a reader more, it frees only what N workers have read.        *)
ReadBy(w, K) ==
    /\ K \subseteq queue
    /\ phase[w] = "up" \/ K = {}
    /\ \A k \in queue' : k.id <= version =>
        \E m \in queue :
            /\ Same(m, k)
            /\ \/ m \in K /\ ~Complete(m) /\ k.pids = m.pids \cup {pid[w]}
               \/ m \notin K /\ k = m
    /\ \A m \in queue :
        \/ m \in K /\ Complete(m)
        \/ \E k \in queue' :
            /\ Same(m, k)
            /\ k.pids = IF m \in K THEN m.pids \cup {pid[w]} ELSE m.pids

\* A read leaves a queue of this form; so does a crash.
LEMMA ReadForm ==
    ASSUME TypeOK, NEW w \in Workers
    PROVE  /\ \A o \in Outcomes(w) : Handles(w, o) =>
                 ReadBy(w, IF o = NoPool THEN {} ELSE queue)
           /\ Crash(w) => \E K : ReadBy(w, K)
  <1>0. /\ version \in Nat /\ queue \subseteq Msgs(version, lastPid)
    BY Types, Zenon
  <1>1. ASSUME NEW K \in SUBSET queue, phase[w] = "up" \/ K = {},
               NEW R, queue' = MarkRead(pid[w], K) \cup (queue \ K) \cup R,
               \A k \in R : k.id = version + 1
        PROVE  ReadBy(w, K)
    <2>1. \A m \in queue : LET k == [m EXCEPT !.pids = @ \cup {pid[w]}]
                           IN  Same(m, k) /\ k.pids = m.pids \cup {pid[w]}
      BY <1>0, Zenon DEF Same, Msgs
    <2>2. \A k \in MarkRead(pid[w], K) :
            \E m \in K : /\ ~Complete(m) /\ Same(m, k)
                         /\ k.pids = m.pids \cup {pid[w]}
      BY <2>1, Zenon DEF MarkRead
    <2>3. \A m \in K : \/ Complete(m)
                       \/ \E k \in MarkRead(pid[w], K) :
                            Same(m, k) /\ k.pids = m.pids \cup {pid[w]}
      BY <2>1, Zenon DEF MarkRead
    <2>4. \A m \in queue : Same(m, m)
      BY Zenon DEF Same
    <2>5. \A k \in R : ~(k.id <= version)
      BY <1>0, <1>1
    <2>6. \A k \in queue' : k.id <= version =>
            \E m \in queue :
                /\ Same(m, k)
                /\ \/ m \in K /\ ~Complete(m) /\ k.pids = m.pids \cup {pid[w]}
                   \/ m \notin K /\ k = m
      <3> SUFFICES ASSUME NEW k \in queue', k.id <= version
                   PROVE  \E m \in queue :
                            /\ Same(m, k)
                            /\ \/ m \in K /\ ~Complete(m) /\ k.pids = m.pids \cup {pid[w]}
                               \/ m \notin K /\ k = m
        BY Zenon
      <3>1. CASE k \in MarkRead(pid[w], K)
        BY <2>2, <3>1, Zenon
      <3>2. CASE k \in queue \ K
        BY <2>4, <3>2, Zenon
      <3>3. QED
        BY <1>1, <2>5, <3>1, <3>2, Zenon
    <2>7. \A m \in queue :
            \/ m \in K /\ Complete(m)
            \/ \E k \in queue' :
                /\ Same(m, k)
                /\ k.pids = IF m \in K THEN m.pids \cup {pid[w]} ELSE m.pids
      <3> SUFFICES ASSUME NEW m \in queue, ~(m \in K /\ Complete(m))
                   PROVE  \E k \in queue' :
                            /\ Same(m, k)
                            /\ k.pids = IF m \in K THEN m.pids \cup {pid[w]} ELSE m.pids
        BY Zenon
      <3>1. CASE m \in K
        BY <1>1, <2>3, <3>1, Zenon
      <3>2. CASE m \notin K
        BY <1>1, <2>4, <3>2, Zenon
      <3>3. QED
        BY <3>1, <3>2, Zenon
    <2>8. QED
      BY <1>1, <2>6, <2>7, Zenon DEF ReadBy
  <1>2. ASSUME NEW o \in Outcomes(w), Handles(w, o)
        PROVE  ReadBy(w, IF o = NoPool THEN {} ELSE queue)
    <2> DEFINE K == IF o = NoPool THEN {} ELSE queue
    <2>1. K \in SUBSET queue /\ MarkRead(pid[w], K) \cup (queue \ K) = ReadQueue(w, o)
      BY Zenon DEF ReadQueue, MarkRead
    <2>2. phase[w] = "up"
      BY <1>2, Zenon DEF Handles, ReadOnly, Sends, SendFails, Reads
    <2>3. CASE queue' = ReadQueue(w, o)
      <3> DEFINE R == {}
      <3>1. queue' = MarkRead(pid[w], K) \cup (queue \ K) \cup R
        BY <2>1, <2>3, Zenon
      <3>2. \A k \in R : k.id = version + 1
        BY Zenon
      <3> HIDE DEF K, R
      <3>3. ReadBy(w, K)
        BY <1>1, <2>1, <2>2, <3>1, <3>2, Zenon
      <3>4. QED
        BY <3>3, Zenon DEF K
    <2>4. ASSUME NEW name \in Names, NEW val \in Vals \cup {Absent}, Sends(w, o, name, val)
          PROVE  ReadBy(w, K)
      <3> DEFINE R == {[id |-> version + 1, name |-> name, val |-> val, pids |-> {pid[w]}]}
      <3>1. queue' = MarkRead(pid[w], K) \cup (queue \ K) \cup R
        BY <2>1, <2>4, Zenon DEF Sends
      <3>2. \A k \in R : k.id = version + 1
        OBVIOUS
      <3> HIDE DEF K, R
      <3>3. QED
        BY <1>1, <2>1, <2>2, <3>1, <3>2, Zenon
    <2>5. QED
      BY <1>2, <2>3, <2>4, Zenon DEF Handles, ReadOnly, SendFails
  <1>3. ASSUME Crash(w) PROVE \E K : ReadBy(w, K)
    <2>1. PICK k \in IF phase[w] = "up" THEN 0..version ELSE {0} :
            queue' = MarkRead(pid[w], {m \in queue : m.id <= k}) \cup {m \in queue : m.id > k}
      BY <1>3, Zenon DEF Crash
    <2> DEFINE K == {m \in queue : m.id <= k}
               R == {}
    <2>2. \A m \in queue : m.id \in Nat /\ m.id >= 1
      BY <1>0 DEF Msgs
    <2>3. k \in Nat
      BY <1>0, <2>1
    <2>4. {m \in queue : m.id > k} = queue \ K
      BY <2>2, <2>3
    <2>5. phase[w] = "up" \/ K = {}
      BY <2>1, <2>2
    <2>6. queue' = MarkRead(pid[w], K) \cup (queue \ K) \cup R
      BY <2>1, <2>4, Zenon
    <2>7. K \in SUBSET queue /\ \A m \in R : m.id = version + 1
      BY Zenon
    <2> HIDE DEF K, R
    <2>8. QED
      BY <1>1, <2>5, <2>6, <2>7, Zenon
  <1>4. QED
    BY <1>2, <1>3, Zenon

NewMsg(w, name, val) ==
    [id |-> version + 1, name |-> name, val |-> val, pids |-> {pid[w]}]

\* What a handler of w changes, and what it leaves.
LEMMA HandlesFrame ==
    ASSUME TypeOK, PidInv, NEW w \in Workers, NEW o \in Outcomes(w), Handles(w, o)
    PROVE  /\ w \in Up /\ pid[w] \in 1..lastPid /\ status' = Stamp(pid[w])
           /\ UNCHANGED <<phase, pid, lastPid, lates>>
           /\ waiting' = IF o = NoPool THEN waiting
                         ELSE [v \in Workers |-> waiting[v] \ {w}]
           /\ \/ /\ UNCHANGED <<version, truth, known>>
                 /\ queue' = ReadQueue(w, o)
                 /\ \A k \in queue' : k.id <= version
              \/ \E name \in Names, val \in Vals \cup {Absent} :
                    /\ Sends(w, o, name, val)
                    /\ version' = version + 1
                    /\ queue' = ReadQueue(w, o) \cup {NewMsg(w, name, val)}
                    /\ \A k \in queue' : k.id <= version \/ k = NewMsg(w, name, val)
  <1>1. /\ phase[w] = "up" /\ status' = Stamp(pid[w])
        /\ UNCHANGED <<phase, pid, lastPid, lates>>
        /\ waiting' = IF o = NoPool THEN waiting
                      ELSE [v \in Workers |-> waiting[v] \ {w}]
    BY Zenon DEF Handles, ReadOnly, Sends, SendFails, Reads
  <1>2. w \in Up /\ pid[w] \in 1..lastPid
    BY <1>1, Types DEF Up, PidInv
  <1>3. \A k \in ReadQueue(w, o) : k.id <= version
    <2>1. ReadQueue(w, o) \subseteq Msgs(version, lastPid)
      BY <1>2, ReadTypes
    <2>2. QED
      BY <2>1, Types DEF Msgs
  <1>4. CASE ReadOnly(w, o)
    BY <1>1, <1>2, <1>3, <1>4, Zenon DEF ReadOnly
  <1>5. ASSUME NEW name \in Names, NEW val \in Vals \cup {Absent}, Sends(w, o, name, val)
        PROVE  /\ version' = version + 1
               /\ queue' = ReadQueue(w, o) \cup {NewMsg(w, name, val)}
               /\ \A k \in queue' : k.id <= version \/ k = NewMsg(w, name, val)
    BY <1>3, <1>5, Zenon DEF Sends, NewMsg
  <1>6. ASSUME NEW name \in Names, NEW val \in V, SendFails(w, o, name, val)
        PROVE  /\ UNCHANGED <<version, truth, known>>
               /\ queue' = ReadQueue(w, o)
               /\ \A k \in queue' : k.id <= version
    BY <1>3, <1>6, Zenon DEF SendFails
  <1>7. QED
    BY <1>1, <1>2, <1>4, <1>5, <1>6, Zenon DEF Handles

\* No reader is added to a message that N workers have read.
LEMMA ReadersStep ==
    ASSUME TypeOK, TypeOK', PidInv, SleepInv, Distinct(status), ReadersFit, [Next]_vars
    PROVE  ReadersFit'
  <1>0. /\ \A m \in queue : /\ m.pids \in SUBSET (1..lastPid)
                            /\ Cardinality(m.pids) <= N
        /\ \A W \in SUBSET (1..lastPid) : IsFiniteSet(W) /\ Cardinality(W) \in Nat
    <2>1. IsFiniteSet(1..lastPid)
      BY Types, FS_Interval
    <2>2. \A W \in SUBSET (1..lastPid) : IsFiniteSet(W) /\ Cardinality(W) \in Nat
      BY <2>1, FS_Subset, FS_CardinalityType, Zenon
    <2>3. QED
      BY <2>2, Types, Zenon DEF ReadersFit
  <1>1. ASSUME NEW w \in Workers, NEW K, ReadBy(w, K), NEW k \in queue', k.id <= version
        PROVE  Cardinality(k.pids) <= N
    <2>1. PICK m \in queue : \/ k = m
                             \/ ~Complete(m) /\ k.pids = m.pids \cup {pid[w]}
      BY <1>1, Zenon DEF ReadBy
    <2>2. CASE ~Complete(m) /\ k.pids = m.pids \cup {pid[w]}
      <3>1. IsFiniteSet(m.pids) /\ Cardinality(m.pids) \in Nat /\ Cardinality(m.pids) < N
        BY <1>0, <2>2, NAssumption DEF Complete
      <3>2. Cardinality(k.pids) \in {Cardinality(m.pids), Cardinality(m.pids) + 1}
        BY <2>2, <3>1, FS_AddElement, Zenon
      <3>3. QED
        BY <3>1, <3>2, NAssumption
    <2>3. QED
      BY <1>0, <2>1, <2>2, Zenon
  <1>2. ASSUME NEW w \in Workers, Start(w) PROVE ReadersFit'
    BY <1>2, Zenon DEF Start, shared, ReadersFit
  <1>3. ASSUME NEW w \in Workers, Wake(w) PROVE ReadersFit'
    <2>1. CASE queue' = queue
      BY <2>1, Zenon DEF ReadersFit
    <2>2. CASE queue' = ngx_dyups_purge_msg(Head(status), pid[w])
      <3> SUFFICES ASSUME NEW m \in queue
                   PROVE  Cardinality(Swap(m.pids, Head(status), pid[w])) <= N
        BY <2>2, Zenon DEF ngx_dyups_purge_msg, ReadersFit, TypeOK, Swap
      <3> DEFINE T == Swap(m.pids, Head(status), pid[w])
      <3>1. Cardinality(T) <= Cardinality(m.pids) /\ Cardinality(T) \in Nat
        BY <1>0, Replaced, Zenon
      <3> HIDE DEF T
      <3>2. Cardinality(T) <= N
        BY <1>0, <3>1, NAssumption
      <3>3. QED
        BY <3>2, Zenon DEF T
    <2>3. QED
      BY <1>3, <2>1, <2>2, WakeOrder, Zenon
  <1>4. ASSUME NEW w \in Workers, Crash(w) PROVE ReadersFit'
    <2>1. PICK K : ReadBy(w, K)
      BY <1>4, ReadForm, Zenon
    <2>2. \A k \in queue' : k.id <= version
      <3>1. version' = version
        BY <1>4, Zenon DEF Crash
      <3>2. QED
        BY <3>1, Types, TypesAfter
    <2>3. QED
      BY <1>1, <2>1, <2>2, Zenon DEF ReadersFit
  <1>5. ASSUME NEW w \in Workers, NEW o \in Outcomes(w), Handles(w, o) PROVE ReadersFit'
    <2>1. ReadBy(w, IF o = NoPool THEN {} ELSE queue)
      BY <1>5, ReadForm, Zenon
    <2>2. \A k \in queue' :
            \/ k.id <= version
            \/ \E name \in Names, val \in Vals \cup {Absent} : k = NewMsg(w, name, val)
      BY <1>5, HandlesFrame, Zenon
    <2>3. \A name \in Names, val \in Vals \cup {Absent} :
            Cardinality(NewMsg(w, name, val).pids) <= N
      <3>1. Cardinality({pid[w]}) = 1
        BY FS_Singleton, Zenon
      <3>2. QED
        BY <3>1, NAssumption DEF NewMsg
    <2>4. QED
      BY <1>1, <2>1, <2>2, <2>3, Zenon DEF ReadersFit
  <1>6. ASSUME UNCHANGED vars PROVE ReadersFit'
    BY <1>6, Zenon DEF vars, shared, ReadersFit
  <1>7. QED
    BY <1>2, <1>3, <1>4, <1>5, <1>6, Steps, Zenon

\* Every worker gets a pid of its own.
LEMMA PidStep ==
    ASSUME TypeOK, PidInv, [Next]_vars
    PROVE  PidInv'
  <1>0. pid \in [Workers -> 0..lastPid] /\ lastPid \in Nat
        /\ phase \in [Workers -> {"down", "sleep", "up"}]
    BY Types, Zenon
  <1>1. ASSUME NEW w \in Workers, Start(w) PROVE PidInv'
    <2>1. /\ pid' = [pid EXCEPT ![w] = lastPid + 1]
          /\ \A v \in Workers \ {w} : phase'[v] = phase[v]
      BY <1>0, <1>1, Zenon DEF Start
    <2>2. pid'[w] = lastPid + 1 /\ \A v \in Workers \ {w} : pid'[v] = pid[v] /\ pid[v] # lastPid + 1
      BY <1>0, <2>1
    <2>3. \A v \in Up' \cup Sleeping' : v = w \/ v \in Up \cup Sleeping
      BY <2>1, Zenon DEF Up, Sleeping
    <2>4. \A v \in Up' \cup Sleeping' : pid'[v] # 0
      BY <1>0, <2>2, <2>3 DEF PidInv, Up, Sleeping
    <2>5. QED
      BY <1>0, <2>2, <2>4, Zenon DEF PidInv
  <1>2. ASSUME UNCHANGED pid, Up' \cup Sleeping' \subseteq Up \cup Sleeping PROVE PidInv'
    BY <1>2, Zenon DEF PidInv
  <1>3. ASSUME NEW w \in Workers, Wake(w) PROVE PidInv'
    BY <1>0, <1>2, <1>3, Zenon DEF Wake, Up, Sleeping
  <1>4. ASSUME NEW w \in Workers, Crash(w) PROVE PidInv'
    BY <1>0, <1>2, <1>4, Zenon DEF Crash, Up, Sleeping
  <1>5. ASSUME NEW w \in Workers, NEW o \in Outcomes(w), Handles(w, o) PROVE PidInv'
    <2>1. UNCHANGED <<pid, phase>>
      BY <1>5, HandlesFrame, Zenon
    <2>2. QED
      BY <1>2, <2>1, Zenon DEF Up, Sleeping
  <1>6. ASSUME UNCHANGED vars PROVE PidInv'
    BY <1>2, <1>6, Zenon DEF vars, local, Up, Sleeping
  <1>7. QED
    BY <1>1, <1>3, <1>4, <1>5, <1>6, Steps, Zenon

\* A message of the queue keeps its id, and no other gets it.
LEMMA QueueStep ==
    ASSUME TypeOK, TypeOK', PidInv, SleepInv, Distinct(status), QueueInv, [Next]_vars
    PROVE  QueueInv'
  <1>0. /\ version \in Nat /\ queue \subseteq Msgs(version, lastPid)
        /\ \A m, k \in queue : m.id = k.id => m = k
    BY Types, Zenon DEF QueueInv
  <1>1. ASSUME NEW w \in Workers, NEW K, ReadBy(w, K),
               NEW k \in queue', k.id <= version, NEW j \in queue', j.id <= version,
               k.id = j.id
        PROVE  k = j
    <2>1. PICK m \in queue :
            /\ Same(m, k)
            /\ \/ m \in K /\ ~Complete(m) /\ k.pids = m.pids \cup {pid[w]}
               \/ m \notin K /\ k = m
      BY <1>1, Zenon DEF ReadBy
    <2>2. PICK n \in queue :
            /\ Same(n, j)
            /\ \/ n \in K /\ ~Complete(n) /\ j.pids = n.pids \cup {pid[w]}
               \/ n \notin K /\ j = n
      BY <1>1, Zenon DEF ReadBy
    <2>3. m = n
      BY <1>0, <1>1, <2>1, <2>2, Zenon DEF Same
    <2>4. k.id = j.id /\ k.name = j.name /\ k.val = j.val /\ k.pids = j.pids
      BY <2>1, <2>2, <2>3, Zenon DEF Same
    <2>5. /\ k \in [id : 1..version', name : Names, val : Vals \cup {Absent},
                    pids : SUBSET (1..lastPid')]
          /\ j \in [id : 1..version', name : Names, val : Vals \cup {Absent},
                    pids : SUBSET (1..lastPid')]
      BY Zenon DEF TypeOK
    <2>6. QED
      BY <2>4, <2>5
  <1>2. ASSUME version = 0 PROVE queue = {} /\ truth = [n \in Names |-> Initial]
    BY <1>2, Zenon DEF QueueInv
  <1>3. ASSUME NEW w \in Workers, Start(w) PROVE QueueInv'
    BY <1>3, Zenon DEF Start, shared, QueueInv
  <1>4. ASSUME NEW w \in Workers, Wake(w) PROVE QueueInv'
    <2>1. version' = version /\ truth' = truth
      BY <1>4, Zenon DEF Wake, ghost
    <2>2. CASE queue' = queue
      BY <2>1, <2>2, Zenon DEF QueueInv
    <2>3. CASE queue' = ngx_dyups_purge_msg(Head(status), pid[w])
      <3>1. \A m \in queue :
              [m EXCEPT !.pids = {IF p = Head(status) THEN pid[w] ELSE p : p \in @}].id = m.id
        BY <1>0, Zenon DEF Msgs
      <3>2. \A m, k \in queue' : m.id = k.id => m = k
        <4> SUFFICES ASSUME NEW m \in queue', NEW k \in queue', m.id = k.id PROVE m = k
          BY Zenon
        <4> DEFINE to(i) ==
              [i EXCEPT !.pids = {IF p = Head(status) THEN pid[w] ELSE p : p \in @}]
        <4>1. PICK i \in queue : m = to(i)
          BY <2>3, Zenon DEF ngx_dyups_purge_msg
        <4>2. PICK j \in queue : k = to(j)
          BY <2>3, Zenon DEF ngx_dyups_purge_msg
        <4>3. i.id = j.id
          BY <3>1, <4>1, <4>2, Zenon
        <4>4. QED
          BY <1>0, <4>1, <4>2, <4>3, Zenon
      <3>3. queue = {} => queue' = {}
        BY <2>3, Zenon DEF ngx_dyups_purge_msg
      <3>4. QED
        BY <1>2, <2>1, <3>2, <3>3, Zenon DEF QueueInv
    <2>4. QED
      BY <1>4, <2>2, <2>3, WakeOrder, Zenon
  <1>5. ASSUME NEW w \in Workers, Crash(w) PROVE QueueInv'
    <2>1. PICK K : ReadBy(w, K)
      BY <1>5, ReadForm, Zenon
    <2>2. \A k \in queue' : k.id <= version
      <3>1. version' = version
        BY <1>5, Zenon DEF Crash
      <3>2. QED
        BY <3>1, Types, TypesAfter
    <2>3. version' = version /\ truth' = truth
      BY <1>5, Zenon DEF Crash
    <2>4. queue = {} => queue' = {}
      BY <2>1, <2>2, Zenon DEF ReadBy
    <2>5. \A m, k \in queue' : m.id = k.id => m = k
      BY <1>1, <2>1, <2>2, Zenon
    <2>6. QED
      BY <1>2, <2>3, <2>4, <2>5, Zenon DEF QueueInv
  <1>6. ASSUME NEW w \in Workers, NEW o \in Outcomes(w), Handles(w, o) PROVE QueueInv'
    <2>1. PICK K : ReadBy(w, K)
      BY <1>6, ReadForm, Zenon
    <2>2. CASE /\ UNCHANGED <<version, truth, known>>
               /\ \A k \in queue' : k.id <= version
      <3>1. queue = {} => queue' = {}
        BY <2>1, <2>2, Zenon DEF ReadBy
      <3>2. \A m, k \in queue' : m.id = k.id => m = k
        BY <1>1, <2>1, <2>2, Zenon
      <3>3. QED
        BY <1>2, <2>2, <3>1, <3>2, Zenon DEF QueueInv
    <2>3. ASSUME NEW name \in Names, NEW val \in Vals \cup {Absent}, version' = version + 1,
                 \A k \in queue' : k.id <= version \/ k = NewMsg(w, name, val)
          PROVE  QueueInv'
      <3>1. NewMsg(w, name, val).id = version + 1
        BY Zenon DEF NewMsg
      <3>2. \A m, k \in queue' : m.id = k.id => m = k
        <4> SUFFICES ASSUME NEW m \in queue', NEW k \in queue', m.id = k.id PROVE m = k
          BY Zenon
        <4>1. m.id <= version <=> k.id <= version
          BY Zenon
        <4>2. CASE m.id <= version
          BY <1>1, <2>1, <4>1, <4>2, Zenon
        <4>3. CASE ~(m.id <= version)
          BY <2>3, <4>1, <4>3, Zenon
        <4>4. QED
          BY <4>2, <4>3, Zenon
      <3>3. QED
        BY <1>0, <2>3, <3>2 DEF QueueInv
    <2>4. QED
      BY <1>6, <2>2, <2>3, HandlesFrame, Zenon
  <1>7. ASSUME UNCHANGED vars PROVE QueueInv'
    BY <1>7, Zenon DEF vars, shared, ghost, QueueInv
  <1>8. QED
    BY <1>3, <1>4, <1>5, <1>6, <1>7, Steps, Zenon

(* A pid that neither the slots nor the readers hold comes in only with    *)
(* the worker that has it.                                                 *)
LEMMA TraceStep ==
    ASSUME TypeOK, TypeOK', PidInv, SleepInv, Distinct(status),
           NEW w \in Workers,
           Wake(w) \/ Crash(w) \/ \E o \in Outcomes(w) : Handles(w, o),
           NEW p \in 1..lastPid, p # pid[w],
           p \notin Range(status), \A m \in queue : p \notin m.pids
    PROVE  p \notin Range(status') /\ \A m \in queue' : p \notin m.pids
  <1>1. ASSUME NEW K, ReadBy(w, K), NEW k \in queue', k.id <= version
        PROVE  p \notin k.pids
    <2>1. PICK m \in queue : \/ k = m
                             \/ ~Complete(m) /\ k.pids = m.pids \cup {pid[w]}
      BY <1>1, Zenon DEF ReadBy
    <2>2. QED
      BY <2>1, Zenon
  <1>2. CASE Wake(w)
    <2>1. Range(status') \subseteq Range(status) \cup {pid[w]}
      BY <1>2, WakeOrder, Zenon
    <2>2. CASE queue' = queue
      BY <2>1, <2>2, Zenon
    <2>3. CASE queue' = ngx_dyups_purge_msg(Head(status), pid[w])
      <3>1. ASSUME NEW k \in queue' PROVE p \notin k.pids
        <4>1. PICK m \in queue :
                k = [m EXCEPT !.pids = {IF x = Head(status) THEN pid[w] ELSE x : x \in @}]
          BY <2>3, Zenon DEF ngx_dyups_purge_msg
        <4>2. k.pids = {IF x = Head(status) THEN pid[w] ELSE x : x \in m.pids}
          BY <4>1, Types, Zenon DEF Msgs
        <4>3. QED
          BY <4>2, Zenon
      <3>2. QED
        BY <2>1, <3>1, Zenon
    <2>4. QED
      BY <1>2, <2>2, <2>3, WakeOrder, Zenon
  <1>3. CASE Crash(w)
    <2>1. PICK K : ReadBy(w, K)
      BY <1>3, ReadForm, Zenon
    <2>2. status' = status /\ \A k \in queue' : k.id <= version
      <3>1. version' = version /\ status' = status
        BY <1>3, Zenon DEF Crash
      <3>2. QED
        BY <3>1, Types, TypesAfter
    <2>3. QED
      BY <1>1, <2>1, <2>2, Zenon
  <1>4. ASSUME NEW o \in Outcomes(w), Handles(w, o)
        PROVE  p \notin Range(status') /\ \A m \in queue' : p \notin m.pids
    <2>1. PICK K : ReadBy(w, K)
      BY <1>4, ReadForm, Zenon
    <2>2. /\ pid[w] \in 1..lastPid /\ status' = Stamp(pid[w])
          /\ \A k \in queue' :
               \/ k.id <= version
               \/ \E name \in Names, val \in Vals \cup {Absent} : k = NewMsg(w, name, val)
      BY <1>4, HandlesFrame, Zenon
    <2>3. \A k \in queue' : p \notin k.pids
      BY <1>1, <2>1, <2>2 DEF NewMsg
    <2>4. Range(status') \subseteq Range(status) \cup {pid[w]}
      BY <2>2, StampOrder, Zenon
    <2>5. QED
      BY <2>3, <2>4, Zenon
  <1>5. QED
    BY <1>2, <1>3, <1>4, Zenon

\* A new worker leaves no trace before it wakes up.
LEMMA SleepStep ==
    ASSUME TypeOK, TypeOK', PidInv, SleepInv, Distinct(status), [Next]_vars
    PROVE  SleepInv'
  <1>0. /\ pid \in [Workers -> 0..lastPid] /\ version \in Nat /\ lastPid \in Nat
        /\ phase \in [Workers -> {"down", "sleep", "up"}]
        /\ waiting \in [Workers -> SUBSET Workers]
        /\ known \in [Workers -> SUBSET Names]
        /\ Range(status) \subseteq 1..lastPid
        /\ \A m \in queue : m.pids \subseteq 1..lastPid
    BY Types, Zenon
  <1>1. ASSUME NEW w \in Workers, Start(w) PROVE SleepInv'
    <2>1. /\ pid' = [pid EXCEPT ![w] = lastPid + 1]
          /\ UNCHANGED <<queue, version, status>>
          /\ w \notin Up /\ w \notin Sleeping
      BY <1>1, Zenon DEF Start, shared, Up, Sleeping
    <2>2. CASE version = 0
      <3>1. Up' = Up \cup {w} /\ Sleeping' = Sleeping /\ waiting' = waiting
            /\ known' = [known EXCEPT ![w] = Names]
        BY <1>0, <1>1, <2>2, Zenon DEF Start, Up, Sleeping
      <3>2. Sleeping = {}
        BY <2>2, Zenon DEF SleepInv
      <3>3. QED
        BY <1>0, <3>1, <3>2, Zenon DEF SleepInv
    <2>3. CASE version # 0
      <3>1. Up' = Up /\ Sleeping' = Sleeping \cup {w} /\ known' = known
            /\ waiting' = [waiting EXCEPT ![w] = Up]
        BY <1>0, <1>1, <2>3, Zenon DEF Start, Up, Sleeping
      <3>2. \A v \in Workers : waiting'[v] \subseteq Up'
        BY <1>0, <3>1, Zenon DEF SleepInv
      <3>3. \A v \in Workers \ Sleeping' : waiting'[v] = {}
        BY <1>0, <3>1, Zenon DEF SleepInv
      <3>4. \A v \in Workers \ Up' : known'[v] = {}
        BY <3>1, Zenon DEF SleepInv
      <3>5. \A v \in Sleeping' : /\ version' # 0
                                 /\ pid'[v] \notin Range(status')
                                 /\ \A m \in queue' : pid'[v] \notin m.pids
        <4>1. ASSUME NEW v \in Sleeping, v # w
              PROVE  /\ pid'[v] \notin Range(status')
                     /\ \A m \in queue' : pid'[v] \notin m.pids
          BY <1>0, <2>1, <4>1, Zenon DEF SleepInv, Sleeping
        <4>2. pid'[w] = lastPid + 1 /\ lastPid + 1 \notin 1..lastPid
          BY <1>0, <2>1
        <4>3. QED
          BY <1>0, <2>1, <2>3, <3>1, <4>1, <4>2, ZenonT(30)
      <3>6. QED
        BY <3>2, <3>3, <3>4, <3>5, Zenon DEF SleepInv
    <2>4. QED
      BY <2>2, <2>3, Zenon
  <1>2. ASSUME NEW w \in Workers, NEW v \in Sleeping, v # w,
               Wake(w) \/ Crash(w) \/ \E o \in Outcomes(w) : Handles(w, o)
        PROVE  pid[v] \notin Range(status') /\ \A m \in queue' : pid[v] \notin m.pids
    <2>1. pid[v] # 0 /\ v \in Workers /\ pid[v] \in 1..lastPid
      BY <1>0 DEF PidInv, Sleeping
    <2>2. pid[v] # pid[w]
      BY <1>2, <2>1, Zenon DEF PidInv
    <2>3. pid[v] \notin Range(status) /\ \A m \in queue : pid[v] \notin m.pids
      BY Zenon DEF SleepInv
    <2>4. QED
      BY <1>2, <2>1, <2>2, <2>3, TraceStep, Zenon
  <1>3. ASSUME NEW w \in Workers, Wake(w) PROVE SleepInv'
    <2>1. /\ UNCHANGED <<pid, version, known>>
          /\ Up' = Up \cup {w} /\ Sleeping' = Sleeping \ {w}
          /\ waiting' = [waiting EXCEPT ![w] = {}]
      BY <1>0, <1>3, Zenon DEF Wake, Up, Sleeping, ghost
    <2>2. \A v \in Sleeping' : /\ pid'[v] \notin Range(status')
                               /\ \A m \in queue' : pid'[v] \notin m.pids
      BY <1>2, <1>3, <2>1, Zenon
    <2>3. QED
      BY <1>0, <2>1, <2>2, Zenon DEF SleepInv
  <1>4. ASSUME NEW w \in Workers, Crash(w) PROVE SleepInv'
    <2>1. /\ UNCHANGED <<pid, version>>
          /\ Up' = Up \ {w} /\ Sleeping' = Sleeping \ {w}
          /\ waiting' = [v \in Workers |-> IF v = w THEN {} ELSE waiting[v] \ {w}]
          /\ known' = [known EXCEPT ![w] = {}]
      BY <1>0, <1>4, Zenon DEF Crash, Up, Sleeping
    <2>2. \A v \in Sleeping' : /\ pid'[v] \notin Range(status')
                               /\ \A m \in queue' : pid'[v] \notin m.pids
      BY <1>2, <1>4, <2>1, Zenon
    <2>3. QED
      BY <1>0, <2>1, <2>2, Zenon DEF SleepInv
  <1>5. ASSUME NEW w \in Workers, NEW o \in Outcomes(w), Handles(w, o) PROVE SleepInv'
    <2>1. /\ UNCHANGED <<pid, phase>> /\ w \in Up
          /\ waiting' = IF o = NoPool THEN waiting
                        ELSE [v \in Workers |-> waiting[v] \ {w}]
      BY <1>5, HandlesFrame, Zenon
    <2>2. Up' = Up /\ Sleeping' = Sleeping /\ w \notin Sleeping
      BY <2>1, Zenon DEF Up, Sleeping
    <2>3. \A v \in Workers : waiting'[v] \subseteq waiting[v]
      BY <1>0, <2>1, Zenon
    <2>4. \A v \in Sleeping' : /\ pid'[v] \notin Range(status')
                               /\ \A m \in queue' : pid'[v] \notin m.pids
      BY <1>2, <1>5, <2>1, <2>2, Zenon
    <2>5. \A v \in Workers \ Up : known'[v] = {}
      <3>1. \/ known' = known
            \/ \E name \in Names : known' = [v \in Workers |->
                 IF phase[v] = "up" THEN known[v] \cup {name} ELSE known[v]]
        BY <1>5, Zenon DEF Handles, ReadOnly, Sends, SendFails
      <3>2. QED
        BY <3>1, Zenon DEF SleepInv, Up
    <2>6. version' = version \/ version' = version + 1
      BY <1>5, Zenon DEF Handles, ReadOnly, Sends, SendFails
    <2>7. QED
      BY <1>0, <2>2, <2>3, <2>4, <2>5, <2>6 DEF SleepInv
  <1>6. ASSUME UNCHANGED vars PROVE SleepInv'
    BY <1>6, Zenon DEF vars, shared, local, ghost, SleepInv, Up, Sleeping
  <1>7. QED
    BY <1>1, <1>3, <1>4, <1>5, <1>6, Steps, Zenon

----------------------------------------------------------------------------
(* The slots *)

\* A set of pids can be counted.
LEMMA PidsFinite ==
    ASSUME NEW n \in Nat, NEW W \in SUBSET (1..n)
    PROVE  IsFiniteSet(W) /\ Cardinality(W) \in Nat
  <1>1. IsFiniteSet(1..n)
    BY FS_Interval
  <1>2. IsFiniteSet(W)
    BY <1>1, FS_Subset, Zenon
  <1>3. QED
    BY <1>2, FS_CardinalityType, Zenon

\* Two sets that correspond have as many elements.
LEMMA OneToOne ==
    ASSUME NEW S, IsFiniteSet(S), NEW T, NEW f \in [S -> T],
           \A i, j \in S : f[i] = f[j] => i = j,
           \A t \in T : \E i \in S : f[i] = t
    PROVE  IsFiniteSet(T) /\ Cardinality(T) = Cardinality(S)
  <1>1. f \in Bijection(S, T)
    BY Zenon DEF Bijection, Injection, Surjection, IsInjective
  <1>2. ExistsBijection(S, T)
    BY <1>1, Zenon DEF ExistsBijection
  <1>3. QED
    BY <1>2, FS_Bijection, Zenon

(* The slots of dead workers are as many as the slots, less those of       *)
(* the running workers that have one.                                      *)
LEMMA SlotCount ==
    ASSUME TypeOK, PidInv, Distinct(status)
    PROVE  Cardinality(Range(status) \ Pids(Up)) + Cardinality(Up)
             = Len(status) + Cardinality(Slotless)
  <1> DEFINE R == Range(status)
             A == Up \ Slotless
             B == R \cap Pids(Up)
  <1>0. /\ Up \in SUBSET Workers /\ Slotless \in SUBSET Up /\ A \in SUBSET Workers
        /\ Len(status) \in Nat /\ DOMAIN status = 1..Len(status)
        /\ lastPid \in Nat /\ R \in SUBSET (1..lastPid)
    BY Types DEF Up, Slotless
  <1>1. Cardinality(R) = Len(status)
    <2>1. PICK n \in Nat : n = Len(status)
      BY <1>0, Zenon
    <2>2. IsFiniteSet(1..n) /\ Cardinality(1..n) = n
      BY FS_Interval
    <2>3. /\ status \in [1..n -> R]
          /\ \A i, j \in 1..n : status[i] = status[j] => i = j
          /\ \A t \in R : \E i \in 1..n : status[i] = t
      BY <1>0, <2>1, Types DEF Range, Distinct
    <2> HIDE DEF R
    <2>4. Cardinality(R) = Cardinality(1..n)
      BY <2>2, <2>3, OneToOne, Zenon
    <2>5. QED
      BY <2>1, <2>2, <2>4, Zenon
  <1>2. Cardinality(B) = Cardinality(A)
    <2> DEFINE f == [u \in A |-> pid[u]]
    <2>1. IsFiniteSet(A)
      BY <1>0, WorkersFinite, Zenon
    <2>2. f \in [A -> B]
      BY Zenon DEF Slotless, Pids
    <2>3. \A i, j \in A : f[i] = f[j] => i = j
      BY Zenon DEF PidInv, Up
    <2>4. \A t \in B : \E i \in A : f[i] = t
      BY Zenon DEF Slotless, Pids
    <2> HIDE DEF A, B, f
    <2>5. QED
      BY <2>1, <2>2, <2>3, <2>4, OneToOne, Zenon
  <1>3. Cardinality(R \ Pids(Up)) = Cardinality(R) - Cardinality(B)
    <2>1. IsFiniteSet(R)
      BY <1>0, PidsFinite, Zenon
    <2>2. QED
      BY <2>1, FS_Difference, Zenon
  <1>4. Cardinality(A) = Cardinality(Up) - Cardinality(Slotless)
    <2>1. IsFiniteSet(Up) /\ Up \cap Slotless = Slotless
      BY <1>0, WorkersFinite, Zenon
    <2>2. Cardinality(Up \ Slotless) = Cardinality(Up) - Cardinality(Up \cap Slotless)
      BY <2>1, FS_Difference, Zenon
    <2>3. QED
      BY <2>1, <2>2, Zenon
  <1>5. /\ Cardinality(A) \in Nat /\ Cardinality(Up) \in Nat
        /\ Cardinality(Slotless) \in Nat
    BY <1>0, WorkersFinite
  <1> HIDE DEF A, B
  <1>6. QED
    BY <1>0, <1>1, <1>2, <1>3, <1>4, <1>5

\* Whatever is counted here is finite, before a step and after it.
LEMMA Counts ==
    ASSUME TypeOK, TypeOK', NEW w
    PROVE  /\ Cardinality(Sleepers(w)) \in Nat /\ Cardinality(Sleepers(w)') \in Nat
           /\ Cardinality(Slotless) \in Nat /\ Cardinality(Slotless') \in Nat
           /\ Cardinality(Stale(w)) \in Nat /\ Cardinality(Stale(w)') \in Nat
           /\ IsFiniteSet(Sleepers(w)) /\ IsFiniteSet(Slotless)
           /\ IsFiniteSet(Stale(w)) /\ IsFiniteSet(Stale(w)')
           /\ Len(status) \in Nat /\ Len(status') \in Nat
           /\ Len(status) <= N /\ Len(status') <= N
  <1>1. /\ Sleepers(w) \in SUBSET Workers /\ Sleepers(w)' \in SUBSET Workers
        /\ Slotless \in SUBSET Workers /\ Slotless' \in SUBSET Workers
    BY Zenon DEF Sleepers, Sleeping, Slotless, Up
  <1>2. /\ Stale(w) \in SUBSET (1..lastPid) /\ Stale(w)' \in SUBSET (1..lastPid')
        /\ lastPid \in Nat /\ lastPid' \in Nat
    <2>1. /\ Range(status) \subseteq 1..lastPid /\ Range(status') \subseteq 1..lastPid'
          /\ lastPid \in Nat /\ lastPid' \in Nat
      <3>1. /\ status \in Seq(1..lastPid) /\ status' \in Seq(1..lastPid')
            /\ lastPid \in Nat /\ lastPid' \in Nat
        BY Zenon DEF TypeOK
      <3>2. \A S : \A s \in Seq(S) : Range(s) \subseteq S
        BY DEF Range
      <3>3. QED
        BY <3>1, <3>2, Zenon
    <2>2. Stale(w) \subseteq Range(status) /\ Stale(w)' \subseteq Range(status')
      BY Zenon DEF Stale
    <2>3. QED
      BY <2>1, <2>2, Zenon
  <1>3. /\ Len(status) \in Nat /\ Len(status') \in Nat
        /\ Len(status) <= N /\ Len(status') <= N
    BY DEF TypeOK
  <1>4. /\ Cardinality(Sleepers(w)) \in Nat /\ Cardinality(Sleepers(w)') \in Nat
        /\ Cardinality(Slotless) \in Nat /\ Cardinality(Slotless') \in Nat
        /\ IsFiniteSet(Sleepers(w)) /\ IsFiniteSet(Slotless)
    BY <1>1, WorkersFinite
  <1>5. /\ Cardinality(Stale(w)) \in Nat /\ Cardinality(Stale(w)') \in Nat
        /\ IsFiniteSet(Stale(w)) /\ IsFiniteSet(Stale(w)')
    BY <1>2, PidsFinite, Zenon
  <1>6. QED
    BY <1>3, <1>4, <1>5, Zenon

(* Room is kept when no more workers need a slot and no fewer are stale,   *)
(* and when a worker without a slot takes an unused one.                   *)
LEMMA RoomKept ==
    ASSUME TypeOK, TypeOK', NEW w, Room(w),
           Sleepers(w)' \subseteq Sleepers(w), Stale(w) \subseteq Stale(w)',
           \/ Slotless' \subseteq Slotless /\ Len(status') = Len(status)
           \/ /\ \E x \in Slotless : Slotless' = Slotless \ {x}
              /\ Len(status') = Len(status) + 1
    PROVE  Room(w)'
  <1> DEFINE a == Cardinality(Sleepers(w))
             b == Cardinality(Sleepers(w)')
             c == Cardinality(Slotless)
             d == Cardinality(Slotless')
             e == Cardinality(Stale(w))
             f == Cardinality(Stale(w)')
             g == Len(status)
             h == Len(status')
  <1>1. /\ a \in Nat /\ b \in Nat /\ c \in Nat /\ d \in Nat
        /\ e \in Nat /\ f \in Nat /\ g \in Nat /\ h \in Nat
    BY Counts, Zenon
  <1>2. b <= a /\ e <= f
    BY Counts, FS_Subset, Zenon
  <1>3. a + c <= e + (N - g)
    BY Zenon DEF Room
  <1>4. \/ d <= c /\ h = g
        \/ d = c - 1 /\ h = g + 1
    <2>1. CASE Slotless' \subseteq Slotless /\ Len(status') = Len(status)
      BY <2>1, Counts, FS_Subset, Zenon
    <2>2. ASSUME NEW x \in Slotless, Slotless' = Slotless \ {x} PROVE d = c - 1
      BY <2>2, Counts, FS_RemoveElement, Zenon
    <2>3. QED
      BY <2>1, <2>2, Zenon
  <1> HIDE DEF a, b, c, d, e, f, g, h
  <1>5. b + d <= f + (N - h)
    BY <1>1, <1>2, <1>3, <1>4, NAssumption
  <1>6. QED
    BY <1>5, Zenon DEF Room, b, d, f, h

(* A new worker that was started later than all others that sleep finds    *)
(* room: N workers run or sleep at most.                                   *)
LEMMA StartRoom ==
    ASSUME TypeOK, TypeOK', PidInv, SleepInv, SlotInv, NEW x \in Workers, Start(x)
    PROVE  SlotInv'
  <1>0. /\ pid \in [Workers -> 0..lastPid] /\ version \in Nat /\ lastPid \in Nat
        /\ phase \in [Workers -> {"down", "sleep", "up"}]
        /\ waiting \in [Workers -> SUBSET Workers]
    BY Types, Zenon
  <1>1. /\ pid' = [pid EXCEPT ![x] = lastPid + 1]
        /\ UNCHANGED <<version, status, lates>>
        /\ x \notin Up /\ x \notin Sleeping
    BY Zenon DEF Start, shared, Up, Sleeping
  <1>2. CASE version = 0
    <2>1. Sleeping' = {}
      <3>1. Sleeping' = Sleeping
        BY <1>0, <1>2, Zenon DEF Start, Sleeping
      <3>2. Sleeping = {}
        BY <1>2, Zenon DEF SleepInv
      <3>3. QED
        BY <3>1, <3>2, Zenon
    <2>2. QED
      BY <1>1, <2>1, Zenon DEF SlotInv
  <1>3. CASE version # 0
    <2>1. /\ Up' = Up /\ Sleeping' = Sleeping \cup {x}
          /\ waiting' = [waiting EXCEPT ![x] = Up]
      BY <1>0, <1>3, Zenon DEF Start, Up, Sleeping
    <2>2. /\ pid'[x] = lastPid + 1
          /\ \A v \in Workers \ {x} : pid'[v] = pid[v] /\ waiting'[v] = waiting[v]
          /\ \A v \in Workers : pid[v] \in 0..lastPid
      BY <1>0, <1>1, <2>1, Zenon
    <2>3. /\ \A W \in SUBSET Up : Pids(W)' = Pids(W)
          /\ Slotless' = Slotless
      BY <1>1, <2>1, <2>2 DEF Pids, Slotless, Up
    <2>4. ASSUME lates = 0, NEW w \in Sleeping PROVE Room(w)'
      <3>1. w \in Workers \ {x} /\ Room(w)
        BY <1>1, <2>4, Zenon DEF Sleeping, SlotInv
      <3>2. Sleepers(w)' = Sleepers(w)
        <4>1. ~(pid'[x] <= pid'[w])
          BY <1>0, <2>2, <3>1
        <4>2. QED
          BY <1>1, <2>1, <2>2, <3>1, <4>1, Zenon DEF Sleepers, Sleeping
      <3>3. Fresh(w)' = Fresh(w)
        BY <2>1, <2>2, <2>3, <3>1, Zenon DEF Fresh
      <3>4. Stale(w)' = Stale(w)
        BY <1>1, <2>1, <2>3, <3>3 DEF Stale
      <3>5. QED
        BY <1>1, <2>3, <3>1, <3>2, <3>4, Zenon DEF Room
    <2>5. Room(x)'
      <3>1. Sleepers(x)' = Sleeping \cup {x}
        BY <1>0, <2>1, <2>2 DEF Sleepers, Sleeping
      <3>2. Fresh(x)' = {}
        <4>1. waiting'[x] = Up
          BY <1>0, <2>1, Zenon
        <4>2. QED
          BY <2>1, <4>1, Zenon DEF Fresh, Pids
      <3>3. Stale(x)' = Range(status) \ Pids(Up)
        BY <1>1, <2>1, <2>3, <3>2 DEF Stale
      <3>4. Cardinality(Sleeping \cup {x}) + Cardinality(Up) <= N
        <4>1. /\ (Sleeping \cup {x}) \cap Up = {}
              /\ Sleeping \cup {x} \in SUBSET Workers /\ Up \in SUBSET Workers
              /\ (Sleeping \cup {x}) \cup Up \in SUBSET Workers
          BY <1>1, Zenon DEF Sleeping, Up
        <4>2. Cardinality((Sleeping \cup {x}) \cup Up)
                = Cardinality(Sleeping \cup {x}) + Cardinality(Up) - Cardinality({})
          BY <4>1, WorkersFinite, FS_Union, Zenon
        <4>3. Cardinality({}) = 0
          BY FS_EmptySet, Zenon
        <4>4. Cardinality((Sleeping \cup {x}) \cup Up) \in 0..N
          BY <4>1, WorkersFinite, Zenon
        <4>5. Cardinality(Sleeping \cup {x}) \in Nat /\ Cardinality(Up) \in Nat
          BY <4>1, WorkersFinite
        <4>6. QED
          BY <4>2, <4>3, <4>4, <4>5, NAssumption
      <3>5. Cardinality(Range(status) \ Pids(Up)) + Cardinality(Up)
              = Len(status) + Cardinality(Slotless)
        BY SlotCount, Zenon DEF SlotInv
      <3>6. /\ Cardinality(Sleeping \cup {x}) \in Nat /\ Cardinality(Slotless) \in Nat
            /\ Cardinality(Range(status) \ Pids(Up)) \in Nat /\ Len(status) \in Nat
        BY <3>1, <3>3, Counts, Zenon
      <3>7. Cardinality(Up) \in Nat
        BY WorkersFinite DEF Up
      <3>8. Cardinality(Sleeping \cup {x}) + Cardinality(Slotless)
              <= Cardinality(Range(status) \ Pids(Up)) + (N - Len(status))
        BY <3>4, <3>5, <3>6, <3>7, NAssumption
      <3>9. QED
        BY <1>1, <2>3, <3>1, <3>3, <3>8, Zenon DEF Room
    <2>6. QED
      BY <1>1, <2>1, <2>4, <2>5, Zenon DEF SlotInv
  <1>4. QED
    BY <1>2, <1>3, Zenon

\* A worker that stamps its slot moves behind the dead ones.
LEMMA StampRoom ==
    ASSUME TypeOK, TypeOK', PidInv, SleepInv, SlotInv,
           NEW x \in Workers, NEW o \in Outcomes(x), Handles(x, o)
    PROVE  SlotInv'
  <1>0. waiting \in [Workers -> SUBSET Workers]
    BY Types, Zenon
  <1>1. /\ x \in Up /\ pid[x] \in 1..lastPid /\ status' = Stamp(pid[x])
        /\ UNCHANGED <<phase, pid, lastPid, lates>>
        /\ waiting' = IF o = NoPool THEN waiting
                      ELSE [v \in Workers |-> waiting[v] \ {x}]
    BY HandlesFrame, Zenon
  <1>2. /\ Up' = Up /\ Sleeping' = Sleeping
        /\ Pids(Up)' = Pids(Up) /\ pid[x] \in Pids(Up)
        /\ \A w : Sleepers(w)' = Sleepers(w)
    BY <1>1, Zenon DEF Up, Sleeping, Pids, Sleepers
  <1>3. Distinct(status)
    BY Zenon DEF SlotInv
  <1>4. /\ Later(status, status', pid[x])
        /\ \/ /\ pid[x] \in Range(status) /\ Range(status') = Range(status)
              /\ Len(status') = Len(status)
           \/ /\ pid[x] \notin Range(status)
              /\ Range(status') = Range(status) \cup {pid[x]}
              /\ Len(status') = Len(status) + 1
           \/ /\ pid[x] \notin Range(status) /\ status' = status
    BY <1>1, <1>3, StampOrder, Zenon
  <1>5. ASSUME NEW w \in Workers PROVE Fresh(w)' \subseteq Fresh(w) \cup {pid[x]}
    BY <1>0, <1>1, <1>2, Zenon DEF Fresh, Pids
  <1>6. ASSUME NEW w \in Workers PROVE Stale(w) \subseteq Stale(w)'
    <2> SUFFICES ASSUME NEW a \in Stale(w)
                 PROVE  /\ a \in Range(status') \ Pids(Up)'
                        /\ \A b \in Fresh(w)' \cap Range(status') : Before(status', a, b)
      BY Zenon DEF Stale
    <2>1. /\ a \in Range(status) \ Pids(Up) /\ a # pid[x]
          /\ \A b \in Fresh(w) \cap Range(status) : Before(status, a, b)
      BY <1>2, Zenon DEF Stale
    <2>2. a \in Range(status') \ Pids(Up)'
      BY <1>2, <1>4, <2>1, Zenon
    <2>3. ASSUME NEW b \in Fresh(w)' \cap Range(status') PROVE Before(status', a, b)
      <3>1. CASE b = pid[x]
        BY <1>4, <2>1, <2>2, <3>1, Zenon DEF Later
      <3>2. CASE b # pid[x]
        <4>1. b \in Fresh(w) /\ b \in Range(status)
          BY <1>4, <1>5, <2>3, <3>2
        <4>2. Before(status, a, b)
          BY <2>1, <4>1, Zenon
        <4>3. QED
          BY <1>4, <2>1, <2>2, <2>3, <3>2, <4>1, <4>2, Zenon DEF Later
      <3>3. QED
        BY <3>1, <3>2, Zenon
    <2>4. QED
      BY <2>2, <2>3, Zenon
  <1>7. \/ Slotless' \subseteq Slotless /\ Len(status') = Len(status)
        \/ /\ \E y \in Slotless : Slotless' = Slotless \ {y}
           /\ Len(status') = Len(status) + 1
    <2>1. CASE Range(status') = Range(status) /\ Len(status') = Len(status)
      BY <1>1, <1>2, <2>1, Zenon DEF Slotless
    <2>2. CASE /\ pid[x] \notin Range(status)
               /\ Range(status') = Range(status) \cup {pid[x]}
               /\ Len(status') = Len(status) + 1
      <3>1. x \in Slotless
        BY <1>1, <2>2, Zenon DEF Slotless
      <3>2. \A u \in Up : pid[u] = pid[x] <=> u = x
        BY <1>1, Zenon DEF PidInv, Up
      <3>3. Slotless' = Slotless \ {x}
        BY <1>1, <1>2, <2>2, <3>2, Zenon DEF Slotless
      <3>4. QED
        BY <2>2, <3>1, <3>3, Zenon
    <2>3. QED
      BY <1>4, <2>1, <2>2, Zenon
  <1>8. ASSUME lates = 0, NEW w \in Sleeping PROVE Room(w)'
    <2>1. Room(w) /\ w \in Workers
      BY <1>8, Zenon DEF SlotInv, Sleeping
    <2>2. QED
      BY <1>2, <1>6, <1>7, <2>1, RoomKept, Zenon
  <1>9. QED
    BY <1>1, <1>2, <1>4, <1>8, Zenon DEF SlotInv, Later

\* A death leaves more stale slots.
LEMMA CrashRoom ==
    ASSUME TypeOK, TypeOK', PidInv, SleepInv, SlotInv, NEW x \in Workers, Crash(x)
    PROVE  SlotInv'
  <1>0. /\ waiting \in [Workers -> SUBSET Workers]
        /\ phase \in [Workers -> {"down", "sleep", "up"}]
    BY Types, Zenon
  <1>1. /\ UNCHANGED <<status, pid, lates>>
        /\ Up' = Up \ {x} /\ Sleeping' = Sleeping \ {x}
        /\ waiting' = [v \in Workers |-> IF v = x THEN {} ELSE waiting[v] \ {x}]
    BY <1>0, Zenon DEF Crash, Up, Sleeping
  <1>2. ASSUME lates = 0, NEW w \in Sleeping' PROVE Room(w)'
    <2>1. Room(w) /\ w \in Workers \ {x}
      BY <1>1, <1>2, Zenon DEF SlotInv, Sleeping
    <2>2. Sleepers(w)' \subseteq Sleepers(w) /\ Slotless' \subseteq Slotless
          /\ Pids(Up)' \subseteq Pids(Up)
      BY <1>1, Zenon DEF Sleepers, Slotless, Pids
    <2>3. Fresh(w)' \subseteq Fresh(w)
      BY <1>0, <1>1, <2>1, Zenon DEF Fresh, Pids
    <2>4. Stale(w) \subseteq Stale(w)'
      BY <1>1, <2>2, <2>3, Zenon DEF Stale
    <2>5. QED
      BY <1>1, <2>1, <2>2, <2>4, RoomKept, Zenon
  <1>3. QED
    BY <1>1, <1>2, Zenon DEF SlotInv

(* A new worker that woke up in time takes an unused slot or that of a     *)
(* dead worker.                                                            *)
LEMMA WakeTakesStale ==
    ASSUME TypeOK, TypeOK', PidInv, SleepInv, SlotInv, lates = 0,
           NEW x \in Workers, Wake(x), waiting[x] = {}, Len(status) = N
    PROVE  Head(status) \notin Pids(Up)
  <1>1. x \in Sleeping /\ x \in Sleepers(x)
    BY Types DEF Wake, Sleeping, Sleepers
  <1>2. Cardinality(Sleepers(x)) # 0
    BY <1>1, Counts, FS_EmptySet, Zenon
  <1>3. Cardinality(Sleepers(x)) + Cardinality(Slotless)
          <= Cardinality(Stale(x)) + (N - N)
    BY <1>1, Zenon DEF SlotInv, Room
  <1>4. Cardinality(Stale(x)) # 0
    BY <1>2, <1>3, Counts, NAssumption
  <1>5. PICK a : a \in Stale(x)
    BY <1>4, FS_EmptySet, Zenon
  <1>6. Fresh(x) = Pids(Up)
    BY Zenon DEF Fresh
  <1>7. Head(status) = status[1] /\ Head(status) \in Range(status) /\ Distinct(status)
    BY WakeOrder, NAssumption DEF SlotInv
  <1>8. SUFFICES ASSUME Head(status) \in Pids(Up) PROVE FALSE
    BY Zenon
  <1>9. Before(status, a, status[1])
    BY <1>5, <1>6, <1>7, <1>8, Zenon DEF Stale
  <1>10. PICK i, j \in DOMAIN status : i < j /\ status[j] = status[1]
    BY <1>9, Zenon DEF Before
  <1>11. DOMAIN status = 1..N /\ 1 \in 1..N
    BY Types, NAssumption
  <1>12. j = 1
    BY <1>7, <1>10, <1>11, Zenon DEF Distinct
  <1>13. QED
    BY <1>10, <1>11, <1>12, NAssumption

\* The others that sleep find room after it.
LEMMA WakeRoom ==
    ASSUME TypeOK, TypeOK', PidInv, SleepInv, SlotInv, NEW x \in Workers, Wake(x)
    PROVE  SlotInv'
  <1>0. /\ waiting \in [Workers -> SUBSET Workers] /\ lates \in Nat
        /\ phase \in [Workers -> {"down", "sleep", "up"}]
        /\ pid \in [Workers -> 0..lastPid] /\ lastPid \in Nat
    BY Types, Zenon
  <1>1. /\ UNCHANGED pid /\ x \in Sleeping /\ x \notin Up
        /\ Up' = Up \cup {x} /\ Sleeping' = Sleeping \ {x}
        /\ waiting' = [waiting EXCEPT ![x] = {}]
    BY <1>0, Zenon DEF Wake, Up, Sleeping
  <1> DEFINE p == pid[x]
             D == IF Len(status) < N THEN {} ELSE {Head(status)}
  <1>2. Distinct(status)
    BY Zenon DEF SlotInv
  <1>3. /\ p \in 1..lastPid /\ p \notin Range(status) /\ Later(status, status', p)
        /\ Range(status') = (Range(status) \ D) \cup {p}
        /\ \/ Len(status) < N /\ Len(status') = Len(status) + 1
           \/ Len(status) = N /\ Len(status') = N
    BY <1>2, WakeOrder
  <1>4. SUFFICES ASSUME lates' = 0, NEW w \in Sleeping \ {x} PROVE Room(w)'
    BY <1>1, <1>3, Zenon DEF SlotInv, Later
  <1>5. lates = 0 /\ waiting[x] = {}
    BY <1>0, <1>4 DEF Wake
  <1>6. w \in Workers /\ Room(w) /\ Room(x) /\ waiting'[w] = waiting[w]
    BY <1>0, <1>1, <1>4, <1>5, Zenon DEF SlotInv, Sleeping
  <1>7. D \cap Pids(Up) = {}
    BY <1>3, <1>5, WakeTakesStale, Zenon
  <1>8. Pids(Up)' = Pids(Up) \cup {p}
    BY <1>1, Zenon DEF Pids
  <1>9. Fresh(w)' \subseteq Fresh(w) \cup {p} /\ Fresh(w) \subseteq Pids(Up)
    BY <1>1, <1>6, Zenon DEF Fresh, Pids
  <1>10. Stale(w) \ D \subseteq Stale(w)'
    <2> SUFFICES ASSUME NEW a \in Stale(w) \ D
                 PROVE  /\ a \in Range(status') \ Pids(Up)'
                        /\ \A b \in Fresh(w)' \cap Range(status') : Before(status', a, b)
      BY Zenon DEF Stale
    <2>1. /\ a \in Range(status) \ Pids(Up) /\ a # p /\ a \notin D
          /\ \A b \in Fresh(w) \cap Range(status) : Before(status, a, b)
      BY <1>3, Zenon DEF Stale
    <2>2. a \in Range(status') \ Pids(Up)'
      BY <1>3, <1>8, <2>1, Zenon
    <2>3. ASSUME NEW b \in Fresh(w)' \cap Range(status') PROVE Before(status', a, b)
      <3>1. CASE b = p
        BY <1>3, <2>1, <2>2, <3>1, Zenon DEF Later
      <3>2. CASE b # p
        <4>1. b \in Fresh(w) /\ b \in Range(status)
          BY <1>3, <1>9, <2>3, <3>2, Zenon
        <4>2. Before(status, a, b)
          BY <2>1, <4>1, Zenon
        <4>3. QED
          BY <1>3, <2>1, <2>2, <2>3, <3>2, <4>1, <4>2, Zenon DEF Later
      <3>3. QED
        BY <3>1, <3>2, Zenon
    <2>4. QED
      BY <2>2, <2>3, Zenon
  <1>11. Slotless' = Slotless
    <2>1. \A u \in Up : pid[u] \in Range(status') <=> pid[u] \in Range(status)
      <3>1. \A u \in Up : pid[u] # p /\ pid[u] \notin D
        BY <1>1, <1>3, <1>7 DEF PidInv, Up, Pids
      <3>2. QED
        BY <1>3, <3>1, Zenon
    <2>2. pid[x] \in Range(status')
      BY <1>3, Zenon
    <2>3. QED
      BY <1>1, <2>1, <2>2, Zenon DEF Slotless
  <1> DEFINE a == Cardinality(Sleepers(w))
             b == Cardinality(Sleepers(w)')
             c == Cardinality(Slotless)
             e == Cardinality(Stale(w))
             f == Cardinality(Stale(w)')
             g == Len(status)
             h == Len(status')
  <1>12. /\ a \in Nat /\ b \in Nat /\ c \in Nat /\ e \in Nat /\ f \in Nat
         /\ g \in Nat /\ h \in Nat
    BY Counts, Zenon
  <1>13. f - h >= e - g - 1
    <2>1. CASE g < N
      <3>1. Stale(w) \subseteq Stale(w)'
        BY <1>10, <2>1, Zenon
      <3>2. e <= f
        BY <3>1, Counts, FS_Subset, Zenon
      <3>3. h = g + 1
        BY <1>3, <2>1
      <3> HIDE DEF e, f, g, h
      <3>4. QED
        BY <1>12, <3>2, <3>3
    <2>2. CASE g = N
      <3>1. Stale(w) \ {Head(status)} \subseteq Stale(w)'
        BY <1>10, <2>2, NAssumption, Zenon
      <3>2. /\ IsFiniteSet(Stale(w) \ {Head(status)})
            /\ Cardinality(Stale(w) \ {Head(status)}) \in {e, e - 1}
        BY Counts, FS_RemoveElement, Zenon
      <3>3. Cardinality(Stale(w) \ {Head(status)}) <= f
        BY <3>1, Counts, FS_Subset, Zenon
      <3>4. h = g
        BY <1>3, <2>2, NAssumption
      <3> HIDE DEF e, f, g, h
      <3>5. QED
        BY <1>12, <3>2, <3>3, <3>4
    <2>3. QED
      BY <1>3, <2>1, <2>2, Zenon
  <1>14. b + c + 1 <= e + (N - g)
    <2>1. CASE p < pid[w]
      <3>1. Sleepers(w)' = Sleepers(w) \ {x} /\ x \in Sleepers(w)
        BY <1>0, <1>1, <1>6, <2>1 DEF Sleepers, Sleeping
      <3>2. b = a - 1
        BY <3>1, Counts, FS_RemoveElement, Zenon
      <3>3. a + c <= e + (N - g)
        BY <1>6, Zenon DEF Room
      <3> HIDE DEF a, b, c, e, g
      <3>4. QED
        BY <1>12, <3>2, <3>3, NAssumption
    <2>2. CASE ~(p < pid[w])
      <3>1. pid[w] < p
        <4>1. pid[w] # p
          BY <1>1, <1>3, <1>4, Zenon DEF PidInv, Sleeping
        <4>2. QED
          BY <1>0, <1>6, <2>2, <4>1
      <3>2. Sleepers(w)' \cup {x} \in SUBSET Sleepers(x) /\ x \notin Sleepers(w)'
        BY <1>0, <1>1, <1>6, <3>1 DEF Sleepers, Sleeping
      <3>3. b + 1 <= Cardinality(Sleepers(x))
        <4>1. IsFiniteSet(Sleepers(w)') /\ IsFiniteSet(Sleepers(x))
          BY <3>2, Counts, FS_Subset, Zenon
        <4>2. Cardinality(Sleepers(w)' \cup {x}) = b + 1
          BY <3>2, <4>1, FS_AddElement, Zenon
        <4>3. QED
          BY <3>2, <4>1, <4>2, FS_Subset, Zenon
      <3>4. Stale(x) \subseteq Stale(w)
        <4>1. Fresh(w) \subseteq Fresh(x)
          BY <1>5, <1>9, Zenon DEF Fresh
        <4>2. QED
          BY <4>1, Zenon DEF Stale
      <3>5. Cardinality(Stale(x)) <= e /\ Cardinality(Stale(x)) \in Nat
            /\ Cardinality(Sleepers(x)) \in Nat
        BY <3>4, Counts, FS_Subset, Zenon
      <3>6. Cardinality(Sleepers(x)) + c <= Cardinality(Stale(x)) + (N - g)
        BY <1>6, Zenon DEF Room
      <3> HIDE DEF b, c, e, g
      <3>7. QED
        BY <1>12, <3>3, <3>5, <3>6, NAssumption
    <2>3. QED
      BY <2>1, <2>2, Zenon
  <1> HIDE DEF b, c, e, f, g, h
  <1>15. b + c <= f + (N - h)
    BY <1>12, <1>13, <1>14, NAssumption
  <1>16. QED
    BY <1>11, <1>15, Zenon DEF Room, b, c, f, h

\* There are always slots enough.
LEMMA SlotStep ==
    ASSUME TypeOK, TypeOK', PidInv, SleepInv, SlotInv, [Next]_vars
    PROVE  SlotInv'
  <1>1. ASSUME UNCHANGED vars PROVE SlotInv'
    <2>1. UNCHANGED <<status, lates, phase, pid, waiting>>
      BY <1>1, Zenon DEF vars, shared, local, env
    <2>2. QED
      BY <2>1 DEF SlotInv, Room, Sleepers, Slotless, Stale, Fresh, Pids, Up, Sleeping
  <1>2. QED
    BY <1>1, Steps, StartRoom, WakeRoom, CrashRoom, StampRoom, Zenon

----------------------------------------------------------------------------
(* The messages *)

(* A message that a running worker has to apply is not read by as many     *)
(* workers as there are: the worker will find it in the queue.             *)
LEMMA NotComplete ==
    ASSUME TypeOK, PidInv, NEW v \in Up, NEW m \in queue, ToApply(m, v)
    PROVE  ~Complete(m) /\ m \in Unread(pid[v])
  <1> DEFINE R == {u \in Workers : pid[u] \in m.pids}
             G == Gap(m, v)
             O == Old(m)
             P == Pids(R)
  <1>1. /\ m.pids \in SUBSET (1..lastPid) /\ lastPid \in Nat
        /\ v \in Workers /\ pid[v] \notin m.pids
    BY Types, Zenon DEF Up, ToApply
  <1>2. IsFiniteSet(O) /\ Cardinality(O) \in Nat
    BY <1>1, PidsFinite, Zenon DEF Old
  <1>3. /\ R \in SUBSET Workers /\ G \in SUBSET Workers /\ R \cap G = {}
        /\ v \notin R \cup G /\ R \cup G \in SUBSET Workers
        /\ (R \cup G) \cup {v} \in SUBSET Workers
    BY <1>1, Zenon DEF Gap
  <1>4. /\ IsFiniteSet(R) /\ Cardinality(R) \in Nat
        /\ IsFiniteSet(G) /\ Cardinality(G) \in Nat
        /\ IsFiniteSet(R \cup G) /\ Cardinality((R \cup G) \cup {v}) \in 0..N
    BY <1>3, WorkersFinite
  <1>5. IsFiniteSet(P) /\ Cardinality(P) = Cardinality(R)
    <2> DEFINE f == [u \in R |-> pid[u]]
    <2>1. f \in [R -> P] /\ \A t \in P : \E i \in R : f[i] = t
      BY Zenon DEF Pids
    <2>2. \A i, j \in R : f[i] = f[j] => i = j
      <3>1. \A i \in R : pid[i] # 0
        BY <1>1
      <3>2. QED
        BY <3>1, Zenon DEF PidInv
    <2> HIDE DEF f, R, P
    <2>3. QED
      BY <1>4, <2>1, <2>2, OneToOne, Zenon
  <1>6. m.pids = O \cup P
    BY Zenon DEF Old, Pids
  <1> HIDE DEF R, G, O, P
  <1>7. Cardinality(m.pids) <= Cardinality(O) + Cardinality(P)
    <2>1. Cardinality(O \cup P) = Cardinality(O) + Cardinality(P) - Cardinality(O \cap P)
      BY <1>2, <1>5, FS_Union, Zenon
    <2>2. Cardinality(O \cap P) \in Nat
      BY <1>2, FS_Intersection, FS_CardinalityType, Zenon
    <2>3. QED
      BY <1>2, <1>4, <1>5, <1>6, <2>1, <2>2
  <1>8. Cardinality(R) + Cardinality(G) + 1 <= N
    <2>1. Cardinality(R \cup G) = Cardinality(R) + Cardinality(G) - Cardinality({})
      BY <1>3, <1>4, FS_Union, Zenon
    <2>2. Cardinality({}) = 0
      BY FS_EmptySet, Zenon
    <2>3. Cardinality((R \cup G) \cup {v}) = Cardinality(R \cup G) + 1
      BY <1>3, <1>4, FS_AddElement, Zenon
    <2>4. QED
      BY <1>4, <2>1, <2>2, <2>3, NAssumption
  <1>9. Cardinality(O) <= Cardinality(G)
    BY Zenon DEF ToApply, O, G
  <1>10. Cardinality(m.pids) \in Nat
    BY <1>1, PidsFinite, Zenon
  <1>11. Cardinality(m.pids) # N
    BY <1>2, <1>4, <1>5, <1>7, <1>8, <1>9, <1>10, NAssumption
  <1>12. QED
    BY <1>1, <1>11, Zenon DEF Complete, Unread

(* A message is to be applied as long as no more of its readers are        *)
(* replaced and no fewer workers come after v.                             *)
LEMMA ToApplyKept ==
    ASSUME TypeOK, NEW m \in queue, NEW k, NEW v \in Workers, ToApply(m, v),
           pid'[v] \notin k.pids,
           Old(k)' \subseteq Old(m), Gap(m, v) \subseteq Gap(k, v)'
    PROVE  ToApply(k, v)'
  <1>1. IsFiniteSet(Old(m)) /\ Cardinality(Old(m)) \in Nat
    <2>1. Old(m) \in SUBSET (1..lastPid) /\ lastPid \in Nat
      BY Types, Zenon DEF Old
    <2>2. QED
      BY <2>1, PidsFinite, Zenon
  <1>2. /\ IsFiniteSet(Gap(k, v)') /\ Cardinality(Gap(k, v)') \in Nat
        /\ Cardinality(Gap(m, v)) \in Nat
    <2>1. Gap(k, v)' \in SUBSET Workers /\ Gap(m, v) \in SUBSET Workers
      BY Zenon DEF Gap
    <2>2. QED
      BY <2>1, WorkersFinite
  <1>3. Cardinality(Old(k)') <= Cardinality(Old(m)) /\ Cardinality(Old(k)') \in Nat
    BY <1>1, FS_Subset, FS_CardinalityType, Zenon
  <1>4. Cardinality(Gap(m, v)) <= Cardinality(Gap(k, v)')
    BY <1>2, FS_Subset, Zenon
  <1>5. Cardinality(Old(m)) <= Cardinality(Gap(m, v))
    BY Zenon DEF ToApply
  <1>6. Cardinality(Old(k)') <= Cardinality(Gap(k, v)')
    BY <1>1, <1>2, <1>3, <1>4, <1>5
  <1>7. QED
    BY <1>6, Zenon DEF ToApply

(* What w reads, or marks as read before it dies, changes nothing for the  *)
(* other workers, and nothing for w if it could not read.                  *)
LEMMA ReadKeeps ==
    ASSUME TypeOK, TypeOK', PidInv, SleepInv, UNCHANGED pid,
           NEW w \in Workers, NEW K, ReadBy(w, K), NEW v \in Up, w # v \/ K = {},
           \A u \in Workers \ {v} :
              (phase[u] = "down" \/ v \in waiting[u]) /\ (u # w \/ K = {})
                => phase'[u] = "down" \/ v \in waiting'[u],
           NEW name \in Names,
           conf'[v][name] = conf[v][name], truth'[name] = truth[name],
           \A k \in queue' : k.id <= version \/ k.name # name,
           InStep(v, name)
    PROVE  InStep(v, name)'
  <1>0. v \in Workers /\ pid[v] # 0
    BY Zenon DEF Up, PidInv
  <1>1. \A k \in queue' : k.name = name =>
          \E m \in queue :
            /\ Same(m, k)
            /\ \/ m \in K /\ ~Complete(m) /\ k.pids = m.pids \cup {pid[w]}
               \/ m \notin K /\ k = m
    BY Zenon DEF ReadBy
  <1>2. CASE /\ conf[v][name] = truth[name]
             /\ \A m \in Unread(pid[v]) : m.name # name
    <2>1. ASSUME NEW k \in Unread(pid[v])' PROVE k.name # name
      <3> SUFFICES ASSUME k.name = name PROVE FALSE
        BY Zenon
      <3>1. k \in queue' /\ ~Complete(k) /\ pid[v] \notin k.pids
        BY Zenon DEF Unread, Complete
      <3>2. PICK m \in queue :
              /\ Same(m, k)
              /\ \/ m \in K /\ ~Complete(m) /\ k.pids = m.pids \cup {pid[w]}
                 \/ m \notin K /\ k = m
        BY <1>1, <3>1, Zenon
      <3>3. m \in Unread(pid[v]) /\ m.name = name
        BY <3>1, <3>2, Zenon DEF Unread, Same
      <3>4. QED
        BY <1>2, <3>3, Zenon
    <2>2. QED
      BY <1>2, <2>1, Zenon DEF InStep
  <1>3. ASSUME NEW m \in queue, m.name = name, m.val = truth[name], ToApply(m, v),
               \A k \in queue : k.name = name => k.id <= m.id
        PROVE  InStep(v, name)'
    <2>1. ~Complete(m) /\ pid[v] \notin m.pids
      BY <1>3, NotComplete, Zenon DEF ToApply
    <2>2. PICK k \in queue' :
            /\ Same(m, k)
            /\ k.pids = IF m \in K THEN m.pids \cup {pid[w]} ELSE m.pids
      BY <2>1, Zenon DEF ReadBy
    <2>3. pid'[v] \notin k.pids
      BY <1>0, <2>1, <2>2, Zenon DEF PidInv
    <2>4. Old(k)' \subseteq Old(m)
      BY <2>2, Zenon DEF Old, Pids
    <2>5. Gap(m, v) \subseteq Gap(k, v)'
      <3> SUFFICES ASSUME NEW u \in Gap(m, v)
                   PROVE  /\ pid[u] \notin k.pids
                          /\ phase'[u] = "down" \/ v \in waiting'[u]
        BY Zenon DEF Gap
      <3>1. /\ u \in Workers \ {v} /\ pid[u] \notin m.pids
            /\ phase[u] = "down" \/ v \in waiting[u]
        BY Zenon DEF Gap
      <3>2. u # w \/ K = {}
        <4>1. phase[w] = "up" => waiting[w] = {}
          BY Zenon DEF SleepInv, Sleeping
        <4>2. QED
          BY <3>1, <4>1, Zenon DEF ReadBy
      <3>3. phase'[u] = "down" \/ v \in waiting'[u]
        BY <3>1, <3>2, Zenon
      <3>4. pid[u] \notin k.pids
        <4>1. CASE m \in K
          <5>1. phase[w] = "up" /\ u # w
            BY <3>2, <4>1, Zenon DEF ReadBy
          <5>2. pid[w] # 0
            BY <5>1, Zenon DEF PidInv, Up
          <5>3. pid[u] # pid[w]
            BY <3>1, <5>1, <5>2, Zenon DEF PidInv
          <5>4. QED
            BY <2>2, <3>1, <4>1, <5>3, Zenon
        <4>2. CASE m \notin K
          BY <2>2, <3>1, <4>2, Zenon
        <4>3. QED
          BY <4>1, <4>2, ZenonT(30)
      <3>5. QED
        BY <3>3, <3>4, Zenon
    <2>6. ToApply(k, v)'
      BY <1>0, <1>3, <2>3, <2>4, <2>5, ToApplyKept, Zenon
    <2>7. \A j \in queue' : j.name = name => j.id <= k.id
      <3> SUFFICES ASSUME NEW j \in queue', j.name = name PROVE j.id <= k.id
        BY Zenon
      <3>1. PICK i \in queue : Same(i, j)
        BY <1>1, Zenon
      <3>2. QED
        BY <1>3, <2>2, <3>1, Zenon DEF Same
    <2>8. k.name = name /\ k.val = truth'[name]
      BY <1>3, <2>2, Zenon DEF Same
    <2>9. QED
      BY <2>6, <2>7, <2>8, Zenon DEF InStep
  <1>4. QED
    BY <1>2, <1>3, Zenon DEF InStep

\* A worker that reads has the content of the last change afterwards.
LEMMA ReadApplies ==
    ASSUME TypeOK, TypeOK', PidInv, QueueInv, UNCHANGED pid,
           NEW v \in Up, ReadBy(v, queue), NEW o, o # NoPool,
           NEW name \in Names, name \notin Missed(v, o),
           conf'[v][name] = ReadConf(v, o)[name], truth'[name] = truth[name],
           \A k \in queue' : k.id <= version \/ k.name # name,
           InStep(v, name)
    PROVE  InStep(v, name)'
  <1>0. v \in Workers /\ version \in Nat /\ lastPid \in Nat
        /\ queue \in SUBSET Msgs(version, lastPid)
    BY Types, Zenon DEF Up
  <1>1. \A k \in Unread(pid[v])' : k.name # name
    BY Zenon DEF ReadBy, Unread
  <1> DEFINE about == {m \in Unread(pid[v]) : m.name = name}
  <1>2. conf'[v][name] = IF about = {} THEN conf[v][name]
                         ELSE ngx_dyups_sync_cmd(Newest(about), o)
    BY Zenon DEF ReadConf, SyncAll
  <1>3. conf'[v][name] = truth[name]
    <2>1. CASE /\ conf[v][name] = truth[name]
               /\ \A m \in Unread(pid[v]) : m.name # name
      BY <1>2, <2>1, Zenon
    <2>2. ASSUME NEW m \in queue, m.name = name, m.val = truth[name], ToApply(m, v),
                 \A k \in queue : k.name = name => k.id <= m.id
          PROVE  conf'[v][name] = truth[name]
      <3>1. m \in about
        BY <2>2, NotComplete, Zenon
      <3>2. about \subseteq queue /\ \A k \in about : k.name = name
        BY Zenon DEF Unread
      <3>3. m.id # o
        BY <2>2, <3>1, Zenon DEF Missed
      <3> HIDE DEF about
      <3>4. about \in SUBSET Msgs(version, lastPid) /\ about # {}
        BY <1>0, <3>1, <3>2, Zenon
      <3>5. Newest(about) \in about /\ m.id <= Newest(about).id
        BY <1>0, <3>1, <3>4, NewestIsLast, Zenon
      <3>6. Newest(about).id <= m.id
        BY <2>2, <3>2, <3>5, Zenon
      <3>7. m.id \in Nat /\ Newest(about).id \in Nat
        BY <3>2, <3>5, IdNat, Zenon
      <3>8. Newest(about) = m
        BY <3>2, <3>5, <3>6, <3>7 DEF QueueInv
      <3>9. QED
        BY <1>2, <2>2, <3>3, <3>4, <3>8, Zenon DEF ngx_dyups_sync_cmd
    <2>3. QED
      BY <2>1, <2>2, Zenon DEF InStep
  <1>4. QED
    BY <1>1, <1>3, Zenon DEF InStep

\* A new message is to be applied by all the other workers that run.
LEMMA SendSync ==
    ASSUME TypeOK, TypeOK', PidInv, SleepInv, NEW w \in Up, NEW o \in Outcomes(w),
           NEW name \in Names, NEW val \in Vals \cup {Absent}, Sends(w, o, name, val),
           NEW v \in Up, name \notin unsynced'
    PROVE  InStep(v, name)'
  <1> PICK k : k = NewMsg(w, name, val)
    BY Zenon
  <1>0. /\ version \in Nat /\ w \in Workers /\ v \in Workers
        /\ conf \in [Workers -> [Names -> V]] /\ truth \in [Names -> V]
        /\ pid[w] # 0 /\ pid[w] \in 1..lastPid
    BY Types, PidRange, Zenon DEF Up, PidInv
  <1>1. /\ UNCHANGED pid /\ k \in queue' /\ truth'[name] = val
        /\ version' = version + 1
        /\ queue' = ReadQueue(w, o) \cup {k}
    BY <1>0, Zenon DEF Sends, Reads, NewMsg
  <1>2. k.id = version + 1 /\ k.name = name /\ k.val = val /\ k.pids = {pid[w]}
    BY Zenon DEF NewMsg
  <1>3. CASE v # w
    <2>1. pid'[v] \notin k.pids
      BY <1>0, <1>1, <1>2, <1>3, Zenon DEF PidInv
    <2>2. Old(k)' = {}
      BY <1>0, <1>1, <1>2, Zenon DEF Old, Pids
    <2>3. Cardinality(Old(k)') <= Cardinality(Gap(k, v)')
      <3>1. Cardinality({}) = 0
        BY FS_EmptySet, Zenon
      <3>2. Gap(k, v)' \in SUBSET Workers
        BY Zenon DEF Gap
      <3>3. Cardinality(Gap(k, v)') \in Nat
        BY <3>2, WorkersFinite, FS_CardinalityType, Zenon
      <3>4. QED
        BY <2>2, <3>1, <3>3, ZeroLeast, Zenon
    <2>4. \A j \in queue' : j.id <= k.id
      BY <1>0, <1>1, <1>2, TypesAfter
    <2>5. ToApply(k, v)'
      BY <2>1, <2>3, Zenon DEF ToApply
    <2>6. QED
      BY <1>1, <1>2, <2>4, <2>5, Zenon DEF InStep
  <1>4. CASE v = w
    <2>1. conf'[v][name] = val
      <3>1. ReadConf(w, o) \in [Names -> V]
        BY <1>0, ReadTypes, Zenon
      <3>2. QED
        BY <1>0, <1>4, <3>1, Zenon DEF Sends
    <2>2. ASSUME NEW j \in Unread(pid[v])', j.name = name PROVE FALSE
      <3>1. j \in queue' /\ ~Complete(j) /\ pid[w] \notin j.pids
        BY <1>1, <1>4, <2>2, Zenon DEF Unread, Complete
      <3>2. j \in ReadQueue(w, o)
        BY <1>1, <1>2, <3>1, Zenon
      <3>3. o = NoPool
        <4> SUFFICES ASSUME j \in MarkRead(pid[w], queue) PROVE FALSE
          BY <3>2, Zenon DEF ReadQueue
        <4>1. PICK m \in queue : j = [m EXCEPT !.pids = @ \cup {pid[w]}]
          BY Zenon DEF MarkRead
        <4>2. j.pids = m.pids \cup {pid[w]}
          BY <4>1, Types, Zenon DEF Msgs
        <4>3. QED
          BY <3>1, <4>2, Zenon
      <3>4. j \in Unread(pid[w])
        BY <3>1, <3>2, <3>3, Zenon DEF ReadQueue, Unread
      <3>5. QED
        BY <2>2, <3>3, <3>4, Zenon DEF Sends
    <2>3. QED
      BY <1>1, <2>1, <2>2, Zenon DEF InStep
  <1>5. QED
    BY <1>3, <1>4, Zenon

\* What a handler does to the contents of the names in all the workers.
LEMMA HandlesSync ==
    ASSUME TypeOK, TypeOK', PidInv, SleepInv, QueueInv, SyncInv,
           NEW w \in Workers, NEW o \in Outcomes(w), Handles(w, o)
    PROVE  SyncInv'
  <1>0. /\ conf \in [Workers -> [Names -> V]] /\ truth \in [Names -> V]
        /\ known \in [Workers -> SUBSET Names] /\ waiting \in [Workers -> SUBSET Workers]
    BY Types, Zenon
  <1>1. /\ w \in Up /\ UNCHANGED <<phase, pid, lastPid, lates>>
        /\ waiting' = IF o = NoPool THEN waiting
                      ELSE [u \in Workers |-> waiting[u] \ {w}]
    BY HandlesFrame, Zenon
  <1>2. Up' = Up
    BY <1>1, Zenon DEF Up
  <1>3. ReadConf(w, o) \in [Names -> V]
    BY <1>1, ReadTypes, Zenon DEF PidInv
  <1>4. ASSUME lates = 0, NEW v \in Up, NEW name \in known[v] \ unsynced,
               name \in Names, name \notin Missed(w, o),
               truth'[name] = truth[name],
               conf' = [conf EXCEPT ![w] = conf'[w]],
               conf'[w][name] = ReadConf(w, o)[name],
               \A k \in queue' : k.id <= version \/ k.name # name
        PROVE  InStep(v, name)'
    <2>1. InStep(v, name) /\ v \in Workers
      BY <1>4, Zenon DEF SyncInv, Up
    <2>2. ReadBy(w, IF o = NoPool THEN {} ELSE queue)
      BY ReadForm, Zenon
    <2>3. CASE v = w /\ o # NoPool
      <3>1. ReadBy(v, queue)
        BY <2>2, <2>3, Zenon
      <3>2. QED
        BY <1>1, <1>4, <2>1, <2>3, <3>1, ReadApplies, Zenon
    <2>4. CASE v # w \/ o = NoPool
      <3> DEFINE K == IF o = NoPool THEN {} ELSE queue
      <3>1. ReadBy(w, K) /\ (w # v \/ K = {})
        BY <2>2, <2>4, Zenon
      <3>2. \A u \in Workers \ {v} : phase[u] = "down" \/ v \in waiting[u]
                                      => phase'[u] = "down" \/ v \in waiting'[u]
        BY <1>0, <1>1, <2>4, Zenon
      <3>3. conf'[v][name] = conf[v][name]
        BY <1>0, <1>4, <2>1, <2>4, Zenon DEF ReadConf
      <3> HIDE DEF K
      <3>4. QED
        BY <1>1, <1>4, <2>1, <3>1, <3>2, <3>3, ReadKeeps, ZenonT(30)
    <2>5. QED
      BY <2>3, <2>4, Zenon
  <1>5. \A m \in ReadQueue(w, o) : m.id <= version
    BY <1>1, Types, ReadTypes DEF PidInv, Msgs
  <1>6. CASE ReadOnly(w, o)
    <2>1. /\ conf' = [conf EXCEPT ![w] = ReadConf(w, o)] /\ queue' = ReadQueue(w, o)
          /\ UNCHANGED <<truth, known>> /\ unsynced' = unsynced \cup Missed(w, o)
      BY <1>6, Zenon DEF ReadOnly
    <2>2. conf'[w] = ReadConf(w, o)
      BY <1>0, <2>1, Zenon
    <2>3. QED
      BY <1>0, <1>1, <1>2, <1>4, <1>5, <2>1, <2>2, Zenon DEF SyncInv, Up
  <1>7. ASSUME NEW n \in Names, NEW val \in V, SendFails(w, o, n, val) PROVE SyncInv'
    <2>1. /\ conf' = [conf EXCEPT ![w] = [ReadConf(w, o) EXCEPT ![n] = val]]
          /\ queue' = ReadQueue(w, o)
          /\ UNCHANGED <<truth, known>>
          /\ unsynced' = unsynced \cup Missed(w, o) \cup {n}
      BY <1>7, Zenon DEF SendFails
    <2>2. /\ conf'[w] = [ReadConf(w, o) EXCEPT ![n] = val]
          /\ \A name \in Names \ {n} : conf'[w][name] = ReadConf(w, o)[name]
      BY <1>0, <1>3, <2>1, Zenon
    <2>3. conf' = [conf EXCEPT ![w] = conf'[w]]
      BY <2>1, <2>2, Zenon
    <2>4. QED
      BY <1>0, <1>1, <1>2, <1>4, <1>5, <2>1, <2>2, <2>3, Zenon DEF SyncInv, Up
  <1>8. ASSUME NEW n \in Names, NEW val \in Vals \cup {Absent}, Sends(w, o, n, val)
        PROVE  SyncInv'
    <2>1. /\ conf' = [conf EXCEPT ![w] = [ReadConf(w, o) EXCEPT ![n] = val]]
          /\ queue' = ReadQueue(w, o) \cup {NewMsg(w, n, val)}
          /\ truth' = [truth EXCEPT ![n] = val]
          /\ \A name \in Names \ {n} : name \notin unsynced' =>
                name \notin unsynced /\ name \notin Missed(w, o)
          /\ \A v \in Up : known'[v] = known[v] \cup {n}
      <3>1. o = NoPool => Missed(w, o) = {}
        BY NothingMissed, Zenon
      <3>2. QED
        BY <1>8, <3>1, Zenon DEF Sends, NewMsg, Up
    <2>2. /\ conf'[w] = [ReadConf(w, o) EXCEPT ![n] = val]
          /\ \A name \in Names \ {n} : /\ conf'[w][name] = ReadConf(w, o)[name]
                                       /\ truth'[name] = truth[name]
      BY <1>0, <1>3, <2>1, Zenon
    <2>3. conf' = [conf EXCEPT ![w] = conf'[w]]
      BY <2>1, <2>2, Zenon
    <2>4. NewMsg(w, n, val).name = n
      BY Zenon DEF NewMsg
    <2>5. ASSUME lates = 0, NEW v \in Up, NEW name \in known'[v] \ unsynced'
          PROVE  InStep(v, name)'
      <3>1. CASE name = n
        BY <1>1, <1>8, <2>5, <3>1, SendSync, Zenon
      <3>2. CASE name # n
        <4>1. name \in known[v] \ unsynced /\ name \in Names /\ name \notin Missed(w, o)
          <5>1. v \in Workers /\ known'[v] = known[v] \cup {n} /\ known[v] \subseteq Names
            BY <1>0, <2>1, Zenon DEF Up
          <5>2. name \in known[v] /\ name \in Names \ {n} /\ name \notin unsynced'
            BY <2>5, <3>2, <5>1, Zenon
          <5>3. QED
            BY <2>1, <5>2, Zenon
        <4>2. \A k \in queue' : k.id <= version \/ k.name # name
          BY <1>5, <2>1, <2>4, <3>2, Zenon
        <4>3. QED
          BY <1>4, <2>2, <2>3, <2>5, <3>2, <4>1, <4>2, ZenonT(30)
      <3>3. QED
        BY <3>1, <3>2, Zenon
    <2>6. QED
      BY <1>1, <1>2, <2>5, Zenon DEF SyncInv
  <1>9. QED
    BY <1>6, <1>7, <1>8, Zenon DEF Handles

(* A worker that is started later does not read before the others have:    *)
(* what they have to apply stays in the queue for them.                    *)
LEMMA StartSync ==
    ASSUME TypeOK, TypeOK', PidInv, SleepInv, QueueInv, SyncInv,
           NEW x \in Workers, Start(x)
    PROVE  SyncInv'
  <1>0. /\ pid \in [Workers -> 0..lastPid] /\ version \in Nat /\ lastPid \in Nat
        /\ phase \in [Workers -> {"down", "sleep", "up"}]
        /\ waiting \in [Workers -> SUBSET Workers]
        /\ conf \in [Workers -> [Names -> V]] /\ known \in [Workers -> SUBSET Names]
        /\ \A m \in queue : m.pids \in SUBSET (1..lastPid)
    BY Types, Zenon
  <1>1. /\ pid' = [pid EXCEPT ![x] = lastPid + 1]
        /\ conf' = [conf EXCEPT ![x] = [n \in Names |-> Initial]]
        /\ UNCHANGED <<queue, version, lates, truth, unsynced>>
        /\ x \notin Up /\ x \notin Sleeping
    BY Zenon DEF Start, shared, Up, Sleeping
  <1>2. CASE version = 0
    <2>1. queue = {} /\ truth = [n \in Names |-> Initial]
      BY <1>2, Zenon DEF QueueInv
    <2>2. Up' = Up \cup {x} /\ known' = [known EXCEPT ![x] = Names]
      BY <1>0, <1>2, Zenon DEF Start, Up
    <2>3. \A v : Unread(pid[v])' = {}
      BY <1>1, <2>1, Zenon DEF Unread
    <2>4. ASSUME lates = 0, NEW v \in Up, NEW name \in known[v] \ unsynced
          PROVE  conf'[v][name] = truth'[name]
      <3>1. InStep(v, name)
        BY <2>4, Zenon DEF SyncInv
      <3>2. conf[v][name] = truth[name]
        BY <2>1, <3>1, Zenon DEF InStep
      <3>3. QED
        BY <1>0, <1>1, <3>2, Zenon DEF Up
    <2>5. \A name \in Names : conf'[x][name] = truth'[name]
      BY <1>0, <1>1, <2>1, Zenon
    <2>6. ASSUME lates = 0, NEW v \in Up', NEW name \in known'[v] \ unsynced'
          PROVE  InStep(v, name)'
      <3>1. CASE v = x
        BY <1>0, <2>2, <2>3, <2>5, <2>6, <3>1, Zenon DEF InStep
      <3>2. CASE v \in Up
        <4>1. name \in known[v] \ unsynced
          BY <1>0, <1>1, <2>2, <2>6, <3>2, Zenon DEF Up
        <4>2. QED
          BY <2>3, <2>4, <2>6, <3>2, <4>1, Zenon DEF InStep
      <3>3. QED
        BY <2>2, <3>1, <3>2, Zenon
    <2>7. QED
      BY <1>1, <2>6, Zenon DEF SyncInv
  <1>3. CASE version # 0
    <2>1. /\ Up' = Up /\ waiting' = [waiting EXCEPT ![x] = Up] /\ UNCHANGED known
      BY <1>0, <1>3, Zenon DEF Start, Up
    <2>2. SUFFICES ASSUME lates = 0, NEW v \in Up, NEW name \in known[v] \ unsynced
                   PROVE  InStep(v, name)'
      BY <1>1, <2>1, ZenonT(30) DEF SyncInv
    <2>3. /\ v \in Workers \ {x} /\ pid'[v] = pid[v] /\ conf'[v] = conf[v]
          /\ pid'[x] = lastPid + 1 /\ pid[x] \in 0..lastPid
          /\ \A u \in Workers \ {x} : /\ pid'[u] = pid[u] /\ phase'[u] = phase[u]
                                      /\ waiting'[u] = waiting[u]
          /\ v \in waiting'[x] /\ phase[x] = "down"
      BY <1>0, <1>1, <2>1, Zenon DEF Up, Start
    <2>4. InStep(v, name)
      BY <2>2, Zenon DEF SyncInv
    <2>5. CASE /\ conf[v][name] = truth[name]
               /\ \A m \in Unread(pid[v]) : m.name # name
      <3>1. Unread(pid[v])' = Unread(pid[v])
        BY <1>1, <2>3, Zenon DEF Unread, Complete
      <3>2. QED
        BY <1>1, <2>3, <2>5, <3>1, Zenon DEF InStep
    <2>6. ASSUME NEW m \in queue, m.name = name, m.val = truth[name], ToApply(m, v),
                 \A k \in queue : k.name = name => k.id <= m.id
          PROVE  InStep(v, name)'
      <3>1. pid'[v] \notin m.pids /\ pid'[x] \notin m.pids
        <4>1. pid[v] \notin m.pids
          BY <2>6, ZenonT(30) DEF ToApply
        <4>2. lastPid + 1 \notin 1..lastPid
          BY <1>0, NextNumber, Zenon
        <4>3. QED
          BY <1>0, <2>3, <4>1, <4>2, Zenon
      <3>2. x \in Gap(m, v)'
        BY <2>3, <3>1, Zenon DEF Gap
      <3>3. Gap(m, v) \subseteq Gap(m, v)'
        <4>1. ASSUME NEW u \in Gap(m, v), u # x PROVE u \in Gap(m, v)'
          BY <2>3, <4>1, Zenon DEF Gap
        <4>2. QED
          BY <3>2, <4>1, Zenon
      <3>4. Old(m)' \subseteq Old(m) \cup ({pid[x]} \cap m.pids)
        BY <2>3, Zenon DEF Old, Pids
      <3>5. ToApply(m, v)'
        <4>1. CASE pid[x] \notin m.pids
          BY <2>3, <2>6, <3>1, <3>3, <3>4, <4>1, ToApplyKept, Zenon
        <4>2. CASE pid[x] \in m.pids
          <5>1. x \notin Gap(m, v)
            BY <4>2, Zenon DEF Gap
          <5>2. /\ Old(m) \in SUBSET (1..lastPid) /\ lastPid \in Nat
                /\ Gap(m, v) \in SUBSET Workers /\ Gap(m, v)' \in SUBSET Workers
            <6>1. Old(m) \subseteq m.pids
              BY Zenon DEF Old
            <6>2. Gap(m, v) \in SUBSET Workers /\ Gap(m, v)' \in SUBSET Workers
              BY Zenon DEF Gap
            <6>3. QED
              BY <1>0, <2>6, <6>1, <6>2, Zenon
          <5>3. /\ IsFiniteSet(Old(m)) /\ Cardinality(Old(m)) \in Nat
                /\ IsFiniteSet(Gap(m, v)) /\ Cardinality(Gap(m, v)) \in Nat
                /\ IsFiniteSet(Gap(m, v)') /\ Cardinality(Gap(m, v)') \in Nat
            <6>1. IsFiniteSet(Old(m)) /\ Cardinality(Old(m)) \in Nat
              BY <5>2, PidsFinite, Zenon
            <6>2. IsFiniteSet(Gap(m, v)) /\ IsFiniteSet(Gap(m, v)')
              BY <5>2, WorkersFinite, Zenon
            <6>3. QED
              BY <6>1, <6>2, FS_CardinalityType, Zenon
          <5>4. Cardinality(Old(m)') <= Cardinality(Old(m)) + 1
                /\ Cardinality(Old(m)') \in Nat
            <6>1. /\ IsFiniteSet(Old(m) \cup {pid[x]})
                  /\ Cardinality(Old(m) \cup {pid[x]}) \in
                       {Cardinality(Old(m)), Cardinality(Old(m)) + 1}
              BY <5>3, FS_AddElement, Zenon
            <6>2. Old(m)' \in SUBSET (Old(m) \cup {pid[x]})
              BY <3>4, Zenon
            <6>3. /\ IsFiniteSet(Old(m)')
                  /\ Cardinality(Old(m)') <= Cardinality(Old(m) \cup {pid[x]})
              BY <6>1, <6>2, FS_Subset, Zenon
            <6>4. Cardinality(Old(m)') \in Nat
              BY <6>3, FS_CardinalityType, Zenon
            <6>5. QED
              BY <5>3, <6>1, <6>3, <6>4, OneMore, Zenon
          <5>5. Cardinality(Gap(m, v)) + 1 <= Cardinality(Gap(m, v)')
            <6>1. Cardinality(Gap(m, v) \cup {x}) = Cardinality(Gap(m, v)) + 1
              BY <5>1, <5>3, FS_AddElement, Zenon
            <6>2. Gap(m, v) \cup {x} \in SUBSET Gap(m, v)'
              BY <3>2, <3>3, Zenon
            <6>3. QED
              BY <5>3, <6>1, <6>2, FS_Subset, Zenon
          <5>6. Cardinality(Old(m)) <= Cardinality(Gap(m, v))
            BY <2>6, Zenon DEF ToApply
          <5>7. Cardinality(Old(m)') <= Cardinality(Gap(m, v)')
            BY <5>3, <5>4, <5>5, <5>6, StillBelow, Zenon
          <5>8. QED
            BY <3>1, <5>7, Zenon DEF ToApply
        <4>3. QED
          BY <4>1, <4>2, Zenon
      <3>6. QED
        BY <1>1, <2>6, <3>5, Zenon DEF InStep
    <2>7. QED
      BY <2>4, <2>5, <2>6, Zenon DEF InStep
  <1>4. QED
    BY <1>2, <1>3, Zenon

(* A new worker that wakes up in time takes the place of a dead one among  *)
(* the readers: no message is complete for that, or read by one it was     *)
(* not read by.                                                            *)
LEMMA WakeSync ==
    ASSUME TypeOK, TypeOK', PidInv, SleepInv, SlotInv, SyncInv,
           NEW x \in Workers, Wake(x)
    PROVE  SyncInv'
  <1>0. /\ pid \in [Workers -> 0..lastPid] /\ version \in Nat /\ lastPid \in Nat /\ lates \in Nat
        /\ phase \in [Workers -> {"down", "sleep", "up"}]
        /\ waiting \in [Workers -> SUBSET Workers]
        /\ \A m \in queue : m.pids \in SUBSET (1..lastPid)
    BY Types, Zenon
  <1>1. /\ UNCHANGED <<pid, conf, truth, unsynced, known>>
        /\ x \in Sleeping /\ x \notin Up
        /\ Up' = Up \cup {x} /\ known[x] = {} /\ phase[x] = "sleep"
        /\ \A u \in Workers \ {x} : phase'[u] = phase[u] /\ waiting'[u] = waiting[u]
    BY <1>0, Zenon DEF Wake, ghost, Up, Sleeping, SleepInv
  <1>2. SUFFICES ASSUME lates' = 0, NEW v \in Up, NEW name \in known[v] \ unsynced
                 PROVE  InStep(v, name)'
    BY <1>1, ZenonT(30) DEF SyncInv
  <1>3. lates = 0 /\ waiting[x] = {}
    BY <1>0, <1>2, NextNumber, Zenon DEF Wake
  <1>4. InStep(v, name) /\ v \in Workers \ {x} /\ pid[v] # pid[x]
    BY <1>1, <1>2, <1>3, Zenon DEF SyncInv, Up, PidInv
  <1>5. \A m \in queue : pid[x] \notin m.pids
    BY <1>1, Zenon DEF SleepInv
  <1>6. Distinct(status)
    BY Zenon DEF SlotInv
  <1>7. \/ queue' = queue
        \/ /\ Head(status) \notin Pids(Up)
           /\ queue' = ngx_dyups_purge_msg(Head(status), pid[x])
    BY <1>3, <1>6, WakeOrder, WakeTakesStale, Zenon
  <1> DEFINE p == pid[x]
             h == Head(status)
             From(m, k) == /\ Same(m, k)
                           /\ \/ k.pids = m.pids
                              \/ h \notin Pids(Up) /\ k.pids = Swap(m.pids, h, p)
  <1>8. /\ \A m \in queue : \E k \in queue' : From(m, k)
        /\ \A k \in queue' : \E m \in queue : From(m, k)
    <2>1. CASE queue' = queue
      BY <2>1, Zenon DEF Same
    <2>2. CASE h \notin Pids(Up) /\ queue' = ngx_dyups_purge_msg(h, p)
      <3> DEFINE to(m) == [m EXCEPT !.pids = Swap(@, h, p)]
      <3>1. \A m \in queue : From(m, to(m))
        BY <2>2, Types, ZenonT(30) DEF Same, Msgs
      <3>2. queue' = {to(m) : m \in queue}
        BY <2>2, Zenon DEF ngx_dyups_purge_msg, Swap
      <3> HIDE DEF From, to
      <3>3. QED
        BY <3>1, <3>2, Zenon
    <2>3. QED
      BY <1>7, <2>1, <2>2, Zenon
  <1>9. ASSUME NEW m \in queue, NEW k \in queue', From(m, k)
        PROVE  /\ k.name = m.name /\ k.id = m.id /\ k.val = m.val
               /\ Cardinality(k.pids) = Cardinality(m.pids)
               /\ pid[v] \in k.pids <=> pid[v] \in m.pids
               /\ k.pids \subseteq m.pids \cup {p}
    <2>1. CASE k.pids = m.pids
      BY <1>9, <2>1, Zenon DEF Same
    <2>2. CASE h \notin Pids(Up) /\ k.pids = Swap(m.pids, h, p)
      <3>1. IsFiniteSet(m.pids) /\ p \notin m.pids
        BY <1>0, <1>5, PidsFinite, Zenon
      <3>2. /\ k.pids = IF h \in m.pids THEN (m.pids \ {h}) \cup {p} ELSE m.pids
            /\ Cardinality(k.pids) = Cardinality(m.pids)
        <4> DEFINE S == m.pids
        <4>1. IsFiniteSet(S) /\ p \notin S /\ k.pids = Swap(S, h, p)
          BY <2>2, <3>1, Zenon
        <4> HIDE DEF S, h, p
        <4>2. /\ k.pids = IF h \in S THEN (S \ {h}) \cup {p} ELSE S
              /\ Cardinality(k.pids) = Cardinality(S)
          BY <4>1, Replaced
        <4>3. QED
          BY <4>2, Zenon DEF S
      <3>3. pid[v] # h /\ pid[v] # p
        BY <1>4, <2>2, Zenon DEF Pids
      <3>4. k.name = m.name /\ k.id = m.id /\ k.val = m.val
        BY <1>9, Zenon DEF Same
      <3>5. /\ pid[v] \in k.pids <=> pid[v] \in m.pids
            /\ k.pids \subseteq m.pids \cup {p}
        <4> HIDE DEF h, p
        <4>1. CASE h \in m.pids
          BY <3>2, <3>3, <4>1, Zenon
        <4>2. CASE h \notin m.pids
          BY <3>2, <4>2, Zenon
        <4>3. QED
          BY <4>1, <4>2, Zenon
      <3>6. QED
        BY <3>2, <3>4, <3>5, Zenon
    <2>3. QED
      BY <1>9, <2>1, <2>2, Zenon
  <1> HIDE DEF From
  <1>10. CASE /\ conf[v][name] = truth[name]
              /\ \A m \in Unread(pid[v]) : m.name # name
    <2>1. ASSUME NEW k \in Unread(pid[v])', k.name = name PROVE FALSE
      <3>1. k \in queue' /\ ~Complete(k) /\ pid[v] \notin k.pids
        BY <1>1, <2>1, Zenon DEF Unread, Complete
      <3>2. PICK m \in queue : From(m, k)
        BY <1>8, <3>1, Zenon
      <3>3. m \in Unread(pid[v]) /\ m.name = name
        BY <1>9, <2>1, <3>1, <3>2, Zenon DEF Unread, Complete
      <3>4. QED
        BY <1>10, <3>3, Zenon
    <2>2. QED
      BY <1>1, <1>10, <2>1, Zenon DEF InStep
  <1>11. ASSUME NEW m \in queue, m.name = name, m.val = truth[name], ToApply(m, v),
                \A k \in queue : k.name = name => k.id <= m.id
         PROVE  InStep(v, name)'
    <2>1. PICK k \in queue' : From(m, k)
      BY <1>8, Zenon
    <2>2. pid'[v] \notin k.pids
      BY <1>1, <1>9, <1>11, <2>1, Zenon DEF ToApply
    <2>3. Old(k)' \subseteq Old(m)
      <3>1. Old(k)' = k.pids \ Pids(Workers) /\ p \in Pids(Workers)
        BY <1>1, Zenon DEF Old, Pids
      <3>2. QED
        BY <1>9, <2>1, <3>1, Zenon DEF Old
    <2>4. Gap(m, v) \subseteq Gap(k, v)'
      <3> SUFFICES ASSUME NEW u \in Gap(m, v) PROVE u \in Gap(k, v)'
        BY Zenon
      <3>1. /\ u \in Workers \ {v} /\ pid[u] \notin m.pids
            /\ phase[u] = "down" \/ v \in waiting[u]
        BY Zenon DEF Gap
      <3>2. u # x
        BY <1>1, <1>3, <3>1, Zenon
      <3>3. pid[u] # p
        BY <1>1, <3>1, <3>2, Zenon DEF PidInv
      <3>4. pid[u] \notin k.pids
        BY <1>9, <2>1, <3>1, <3>3, Zenon
      <3>5. QED
        BY <1>1, <3>1, <3>2, <3>4, Zenon DEF Gap
    <2>5. ToApply(k, v)'
      BY <1>4, <1>11, <2>2, <2>3, <2>4, ToApplyKept, Zenon
    <2>6. \A j \in queue' : j.name = name => j.id <= k.id
      <3> SUFFICES ASSUME NEW j \in queue', j.name = name PROVE j.id <= k.id
        BY Zenon
      <3>1. PICK i \in queue : From(i, j)
        BY <1>8, Zenon
      <3>2. QED
        BY <1>9, <1>11, <2>1, <3>1, Zenon
    <2>7. k.name = name /\ k.val = truth'[name]
      BY <1>1, <1>9, <1>11, <2>1, Zenon
    <2>8. QED
      BY <2>5, <2>6, <2>7, Zenon DEF InStep
  <1>12. QED
    BY <1>4, <1>10, <1>11, Zenon DEF InStep

\* A worker that dies changes nothing for the others.
LEMMA CrashSync ==
    ASSUME TypeOK, TypeOK', PidInv, SleepInv, SyncInv, NEW x \in Workers, Crash(x)
    PROVE  SyncInv'
  <1>0. /\ phase \in [Workers -> {"down", "sleep", "up"}]
        /\ waiting \in [Workers -> SUBSET Workers]
        /\ conf \in [Workers -> [Names -> V]] /\ known \in [Workers -> SUBSET Names]
    BY Types, Zenon
  <1>1. /\ UNCHANGED <<version, pid, lates, truth, unsynced>>
        /\ Up' = Up \ {x} /\ phase' = [phase EXCEPT ![x] = "down"]
        /\ waiting' = [v \in Workers |-> IF v = x THEN {} ELSE waiting[v] \ {x}]
        /\ \A v \in Workers \ {x} : conf'[v] = conf[v] /\ known'[v] = known[v]
    BY <1>0, Zenon DEF Crash, Up
  <1>2. PICK K : ReadBy(x, K)
    BY ReadForm, ZenonT(30)
  <1>3. ASSUME lates = 0, NEW v \in Up \ {x}, NEW name \in known[v] \ unsynced
        PROVE  InStep(v, name)'
    <2>1. InStep(v, name) /\ v \in Workers \ {x} /\ name \in Names
      BY <1>0, <1>3, Zenon DEF SyncInv, Up
    <2>2. \A u \in Workers \ {v} : phase[u] = "down" \/ v \in waiting[u]
                                    => phase'[u] = "down" \/ v \in waiting'[u]
      BY <1>0, <1>1, <2>1, Zenon
    <2>3. \A k \in queue' : k.id <= version
      BY <1>1, TypesAfter
    <2>4. /\ UNCHANGED pid /\ x # v /\ v \in Up
          /\ conf'[v][name] = conf[v][name] /\ truth'[name] = truth[name]
      BY <1>1, <2>1, Zenon
    <2>5. QED
      BY <1>2, <2>1, <2>2, <2>3, <2>4, ReadKeeps, ZenonT(30)
  <1>4. QED
    BY <1>1, <1>3, Zenon DEF SyncInv, Up

\* The workers stay in step.
LEMMA SyncStep ==
    ASSUME TypeOK, TypeOK', PidInv, SleepInv, QueueInv, SlotInv, SyncInv, [Next]_vars
    PROVE  SyncInv'
  <1>1. ASSUME UNCHANGED vars PROVE SyncInv'
    <2>1. UNCHANGED <<queue, lates, phase, pid, waiting, conf, truth, unsynced, known>>
      BY <1>1, Zenon DEF vars, shared, local, env, ghost
    <2>2. /\ Up' = Up /\ \A v : Unread(pid[v])' = Unread(pid[v])
          /\ \A m, v : Gap(m, v)' = Gap(m, v) /\ Old(m)' = Old(m)
      BY <2>1, Zenon DEF Up, Unread, Complete, Gap, Old, Pids
    <2>3. \A m, v : ToApply(m, v)' <=> ToApply(m, v)
      BY <2>1, <2>2, Zenon DEF ToApply
    <2>4. \A v, name : InStep(v, name)' <=> InStep(v, name)
      BY <2>1, <2>2, <2>3, Zenon DEF InStep
    <2>5. QED
      BY <2>1, <2>2, <2>4, Zenon DEF SyncInv
  <1>2. QED
    BY <1>1, Steps, StartSync, WakeSync, CrashSync, HandlesSync, Zenon

----------------------------------------------------------------------------
(* Theorems *)

\* The invariant holds before the first worker is forked.
LEMMA InitInv == ASSUME Init PROVE IInv
  <1>1. /\ queue = {} /\ version = 0 /\ status = <<>>
        /\ phase = [w \in Workers |-> "down"] /\ pid = [w \in Workers |-> 0]
        /\ waiting = [w \in Workers |-> {}] /\ known = [w \in Workers |-> {}]
        /\ truth = [n \in Names |-> Initial]
    BY Zenon DEF Init
  <1>2. Up = {} /\ Sleeping = {}
    BY <1>1, Zenon DEF Up, Sleeping
  <1>3. TypeOK
    BY NAssumption DEF Init, TypeOK
  <1>4. ReadersFit /\ PidInv /\ QueueInv
    BY <1>1, <1>2, Zenon DEF ReadersFit, PidInv, QueueInv
  <1>5. SleepInv
    BY <1>1, <1>2, Zenon DEF SleepInv
  <1>6. SlotInv
    BY <1>1, <1>2 DEF SlotInv, Distinct
  <1>7. SyncInv
    BY <1>2, Zenon DEF SyncInv
  <1>8. QED
    BY <1>3, <1>4, <1>5, <1>6, <1>7, Zenon DEF IInv

\* Every step keeps it.
LEMMA NextInv == ASSUME IInv, [Next]_vars PROVE IInv'
  <1>1. /\ TypeOK /\ ReadersFit /\ PidInv /\ QueueInv /\ SleepInv
        /\ SlotInv /\ SyncInv /\ Distinct(status)
    BY Zenon DEF IInv, SlotInv
  <1>2. TypeOK'
    BY <1>1, TypeStep, Zenon
  <1>3. PidInv' /\ ReadersFit' /\ QueueInv' /\ SleepInv'
    BY <1>1, <1>2, PidStep, ReadersStep, QueueStep, SleepStep, Zenon
  <1>4. SlotInv' /\ SyncInv'
    BY <1>1, <1>2, SlotStep, SyncStep, Zenon
  <1>5. QED
    BY <1>2, <1>3, <1>4, Zenon DEF IInv

(* The inductive invariant of the dynamic upstreams: every new worker that *)
(* sleeps will find the slot of a dead worker, and a message that a worker *)
(* has still to apply stays in the queue.                                  *)
THEOREM Invariance == Spec => []IInv
  <1>1. Init => IInv
    BY InitInv, Zenon
  <1>2. IInv /\ [Next]_vars => IInv'
    BY NextInv, Zenon
  <1>3. QED
    BY <1>1, <1>2, PTL DEF Spec

\* The queue, the slots and the tables keep their types.
THEOREM TypeCorrect == Spec => []TypeOK
  <1>1. IInv => TypeOK
    BY Zenon DEF IInv
  <1>2. QED
    BY <1>1, Invariance, PTL

(* No reader writes past the end of a message's array of readers,          *)
(* whatever number of workers come and go.                                 *)
THEOREM ReadersFitInArray == Spec => []ReadersFit
  <1>1. IInv => ReadersFit
    BY Zenon DEF IInv
  <1>2. QED
    BY <1>1, Invariance, PTL

(* A worker without an unread message about a name has the content that    *)
(* the last acknowledged change gave it: no message is freed before each   *)
(* worker that has to apply it has done so.                                *)
THEOREM WorkersInSync == Spec => []SurvivorsInSync
  <1>1. IInv => SurvivorsInSync
    <2> SUFFICES ASSUME IInv, lates = 0, NEW w \in Workers, NEW name \in known[w] \ unsynced,
                        phase[w] = "up"
                 PROVE  \/ \E m \in Unread(pid[w]) : m.name = name
                        \/ conf[w][name] = truth[name]
      BY Zenon DEF SurvivorsInSync
    <2>1. TypeOK /\ PidInv /\ w \in Up /\ InStep(w, name)
      BY Zenon DEF IInv, SyncInv, Up
    <2>2. ASSUME NEW m \in queue, m.name = name, ToApply(m, w)
          PROVE  \E k \in Unread(pid[w]) : k.name = name
      BY <2>1, <2>2, NotComplete, Zenon
    <2>3. QED
      BY <2>1, <2>2, Zenon DEF InStep
  <1>2. QED
    BY <1>1, Invariance, PTL
============================================================================
