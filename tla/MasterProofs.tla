---------------------------- MODULE MasterProofs ----------------------------
(***************************************************************************)
(* Proofs about Master, for any number of slots, pids and children, and    *)
(* any number of signals, deaths and failing forks: first that the process *)
(* table agrees with the kernel, then that the master, when it ends,       *)
(* leaves no child behind and has killed none it did not ask to leave.     *)
(***************************************************************************)
EXTENDS Master, TLAPS

\* Slot s is in use and names some pid.
Named(s) == s < last /\ slot[s].pid # NoPid

\* No pid is in two slots.
Unique ==
    \A s, t \in Slots : Named(s) /\ Named(t) /\ slot[s].pid = slot[t].pid => s = t

\* A slot is marked exited exactly when the kernel has forgotten its pid.
Agree ==
    \A s \in Slots : Named(s) => (slot[s].exited <=> os[slot[s].pid].st = "none")

\* Every existing child is in the table.
Found == \A p \in Pids : os[p].st # "none" => \E s \in Slots : Named(s) /\ slot[s].pid = p

\* The loops stay inside what they run over.
Index == /\ pc = "start" => i \in 1..Len(Kinds)
         /\ pc = "reap" => i < last

Table == Unique /\ Agree /\ Found
IInv == TypeOK /\ Table /\ Index

\* The types of the table and of the kernel's view.
TableTypes == /\ slot \in [Slots -> Slot]
              /\ last \in 0..MaxProcesses
              /\ os \in [Pids -> Proc]

-----------------------------------------------------------------------------
\* The rest of the loop is one of its parts, or its top.
LEMMA FromType ==
    ASSUME NEW n \in 1..5, NEW f
    PROVE  From(n, f) \in {"top", "reconfigure", "restart", "reopen", "change_binary", "noaccept"}
<1> DEFINE due == {m \in n..5 : Parts[m] \in f}
<1>1. CASE due = {}
  BY <1>1, Zenon DEF From
<1>2. CASE due # {}
  <2>0. PICK e : e \in due
    BY <1>2, Zenon
  <2>1. due \subseteq 1..5
    OBVIOUS
  <2>2. \E m \in due : \A k \in due : m <= k
    <3> HIDE DEF due
    <3>1. CASE 1 \in due
      BY <3>1, <2>1
    <3>2. CASE 1 \notin due /\ 2 \in due
      BY <3>2, <2>1
    <3>3. CASE 1 \notin due /\ 2 \notin due /\ 3 \in due
      BY <3>3, <2>1
    <3>4. CASE 1 \notin due /\ 2 \notin due /\ 3 \notin due /\ 4 \in due
      BY <3>4, <2>1
    <3>5. CASE due \subseteq {5}
      BY <3>5, <2>0, <2>1
    <3> QED
      BY <3>1, <3>2, <3>3, <3>4, <3>5, <2>1
  <2>3. (CHOOSE m \in due : \A k \in due : m <= k) \in 1..5
    <3> HIDE DEF due
    <3> QED BY ZenonT(40), <2>1, <2>2
  <2>4. From(n, f) = Parts[CHOOSE m \in due : \A k \in due : m <= k]
    BY <1>2, Zenon DEF From
  <2>5. \A x \in 1..5 : Parts[x] \in {"reconfigure", "restart", "reopen", "change_binary",
                                     "noaccept"}
    BY DEF Parts
  <2> HIDE DEF due
  <2> QED
    BY ZenonT(40), <2>3, <2>4, <2>5
<1> QED
  BY <1>1, <1>2, Zenon

-----------------------------------------------------------------------------
(* What the operations do to the table *)

\* A new child in a free slot (ngx_spawn_process).
LEMMA SpawnTable ==
    ASSUME TableTypes, Table, NEW p \in FreePids, NEW c \in Slot, ~c.exited, SpawnedAs(p, c)
    PROVE  TableTypes' /\ Table'
<1> USE MasterAssumption
<1>1. PICK s \in Slots :
        /\ IsFreeSlot(s)
        /\ slot' = [slot EXCEPT ![s] = [c EXCEPT !.pid = p]]
        /\ os' = [os EXCEPT ![p] = Born(c.kind)]
        /\ last' = IF s = last THEN last + 1 ELSE last
  BY ZenonT(40) DEF SpawnedAs
<1>2. /\ p \in Pids
      /\ os[p].st = "none"
      /\ \A t \in Slots : t < last => slot[t].pid # p
  BY Zenon DEF FreePids
<1>3. /\ s \in 0..last
      /\ s < last => slot[s].pid = NoPid
  BY <1>1, Zenon DEF IsFreeSlot
<1>4. /\ slot'[s].pid = p /\ ~slot'[s].exited
      /\ \A t \in Slots : t # s => slot'[t] = slot[t]
  BY <1>1, Zenon DEF TableTypes, Slot
<1>5. /\ os'[p].st = "run"
      /\ \A q \in Pids : q # p => os'[q] = os[q]
  BY <1>1, <1>2, Zenon DEF TableTypes, Born, NoProc, Proc
<1>6. /\ last' \in 0..MaxProcesses
      /\ \A t \in Slots : t < last' <=> t < last \/ t = s
  BY SMTT(40), <1>1, <1>3 DEF TableTypes, Slots
<1>7. TableTypes'
  <2>1. [c EXCEPT !.pid = p] \in Slot
    BY <1>2, Zenon DEF Slot
  <2>2. Born(c.kind) \in Proc
    BY ZenonT(40) DEF Born, NoProc, Proc, Slot, Running
  <2> QED
    BY ZenonT(40), <1>1, <1>6, <2>1, <2>2 DEF TableTypes
<1>8. \A t \in Slots : (Named(t))' <=> Named(t) \/ t = s
  BY <1>2, <1>3, <1>4, <1>6, Zenon DEF Named
<1>9. Unique'
  BY <1>2, <1>4, <1>8, Zenon DEF Unique, Table, Named
<1>10. Agree'
  <2> SUFFICES ASSUME NEW t \in Slots, (Named(t))'
               PROVE  slot'[t].exited <=> os'[slot'[t].pid].st = "none"
    BY Zenon DEF Agree
  <2>1. CASE t = s
    BY <2>1, <1>4, <1>5, Zenon
  <2>2. CASE t # s
    <3>1. Named(t) /\ slot'[t] = slot[t] /\ slot[t].pid # p
      BY <2>2, <1>2, <1>4, <1>8, Zenon DEF Named
    <3>2. slot[t].pid \in Pids
      BY <3>1, Zenon DEF Named, TableTypes, Slot
    <3> QED
      BY SMTT(40), <3>1, <3>2, <1>5 DEF Agree, Table
  <2> QED
    BY <2>1, <2>2, Zenon
<1>11. Found'
  <2> SUFFICES ASSUME NEW q \in Pids, os'[q].st # "none"
               PROVE  \E t \in Slots : (Named(t))' /\ slot'[t].pid = q
    BY Zenon DEF Found
  <2>1. CASE q = p
    BY <2>1, <1>4, <1>8, Zenon
  <2>2. CASE q # p
    <3>1. PICK t \in Slots : Named(t) /\ slot[t].pid = q
      BY <2>2, <1>5, Zenon DEF Found, Table
    <3>2. t # s
      BY <3>1, <1>3, <1>2, Zenon DEF Named
    <3> QED
      BY <3>1, <3>2, <1>4, <1>8, Zenon
  <2> QED
    BY <2>1, <2>2, Zenon
<1> QED
  BY <1>7, <1>9, <1>10, <1>11, Zenon DEF Table

\* A child in the slot of one that died (ngx_spawn_process, respawn >= 0).
LEMMA RespawnTable ==
    ASSUME TableTypes, Table, gen \in Nat, NEW s \in Slots, Named(s), slot[s].exited,
           SpawnAgain(s)
    PROVE  TableTypes' /\ Table'
<1> USE MasterAssumption
<1>1. CASE ForkFails
  BY <1>1, Zenon DEF ForkFails, TableTypes, Table, Unique, Agree, Found, Named
<1>2. ASSUME NEW p \in FreePids,
             slot' = [slot EXCEPT ![s].pid = p, ![s].exited = FALSE, ![s].gen = gen],
             os' = [os EXCEPT ![p] = Born(slot[s].kind)],
             last' = last
      PROVE  TableTypes' /\ Table'
  <2>1. /\ p \in Pids
        /\ os[p].st = "none"
        /\ \A t \in Slots : t < last => slot[t].pid # p
    BY Zenon DEF FreePids
  <2>2. /\ slot'[s].pid = p /\ ~slot'[s].exited
        /\ \A t \in Slots : t # s => slot'[t] = slot[t]
    BY <1>2 DEF TableTypes, Slot
  <2>3. /\ os'[p].st = "run"
        /\ \A q \in Pids : q # p => os'[q] = os[q]
    BY <1>2, <2>1, Zenon DEF TableTypes, Born, NoProc, Proc
  <2>4. TableTypes'
    <3>1. slot' \in [Slots -> Slot]
      BY <1>2, <2>1 DEF TableTypes, Slot
    <3>2. Born(slot[s].kind) \in Proc
      BY ZenonT(40) DEF Born, NoProc, Proc, Slot, Running, TableTypes
    <3> QED
      BY ZenonT(40), <1>2, <3>1, <3>2 DEF TableTypes
  <2>5. \A t \in Slots : (Named(t))' <=> Named(t)
    BY ZenonT(40), <1>2, <2>1, <2>2 DEF Named
  <2>6. Unique'
    BY <2>1, <2>2, <2>5 DEF Unique, Table, Named
  <2>7. Agree'
    <3> SUFFICES ASSUME NEW t \in Slots, (Named(t))'
                 PROVE  slot'[t].exited <=> os'[slot'[t].pid].st = "none"
      BY Zenon DEF Agree
    <3>1. CASE t = s
      BY <3>1, <2>2, <2>3, Zenon
    <3>2. CASE t # s
      <4>1. Named(t) /\ slot'[t] = slot[t] /\ slot[t].pid # p
        BY <3>2, <2>1, <2>2, <2>5, Zenon DEF Named
      <4>2. slot[t].pid \in Pids
        BY <4>1, Zenon DEF Named, TableTypes, Slot
      <4> QED
        BY SMTT(40), <4>1, <4>2, <2>3 DEF Agree, Table
    <3> QED
      BY <3>1, <3>2, Zenon
  <2>8. Found'
    <3> SUFFICES ASSUME NEW q \in Pids, os'[q].st # "none"
                 PROVE  \E t \in Slots : (Named(t))' /\ slot'[t].pid = q
      BY Zenon DEF Found
    <3>1. CASE q = p
      BY <3>1, <2>2, <2>5, Zenon
    <3>2. CASE q # p
      <4>1. PICK t \in Slots : Named(t) /\ slot[t].pid = q
        BY <3>2, <2>3, Zenon DEF Found, Table
      <4>2. t # s
        BY <4>1, <3>2, <2>3, <1>2 DEF Agree, Table
      <4> QED
        BY <4>1, <4>2, <2>2, <2>5, Zenon
    <3> QED
      BY <3>1, <3>2, Zenon
  <2> QED
    BY <2>4, <2>6, <2>7, <2>8, Zenon DEF Table
<1> QED
  BY ZenonT(40), <1>1, <1>2 DEF SpawnAgain

\* A slot that was waited for is freed (the end of the loop body of
\* ngx_reap_children).
LEMMA RemoveTable ==
    ASSUME TableTypes, Table, NEW s \in Slots, Named(s), slot[s].exited, RemoveSlot(s), os' = os
    PROVE  TableTypes' /\ Table'
<1> USE MasterAssumption
<1>1. last' \in 0..MaxProcesses /\ last' <= last
  BY DEF RemoveSlot, TableTypes, Slots, Named
<1>2. TableTypes'
  <2>1. slot' \in [Slots -> Slot]
    <3>1. CASE s = last - 1
      BY <3>1, Zenon DEF RemoveSlot, TableTypes
    <3>2. CASE s # last - 1
      <4>1. [slot[s] EXCEPT !.pid = NoPid] \in Slot
        BY SMTT(40) DEF TableTypes, Slot
      <4>2. slot' = [slot EXCEPT ![s] = [slot[s] EXCEPT !.pid = NoPid]]
        BY <3>2, Zenon DEF RemoveSlot
      <4> QED
        BY <4>1, <4>2, Zenon DEF TableTypes
    <3> QED
      BY <3>1, <3>2, Zenon
  <2> QED
    BY <1>1, <2>1, Zenon DEF TableTypes
<1>3. \A t \in Slots : /\ slot'[t].exited = slot[t].exited
                       /\ (Named(t))' => slot'[t].pid = slot[t].pid
                       /\ (Named(t))' <=> Named(t) /\ t # s
  <2>1. CASE s = last - 1
    BY <2>1 DEF RemoveSlot, TableTypes, Slots, Named
  <2>2. CASE s # last - 1
    <3>1. /\ last' = last
          /\ slot'[s].pid = NoPid /\ slot'[s].exited = slot[s].exited
          /\ \A t \in Slots : t # s => slot'[t] = slot[t]
      BY ZenonT(40), <2>2 DEF RemoveSlot, TableTypes, Slot
    <3> QED
      BY ZenonT(40), <3>1 DEF Named
  <2> QED
    BY <2>1, <2>2, Zenon
<1>4. Unique'
  BY <1>3 DEF Unique, Table
<1>5. Agree'
  BY <1>3, Zenon DEF Agree, Table
<1>6. Found'
  <2> SUFFICES ASSUME NEW q \in Pids, os[q].st # "none"
               PROVE  \E t \in Slots : (Named(t))' /\ slot'[t].pid = q
    BY Zenon DEF Found
  <2>1. PICK t \in Slots : Named(t) /\ slot[t].pid = q
    BY Zenon DEF Found, Table
  <2>2. t # s
    BY <2>1, Zenon DEF Agree, Table
  <2> QED
    BY <2>1, <2>2, <1>3, Zenon
<1> QED
  BY <1>2, <1>4, <1>5, <1>6, Zenon DEF Table

\* Nothing the table's part of the invariant looks at changes.
LEMMA SameTable ==
    ASSUME TableTypes, Table, TableTypes', last' = last,
           \A s \in Slots : slot'[s].pid = slot[s].pid /\ slot'[s].exited = slot[s].exited,
           \A p \in Pids : os'[p].st = "none" <=> os[p].st = "none"
    PROVE  Table'
<1>1. \A t \in Slots : (Named(t))' <=> Named(t)
  BY Zenon DEF Named
<1>2. \A t \in Slots : Named(t) => slot[t].pid \in Pids
  BY Zenon DEF Named, TableTypes, Slot
<1>3. Unique'
  BY <1>1, Zenon DEF Unique, Table
<1>4. Agree'
  BY <1>1, <1>2, Zenon DEF Agree, Table
<1>5. Found'
  BY <1>1 DEF Found, Table
<1> QED
  BY <1>3, <1>4, <1>5, Zenon DEF Table

\* Telling the children to leave, or killing them (ngx_signal_worker_processes).
LEMMA SignalTable ==
    ASSUME TableTypes, Table, last' = last, NEW f, NEW sig \in {"QUIT", "TERM", "KILL", "USR1"},
           SignalWorkers(sig, f)
    PROVE  TableTypes' /\ Table'
<1> DEFINE used == {s \in Slots : s < last /\ Addressed(slot[s], sig)}
           hit  == {slot[s].pid : s \in {t \in used : ~slot[t].exited}}
<1>1. /\ slot' = [s \in Slots |-> IF s < last THEN SignalSlot(slot[s], sig) ELSE slot[s]]
      /\ os' = [p \in Pids |-> IF p \in hit THEN Deliver(os[p], sig) ELSE os[p]]
  BY Zenon DEF SignalWorkers
<1> HIDE DEF hit
<1>2. ASSUME NEW c \in Slot
      PROVE  /\ SignalSlot(c, sig) \in Slot
             /\ SignalSlot(c, sig).pid = c.pid /\ SignalSlot(c, sig).exited = c.exited
  <2>1. (c.just /\ (c.detached \/ c.pid = NoPid)) \in BOOLEAN
    BY Zenon
  <2>2. (IF Addressed(c, sig) THEN ~c.exited /\ (c.exiting \/ sig # "USR1") ELSE c.exiting) \in BOOLEAN
    BY ZenonT(40) DEF Slot
  <2> QED
    BY ZenonT(40), <2>1, <2>2 DEF SignalSlot, Slot
<1>3. ASSUME NEW o \in Proc
      PROVE  /\ Deliver(o, sig) \in Proc
             /\ Deliver(o, sig).st = "none" <=> o.st = "none"
  <2>1. CASE o.st \notin Running
    BY <2>1, Zenon DEF Deliver
  <2>2. CASE o.st \in Running /\ sig = "KILL"
    BY <2>2, Zenon DEF Deliver, Proc, Running, Zombie
  <2>3. CASE o.st \in Running /\ sig = "USR1"
    BY <2>3, Zenon DEF Deliver
  <2>4. CASE o.st \in Running /\ sig \in {"QUIT", "TERM"}
    BY <2>4, Zenon DEF Deliver, Proc, Running, Zombie
  <2> QED
    BY <2>1, <2>2, <2>3, <2>4, Zenon
<1>4. TableTypes'
  BY <1>1, <1>2, <1>3, Zenon DEF TableTypes
<1>5. \A s \in Slots : slot'[s].pid = slot[s].pid /\ slot'[s].exited = slot[s].exited
  BY <1>1, <1>2, Zenon DEF TableTypes
<1>6. \A p \in Pids : os'[p].st = "none" <=> os[p].st = "none"
  BY <1>1, <1>3, Zenon DEF TableTypes
<1> QED
  BY <1>4, <1>5, <1>6, SameTable, Zenon

\* The zombies are waited for (ngx_process_get_status).
LEMMA WaitTable ==
    ASSUME TableTypes, Table, last' = last,
           slot' = [s \in Slots |-> IF s < last THEN Waited(slot[s]) ELSE slot[s]],
           os' = [p \in Pids |-> IF os[p].st \in Zombie THEN NoProc ELSE os[p]]
    PROVE  TableTypes' /\ Table'
<1> USE MasterAssumption
<1>1. ASSUME NEW c \in Slot
      PROVE  /\ Waited(c) \in Slot
             /\ Waited(c).pid = c.pid
             /\ Waited(c).exited <=> c.exited \/ (c.pid \in Pids /\ os[c.pid].st \in Zombie)
  <2>1. CASE c.pid \in Pids /\ ~c.exited /\ os[c.pid].st \in Zombie
    <3>1. (c.respawn /\ os[c.pid].st # "fatal") \in BOOLEAN
      BY Zenon
    <3> QED
      BY ZenonT(40), <2>1, <3>1 DEF Waited, Slot
  <2>2. CASE ~(c.pid \in Pids /\ ~c.exited /\ os[c.pid].st \in Zombie)
    BY ZenonT(40), <2>2 DEF Waited
  <2> QED
    BY <2>1, <2>2, Zenon
<1>2. NoProc \in Proc /\ NoProc.st = "none"
  BY Zenon DEF NoProc, Proc, Kind
<1>3. TableTypes'
  BY <1>1, <1>2, Zenon DEF TableTypes
<1>4. \A s \in Slots : slot'[s].pid = slot[s].pid
  BY <1>1, Zenon DEF TableTypes
<1>5. \A s \in Slots : (Named(s))' <=> Named(s)
  BY <1>4, Zenon DEF Named
<1>6. \A p \in Pids : os'[p].st = "none" <=> os[p].st \in Zombie \cup {"none"}
  BY <1>2, Zenon DEF Zombie
<1>7. Unique'
  BY SMTT(40), <1>4, <1>5 DEF Unique, Table
<1>8. Agree'
  <2> SUFFICES ASSUME NEW t \in Slots, Named(t)
               PROVE  slot'[t].exited <=> os'[slot[t].pid].st = "none"
    BY <1>4, <1>5, Zenon DEF Agree
  <2>1. slot[t].pid \in Pids /\ slot[t] \in Slot /\ slot'[t] = Waited(slot[t])
    BY Zenon DEF Named, TableTypes, Slot
  <2>2. slot[t].exited <=> os[slot[t].pid].st = "none"
    BY Zenon DEF Agree, Table
  <2>3. slot'[t].exited <=> slot[t].exited \/ os[slot[t].pid].st \in Zombie
    BY SMTT(40), <2>1, <1>1
  <2> QED
    BY <2>1, <2>2, <2>3, <1>6, Zenon
<1>9. Found'
  BY SMTT(40), <1>4, <1>5, <1>6 DEF Found, Table
<1> QED
  BY <1>3, <1>7, <1>8, <1>9, Zenon DEF Table

\* A child leaves (exit or a signal): it becomes a zombie.
LEMMA DeathTable ==
    ASSUME TableTypes, Table, NEW p \in Pids, os[p].st \in Running, NEW z \in Zombie, Dies(p, z),
           slot' = slot, last' = last
    PROVE  TableTypes' /\ Table'
<1>1. [os[p] EXCEPT !.st = z] \in Proc
  BY Zenon DEF TableTypes, Proc
<1>2. os' = [os EXCEPT ![p] = [os[p] EXCEPT !.st = z]]
  BY Zenon DEF Dies
<1>3. TableTypes'
  BY <1>1, <1>2, Zenon DEF TableTypes
<1>4. \A q \in Pids : os'[q].st = "none" <=> os[q].st = "none"
  BY <1>2, Zenon DEF TableTypes, Proc, Running, Zombie
<1> QED
  BY <1>3, <1>4, SameTable, Zenon

-----------------------------------------------------------------------------
(* The inductive invariant, one step per action *)

\* The types apart from the table.
OtherTypes ==
    /\ pc \in {"start", "top", "suspend", "reap", "dispatch", "reconfigure", "reloaded",
               "restart", "reopen", "change_binary", "noaccept", "exited"}
    /\ flag \subseteq Flags
    /\ newbin \in Pids \cup {NoBinary, FailedBinary}
    /\ live \in BOOLEAN
    /\ delay \in Nat
    /\ sigio \in Nat
    /\ timer \in BOOLEAN
    /\ gen \in Nat
    /\ i \in Nat
    /\ start \in [reload : BOOLEAN, then : {"top", "reloaded", "restarted"}]
    /\ pend \subseteq Admin \cup {"CHLD", "ALRM"}
    /\ sent \in Nat /\ forkFails \in Nat /\ deaths \in Nat
    /\ retired \in BOOLEAN

\* TypeOK, the table's types set apart.
LEMMA TypeParts == /\ TypeOK <=> TableTypes /\ OtherTypes
                   /\ TypeOK' <=> TableTypes' /\ OtherTypes'
BY Zenon DEF TypeOK, TableTypes, OtherTypes

\* What ngx_signal_worker_processes does to the flags and pending signals.
LEMMA SignalTypes ==
    ASSUME NEW f \in SUBSET Flags, NEW sig, pend \subseteq Admin \cup {"CHLD", "ALRM"},
           SignalWorkers(sig, f)
    PROVE  flag' \subseteq Flags /\ pend' \subseteq Admin \cup {"CHLD", "ALRM"}
<1>1. flag' \in {f, f \cup {"reap"}}
  BY Zenon DEF SignalWorkers
<1>2. pend' \in {pend, pend \cup {"CHLD"}}
  BY ZenonT(40) DEF SignalWorkers
<1> QED
  BY <1>1, <1>2, Zenon DEF Flags

\* A step of a part of the loop that tells the children something.
LEMMA SignalStep ==
    ASSUME IInv, NEW f \in SUBSET Flags, NEW sig \in {"QUIT", "TERM", "KILL", "USR1"},
           SignalWorkers(sig, f), last' = last
    PROVE  TableTypes' /\ Table' /\ flag' \subseteq Flags
           /\ pend' \subseteq Admin \cup {"CHLD", "ALRM"}
<1>1. TableTypes /\ Table /\ OtherTypes
  BY TypeParts, Zenon DEF IInv
<1>2. TableTypes' /\ Table'
  BY <1>1, SignalTable, Zenon
<1>3. flag' \subseteq Flags /\ pend' \subseteq Admin \cup {"CHLD", "ALRM"}
  BY <1>1, SignalTypes, Zenon DEF OtherTypes
<1> QED
  BY <1>2, <1>3, Zenon

\* The table is untouched.
LEMMA QuietTable ==
    ASSUME TableTypes, Table, UNCHANGED <<slot, last, os>>
    PROVE  TableTypes' /\ Table'
<1>1. TableTypes'
  BY Zenon DEF TableTypes
<1> QED
  BY <1>1, SameTable, Zenon

\* The initial states satisfy the invariant.
LEMMA InitInv == Init => IInv
<1> SUFFICES ASSUME Init PROVE IInv
  BY Zenon
<1> USE MasterAssumption
<1>1. TableTypes
  <2>1. FreeSlot \in Slot
    BY Zenon DEF FreeSlot, Slot, Kind
  <2>2. NoProc \in Proc
    BY Zenon DEF NoProc, Proc, Kind
  <2> QED
    BY <2>1, <2>2 DEF Init, TableTypes
<1>2. OtherTypes
  BY ZenonT(40) DEF Init, OtherTypes, Flags
<1>3. \A s \in Slots : ~Named(s)
  BY DEF Init, Named, Slots
<1>4. Found
  BY Zenon DEF Init, Found, NoProc
<1>5. Table
  BY <1>3, <1>4, Zenon DEF Table, Unique, Agree
<1>6. Index
  BY DEF Init, Index
<1> QED
  BY <1>1, <1>2, <1>5, <1>6, TypeParts, Zenon DEF IInv

\* Starting a child preserves the invariant.
LEMMA StartOneInv == ASSUME IInv, StartOne PROVE IInv'
<1> USE MasterAssumption
<1>1. TableTypes /\ OtherTypes /\ Table /\ pc = "start" /\ i \in 1..Len(Kinds)
  BY TypeParts, Zenon DEF IInv, Index, StartOne
<1>2. TableTypes' /\ Table' /\ forkFails' \in Nat
  <2>1. CASE \E p \in FreePids : SpawnedAs(p, StartRecord(Kinds[i], start.reload))
    <3>1. PICK p \in FreePids : SpawnedAs(p, StartRecord(Kinds[i], start.reload))
      BY <2>1, Zenon
    <3>2. Kinds[i] \in Kind
      BY <1>1
    <3>3. start.reload \in BOOLEAN /\ gen \in Nat
      BY <1>1, Zenon DEF OtherTypes
    <3>4. (Kinds[i] = "worker" \/ (Kinds[i] = "proc_off" /\ start.reload)) \in BOOLEAN
      BY Zenon
    <3>5. /\ StartRecord(Kinds[i], start.reload) \in Slot
          /\ ~StartRecord(Kinds[i], start.reload).exited
      BY ZenonT(40), <3>2, <3>3, <3>4 DEF StartRecord, FreeSlot, Slot
    <3>6. TableTypes' /\ Table'
      BY <1>1, <3>1, <3>5, SpawnTable, Zenon
    <3> QED
      BY <3>1, <3>6, <1>1, Zenon DEF SpawnedAs, OtherTypes
  <2>2. CASE NotSpawned
    <3>1. UNCHANGED <<slot, last, os>>
      BY <2>2, Zenon DEF NotSpawned, ForkFails, NoSlotLeft
    <3>2. forkFails' \in Nat
      BY <2>2, <1>1 DEF NotSpawned, ForkFails, NoSlotLeft, OtherTypes
    <3> QED
      BY <3>1, <3>2, <1>1, QuietTable, Zenon
  <2> QED
    BY <2>1, <2>2, Zenon DEF StartOne
<1>3. CASE i < Len(Kinds)
  <2>1. i' = i + 1 /\ pc' = pc
    BY <1>3, Zenon DEF StartOne
  <2>2. OtherTypes'
    BY <1>1, <1>2, <2>1 DEF OtherTypes, StartOne
  <2>3. Index'
    BY SMTT(40), <1>1, <1>3, <2>1 DEF Index
  <2> QED
    BY <1>2, <2>2, <2>3, TypeParts, Zenon DEF IInv
<1>4. CASE ~(i < Len(Kinds))
  <2>1. i' = 1 /\ pc' = (IF start.then = "restarted" THEN From(3, flag) ELSE start.then)
    BY <1>4, Zenon DEF StartOne
  <2>2. pc' \in {"top", "reconfigure", "restart", "reopen", "change_binary", "noaccept", "reloaded"}
    <3>1. From(3, flag) \in {"top", "reconfigure", "restart", "reopen", "change_binary", "noaccept"}
      BY FromType
    <3>2. start.then \in {"top", "reloaded", "restarted"}
      BY <1>1, Zenon DEF OtherTypes
    <3> QED
      BY <2>1, <3>1, <3>2, Zenon
  <2>3. OtherTypes'
    BY SMTT(40), <1>1, <1>2, <2>1, <2>2 DEF OtherTypes, StartOne
  <2>4. Index'
    BY <2>2, Zenon DEF Index
  <2> QED
    BY <1>2, <2>3, <2>4, TypeParts, Zenon DEF IInv
<1> QED
  BY <1>3, <1>4, Zenon

\* Waking up and running the signal handlers preserves the invariant.
LEMMA SuspendInv == ASSUME IInv, Suspend PROVE IInv'
<1> USE MasterAssumption
<1>1. TableTypes /\ OtherTypes /\ Table
  BY TypeParts, Zenon DEF IInv
<1>2. TableTypes' /\ Table'
  <2>1. CASE "CHLD" \in pend
    BY <2>1, <1>1, WaitTable, Zenon DEF Suspend
  <2>2. CASE "CHLD" \notin pend
    BY <2>2, <1>1, QuietTable, Zenon DEF Suspend
  <2> QED
    BY <2>1, <2>2, Zenon
<1> DEFINE f == flag \cup UNION {Raised(sig) : sig \in pend}
<1>3. f \subseteq Flags
  <2>1. \A sig \in Admin \cup {"CHLD", "ALRM"} : Raised(sig) \subseteq Flags
    BY Zenon DEF Raised, AdminSignals, Flags
  <2> QED
    BY SMTT(40), <2>1, <1>1 DEF OtherTypes
<1>4. /\ flag' = f \ {"reap"}
      /\ \/ live' = FALSE /\ i' = 0 /\ pc' = IF last > 0 THEN "reap" ELSE "dispatch"
         \/ pc' = "dispatch" /\ UNCHANGED <<live, i>>
      /\ pend' = {}
      /\ UNCHANGED <<last, newbin, delay, sigio, timer, gen, start, bounds, retired>>
  BY Zenon DEF Suspend
<1> HIDE DEF f
<1>5. OtherTypes'
  <2>1. live' \in BOOLEAN
    BY ZenonT(40), <1>1, <1>4 DEF OtherTypes
  <2>2. pc' \in {"reap", "dispatch"} /\ i' \in Nat
    BY <1>1, <1>4 DEF OtherTypes
  <2>3. flag' \subseteq Flags /\ pend' \subseteq Admin \cup {"CHLD", "ALRM"}
    BY <1>3, <1>4, Zenon
  <2>4. UNCHANGED <<newbin, delay, sigio, timer, gen, start, sent, forkFails, deaths, retired>>
    BY <1>4, Zenon DEF bounds
  <2> QED
    BY <1>1, <2>1, <2>2, <2>3, <2>4, Zenon DEF OtherTypes
<1>6. Index'
  BY <1>1, <1>4, Zenon DEF Index, TableTypes
<1> QED
  BY <1>2, <1>5, <1>6, TypeParts, Zenon DEF IInv

\* Reaping a slot preserves the invariant.
LEMMA ReapSlotInv == ASSUME IInv, ReapSlot PROVE IInv'
<1> USE MasterAssumption
<1>1. TableTypes /\ OtherTypes /\ Table /\ pc = "reap" /\ i < last
  BY TypeParts, Zenon DEF IInv, Index, ReapSlot
<1>2. i \in Slots
  BY SMTT(40), <1>1 DEF TableTypes, OtherTypes, Slots
<1>3. /\ TableTypes' /\ Table'
      /\ flag' \subseteq Flags /\ newbin' \in Pids \cup {NoBinary, FailedBinary}
      /\ live' \in BOOLEAN /\ forkFails' \in Nat
  <2>1. CASE UNCHANGED <<slot, last, newbin, flag, live, os, forkFails>>
    BY <2>1, <1>1, QuietTable, Zenon DEF OtherTypes
  <2>2. CASE /\ slot[i].pid # NoPid /\ slot[i].exited
             /\ SpawnAgain(i)
             /\ UNCHANGED <<newbin, flag>>
    <3>1. Named(i)
      BY <2>2, <1>1, Zenon DEF Named
    <3>2. TableTypes' /\ Table'
      BY <2>2, <3>1, <1>1, <1>2, RespawnTable, Zenon DEF OtherTypes
    <3>3. forkFails' \in Nat
      <4>1. forkFails' = forkFails \/ forkFails' = forkFails + 1
        BY ZenonT(40), <2>2 DEF SpawnAgain, ForkFails
      <4> QED
        BY SMTT(40), <4>1, <1>1 DEF OtherTypes
    <3>4. live' \in BOOLEAN
      BY ZenonT(40), <2>2, <1>1 DEF SpawnAgain, OtherTypes
    <3> QED
      BY <3>2, <3>3, <3>4, <2>2, <1>1, Zenon DEF OtherTypes
  <2>3. CASE /\ slot[i].pid # NoPid /\ slot[i].exited
             /\ EndUpgrade(slot[i])
             /\ RemoveSlot(i)
             /\ UNCHANGED <<live, os, forkFails>>
    <3>1. Named(i)
      BY <2>3, <1>1, Zenon DEF Named
    <3>2. TableTypes' /\ Table'
      BY <2>3, <3>1, <1>1, <1>2, RemoveTable, Zenon
    <3>3. flag' \subseteq Flags /\ newbin' \in Pids \cup {NoBinary, FailedBinary}
      BY ZenonT(40), <2>3, <1>1 DEF EndUpgrade, OtherTypes, Flags
    <3> QED
      BY <3>2, <3>3, <2>3, <1>1, Zenon DEF OtherTypes
  <2>4. CASE /\ live' = (live \/ slot[i].exiting \/ ~slot[i].detached)
             /\ UNCHANGED <<slot, last, newbin, flag, os, forkFails>>
    <3>1. live' \in BOOLEAN
      BY <2>4, Zenon
    <3> QED
      BY <3>1, <2>4, <1>1, QuietTable, Zenon DEF OtherTypes
  <2> QED
    BY <2>1, <2>2, <2>3, <2>4, Zenon DEF ReapSlot
<1>4. CASE i + 1 < last'
  <2>1. i' = i + 1 /\ pc' = pc
    BY <1>4, Zenon DEF ReapSlot
  <2>2. OtherTypes'
    BY <1>1, <1>3, <2>1 DEF OtherTypes, ReapSlot
  <2>3. Index'
    BY <1>1, <1>4, <2>1, Zenon DEF Index
  <2> QED
    BY <1>3, <2>2, <2>3, TypeParts, Zenon DEF IInv
<1>5. CASE ~(i + 1 < last')
  <2>1. i' = 0 /\ pc' = "dispatch"
    BY <1>5, Zenon DEF ReapSlot
  <2>2. OtherTypes'
    BY <1>1, <1>3, <2>1, Zenon DEF OtherTypes, ReapSlot
  <2>3. Index'
    BY <2>1, Zenon DEF Index
  <2> QED
    BY <1>3, <2>2, <2>3, TypeParts, Zenon DEF IInv
<1> QED
  BY <1>4, <1>5, Zenon

\* Starting a new binary preserves the invariant.
LEMMA ChangeBinaryInv == ASSUME IInv, ChangeBinary PROVE IInv'
<1> USE MasterAssumption
<1>1. TableTypes /\ OtherTypes /\ Table
  BY TypeParts, Zenon DEF IInv
<1>2. TableTypes' /\ Table' /\ forkFails' \in Nat /\ newbin' \in Pids \cup {NoBinary, FailedBinary}
  <2> DEFINE c == [FreeSlot EXCEPT !.kind = "binary", !.detached = TRUE, !.gen = gen]
  <2>1. ASSUME NEW p \in FreePids, SpawnedAs(p, c), newbin' = p
        PROVE  TableTypes' /\ Table' /\ forkFails' \in Nat /\ newbin' \in Pids
    <3>1. c \in Slot /\ ~c.exited
      BY ZenonT(40), <1>1 DEF FreeSlot, Slot, OtherTypes
    <3> HIDE DEF c
    <3>2. TableTypes' /\ Table'
      BY <1>1, <2>1, <3>1, SpawnTable, Zenon
    <3>3. p \in Pids
      BY Zenon DEF FreePids
    <3> QED
      BY <3>2, <3>3, <2>1, <1>1, Zenon DEF SpawnedAs, OtherTypes
  <2>2. CASE NotSpawned /\ newbin' = FailedBinary
    <3>1. UNCHANGED <<slot, last, os>>
      BY <2>2, Zenon DEF NotSpawned, ForkFails, NoSlotLeft
    <3>2. forkFails' \in Nat
      BY <2>2, <1>1 DEF NotSpawned, ForkFails, NoSlotLeft, OtherTypes
    <3> QED
      BY <3>1, <3>2, <2>2, <1>1, QuietTable, Zenon
  <2> QED
    BY <2>1, <2>2, Zenon DEF ChangeBinary
<1>3. pc' \in {"top", "reconfigure", "restart", "reopen", "change_binary", "noaccept"}
  BY FromType DEF ChangeBinary
<1>4. OtherTypes'
  BY <1>1, <1>2, <1>3, Zenon DEF OtherTypes, ChangeBinary
<1>5. Index'
  BY <1>3, Zenon DEF Index
<1> QED
  BY <1>2, <1>4, <1>5, TypeParts, Zenon DEF IInv

\* So do the parts that leave the table alone, the timer and the administrator.
LEMMA QuietInv ==
    ASSUME IInv,
           \/ LoopTop \/ Exit \/ GoOn \/ ReconfNewBinary \/ Reconf \/ Restart \/ TimerFires
           \/ \E sig \in Admin : SendSignal(sig)
    PROVE  IInv'
<1> USE MasterAssumption
<1>1. TableTypes /\ OtherTypes /\ Table /\ Index
  BY TypeParts, Zenon DEF IInv
<1>2. UNCHANGED <<slot, last, os>>
  BY Zenon DEF LoopTop, Exit, GoOn, ReconfNewBinary, Reconf, Restart, TimerFires, SendSignal, mvars
<1>3. TableTypes' /\ Table'
  BY <1>1, <1>2, QuietTable, Zenon
<1>4. CASE LoopTop
  <2>1. sigio' \in Nat /\ delay' \in Nat
    BY SMTT(40), <1>1, <1>4 DEF LoopTop, OtherTypes
  <2>2. timer' \in BOOLEAN
    BY ZenonT(40), <1>1, <1>4 DEF LoopTop, OtherTypes
  <2>3. flag' \subseteq Flags
    BY <1>1, <1>4, Zenon DEF LoopTop, OtherTypes
  <2>4. /\ pc' = "suspend"
        /\ UNCHANGED <<newbin, live, gen, i, start, pend, sent, forkFails, deaths, retired>>
    BY <1>4, Zenon DEF LoopTop, bounds
  <2>5. OtherTypes' /\ Index'
    BY <1>1, <2>1, <2>2, <2>3, <2>4, Zenon DEF OtherTypes, Index
  <2> QED
    BY <1>3, <2>5, TypeParts, Zenon DEF IInv
<1>5. CASE Exit
  <2>1. OtherTypes' /\ Index'
    BY <1>1, <1>5, Zenon DEF Exit, OtherTypes, Index, bounds
  <2> QED
    BY <1>3, <2>1, TypeParts, Zenon DEF IInv
<1>6. CASE GoOn
  <2>1. pc' \in {"top", "reconfigure", "restart", "reopen", "change_binary", "noaccept"}
    BY SMTT(40), <1>6, FromType DEF GoOn
  <2>2. OtherTypes' /\ Index'
    BY <1>1, <1>6, <2>1, ZenonT(30) DEF GoOn, OtherTypes, Index, bounds
  <2> QED
    BY <1>3, <2>2, TypeParts, Zenon DEF IInv
<1>7. CASE ReconfNewBinary
  <2>1. OtherTypes'
    BY <1>1, <1>7, Zenon DEF ReconfNewBinary, OtherTypes, bounds
  <2>2. Index'
    BY SMTT(40), <1>7 DEF ReconfNewBinary, Index
  <2> QED
    BY <1>3, <2>1, <2>2, TypeParts, Zenon DEF IInv
<1>8. CASE Reconf
  <2>0. /\ pc' \in {"top", "start"} /\ gen' \in Nat /\ i' \in Nat
        /\ start' \in [reload : BOOLEAN, then : {"top", "reloaded", "restarted"}]
    <3>1. CASE pc' = "top" /\ UNCHANGED <<gen, start>>
      BY <3>1, <1>1, <1>8, Zenon DEF Reconf, OtherTypes
    <3>2. CASE /\ pc' = "start" /\ gen' = gen + 1
               /\ start' = [reload |-> TRUE, then |-> "reloaded"]
      <4>1. start' \in [reload : BOOLEAN, then : {"top", "reloaded", "restarted"}]
        BY <3>2, Zenon
      <4>2. gen' \in Nat
        BY SMTT(40), <3>2, <1>1 DEF OtherTypes
      <4> QED
        BY <3>2, <4>1, <4>2, <1>8, Zenon DEF Reconf
    <3> QED
      BY <3>1, <3>2, <1>8, Zenon DEF Reconf
  <2>1. OtherTypes'
    BY <1>1, <1>8, <2>0, Zenon DEF Reconf, OtherTypes, bounds
  <2>2. Index'
    BY SMTT(40), <1>8 DEF Reconf, Index
  <2> QED
    BY <1>3, <2>1, <2>2, TypeParts, Zenon DEF IInv
<1>9. CASE Restart
  <2>1. OtherTypes'
    BY <1>1, <1>9, Zenon DEF Restart, OtherTypes, bounds
  <2>2. Index'
    BY SMTT(40), <1>9 DEF Restart, Index
  <2> QED
    BY <1>3, <2>1, <2>2, TypeParts, Zenon DEF IInv
<1>10. CASE TimerFires
  <2>1. OtherTypes' /\ Index'
    BY ZenonT(40), <1>1, <1>10 DEF TimerFires, OtherTypes, Index, bounds
  <2> QED
    BY <1>3, <2>1, TypeParts, Zenon DEF IInv
<1>11. CASE \E sig \in Admin : SendSignal(sig)
  <2>1. OtherTypes' /\ Index'
    BY <1>1, <1>11 DEF SendSignal, OtherTypes, Index, mvars
  <2> QED
    BY <1>3, <2>1, TypeParts, Zenon DEF IInv
<1> QED
  BY <1>4, <1>5, <1>6, <1>7, <1>8, <1>9, <1>10, <1>11, Zenon

\* And the children.
LEMMA ChildInv == ASSUME IInv, NEW p \in Pids, Obey(p) \/ Drained(p) \/ LoaderDone(p) \/ Crash(p)
                  PROVE  IInv'
<1>1. TableTypes /\ OtherTypes /\ Table /\ Index
  BY TypeParts, Zenon DEF IInv
<1>2. /\ UNCHANGED <<pc, flag, slot, last, newbin, live, delay, sigio, timer, gen, i, start,
                     sent, forkFails, retired>>
      /\ deaths' \in Nat
  BY <1>1 DEF Obey, Drained, LoaderDone, Crash, mvars, bounds, OtherTypes
<1>3. CASE \E z \in Zombie : Dies(p, z) /\ os[p].st \in Running
  <2>1. TableTypes' /\ Table'
    BY <1>1, <1>2, <1>3, DeathTable, Zenon
  <2>2. OtherTypes' /\ Index'
    BY <1>1, <1>2, <1>3 DEF Dies, OtherTypes, Index
  <2> QED
    BY <2>1, <2>2, TypeParts, Zenon DEF IInv
<1>4. CASE os[p].st = "run" /\ os' = [os EXCEPT ![p].st = "drain"] /\ UNCHANGED pend
  <2>1. [os[p] EXCEPT !.st = "drain"] \in Proc
    BY <1>1, Zenon DEF TableTypes, Proc, Running
  <2>2. os' = [os EXCEPT ![p] = [os[p] EXCEPT !.st = "drain"]]
    BY <1>4, Zenon
  <2>3. TableTypes'
    BY <1>1, <1>2, <2>1, <2>2, Zenon DEF TableTypes
  <2>4. \A q \in Pids : os'[q].st = "none" <=> os[q].st = "none"
    BY <1>1, <1>4, <2>2, Zenon DEF TableTypes, Proc
  <2>5. Table'
    BY ZenonT(40), <1>1, <1>2, <2>3, <2>4, SameTable
  <2>6. OtherTypes' /\ Index'
    BY <1>1, <1>2, <1>4 DEF OtherTypes, Index
  <2> QED
    BY <2>3, <2>5, <2>6, TypeParts, Zenon DEF IInv
<1>5. "zombie" \in Zombie /\ "run" \in Running /\ "drain" \in Running
  BY Zenon DEF Zombie, Running
<1> QED
  BY <1>3, <1>4, <1>5, Zenon DEF Obey, Drained, LoaderDone, Crash

-----------------------------------------------------------------------------
(* Reload *)

\* The children of a new configuration are being started.
Reloading == (pc = "start" /\ start.reload) \/ pc = "reloaded"

\* Only a reload goes on by telling the old children to quit.
StartShape == start.reload <=> start.then = "reloaded"

\* just_spawn marks children of the new configuration, and only meanwhile.
JustNew ==
    \A s \in Slots : Named(s) /\ ~slot[s].detached /\ slot[s].just
                     => slot[s].gen = gen /\ Reloading

\* Otherwise the children of older configurations have been told to leave.
OldExiting ==
    \/ Reloading
    \/ \A s \in Slots : Named(s) /\ ~slot[s].exited /\ ~slot[s].detached /\ slot[s].gen < gen
                        => slot[s].exiting

RInv == StartShape /\ JustNew /\ OldExiting

\* Slot s keeps its child, and an exiting one stays so; or it gets a child
\* of the configuration in force.
Kept(s) == /\ Named(s)
           /\ slot'[s].detached = slot[s].detached /\ slot'[s].gen = slot[s].gen
           /\ slot'[s].just => slot[s].just
           /\ ~slot'[s].exited => ~slot[s].exited /\ (slot[s].exiting => slot'[s].exiting)
Fresh(s) == /\ slot'[s].gen = gen
            /\ slot'[s].just => slot'[s].detached \/ Reloading

\* Steps that are not the beginning or the end of a reload.
LEMMA KeepReload ==
    ASSUME RInv, gen \in Nat, gen' = gen, StartShape', Reloading' <=> Reloading,
           \A s \in Slots : (Named(s))' => Kept(s) \/ Fresh(s)
    PROVE  RInv'
<1>1. JustNew'
  BY Zenon DEF JustNew, RInv, Kept, Fresh
<1>2. OldExiting'
  <2>1. CASE Reloading
    BY <2>1, Zenon DEF OldExiting
  <2>2. CASE ~Reloading
    BY SMTT(40), <2>2 DEF OldExiting, RInv, Kept, Fresh
  <2> QED
    BY <2>1, <2>2, Zenon
<1> QED
  BY <1>1, <1>2, Zenon DEF RInv

\* A slot the master tells something keeps its child.
LEMMA SignalKeeps ==
    ASSUME TableTypes, last' = last, NEW f, NEW sig, SignalWorkers(sig, f)
    PROVE  \A s \in Slots : (Named(s))' => Kept(s)
<1> SUFFICES ASSUME NEW s \in Slots, (Named(s))' PROVE Kept(s)
  BY Zenon
<1>1. slot' = [t \in Slots |-> IF t < last THEN SignalSlot(slot[t], sig) ELSE slot[t]]
  BY Zenon DEF SignalWorkers
<1>2. slot'[s] = SignalSlot(slot[s], sig) /\ slot[s] \in Slot /\ s < last
  BY <1>1, Zenon DEF Named, TableTypes
<1> DEFINE c == slot[s]
           d == [c EXCEPT !.just = c.just /\ (c.detached \/ c.pid = NoPid),
                          !.exiting = IF Addressed(c, sig)
                                      THEN ~c.exited /\ (c.exiting \/ sig # "USR1")
                                      ELSE c.exiting]
<1>3. slot'[s] = d
  BY <1>2, Zenon DEF SignalSlot
<1>4. /\ d.pid = c.pid /\ d.detached = c.detached /\ d.gen = c.gen /\ d.exited = c.exited
      /\ d.just => c.just
      /\ ~d.exited /\ c.exiting => d.exiting
  BY <1>2, Zenon DEF Slot
<1> HIDE DEF d
<1> QED
  BY <1>2, <1>3, <1>4, Zenon DEF Kept, Named

\* The end of a reload: the old children are told to quit, the new ones are not.
LEMMA ReloadedReload == ASSUME IInv, RInv, Reloaded PROVE RInv'
<1>1. TableTypes /\ OtherTypes
  BY TypeParts, Zenon DEF IInv
<1>2. /\ last' = last /\ gen' = gen /\ start' = start /\ SignalWorkers("QUIT", flag)
      /\ pc' = From(2, flag)
  BY Zenon DEF Reloaded
<1>3. pc' \notin {"start", "reloaded"}
  BY <1>2, FromType
<1>4. ~Reloading'
  BY <1>3, Zenon DEF Reloading
<1>5. ASSUME NEW s \in Slots, (Named(s))', ~slot'[s].detached
      PROVE  /\ ~slot'[s].just
             /\ ~slot'[s].exited /\ slot'[s].gen < gen => slot'[s].exiting
  <2>1. slot' = [t \in Slots |-> IF t < last THEN SignalSlot(slot[t], "QUIT") ELSE slot[t]]
    BY <1>2, Zenon DEF SignalWorkers
  <2>2. slot'[s] = SignalSlot(slot[s], "QUIT") /\ slot[s] \in Slot /\ s < last
    BY <1>1, <1>2, <1>5, <2>1, Zenon DEF Named, TableTypes
  <2>3. /\ slot'[s].pid = slot[s].pid /\ slot'[s].detached = slot[s].detached
        /\ slot'[s].gen = slot[s].gen /\ slot'[s].exited = slot[s].exited
        /\ slot'[s].just <=> slot[s].just /\ (slot[s].detached \/ slot[s].pid = NoPid)
    BY <2>2, Zenon DEF SignalSlot, Slot
  <2>4. ~slot[s].detached /\ slot[s].pid # NoPid /\ Named(s)
    BY <1>5, <2>2, <2>3, Zenon DEF Named
  <2>5. ~slot'[s].just
    BY <2>3, <2>4, Zenon
  <2>6. ASSUME ~slot[s].exited, slot[s].gen < gen PROVE slot'[s].exiting
    <3>1. ~slot[s].just
      BY <2>4, <2>6, <1>1 DEF RInv, JustNew, OtherTypes
    <3>2. slot'[s].exiting <=> IF Addressed(slot[s], "QUIT")
                               THEN ~slot[s].exited /\ (slot[s].exiting \/ "QUIT" # "USR1")
                               ELSE slot[s].exiting
      BY ZenonT(40), <2>2 DEF SignalSlot, Slot
    <3>3. CASE slot[s].exiting
      BY <3>2, <3>3, Zenon DEF Addressed
    <3>4. CASE ~slot[s].exiting
      BY <3>1, <3>2, <3>4, <2>4, <2>6, Zenon DEF Addressed
    <3> QED
      BY <3>3, <3>4, Zenon
  <2> QED
    BY Zenon, <2>3, <2>5, <2>6
<1>6. JustNew' /\ OldExiting'
  BY <1>2, <1>5, Zenon DEF JustNew, OldExiting
<1>7. StartShape'
  BY <1>2, Zenon DEF StartShape, RInv
<1> QED
  BY <1>6, <1>7, Zenon DEF RInv

\* Every step preserves the reload's invariant.
LEMMA ReloadStep == ASSUME IInv, RInv, [Next]_vars PROVE RInv'
<1> USE MasterAssumption
<1>1. TableTypes /\ OtherTypes /\ Index /\ gen \in Nat
  BY TypeParts, Zenon DEF IInv, OtherTypes
<1>2. ASSUME UNCHANGED <<pc, start, gen, slot, last>>
      PROVE  RInv'
  BY <1>2, Zenon DEF RInv, StartShape, JustNew, OldExiting, Reloading, Named
<1>3. ASSUME UNCHANGED <<slot, last, start, gen>>,
             pc \notin {"start", "reloaded"}, pc' \notin {"start", "reloaded"}
      PROVE  RInv'
  BY <1>3, Zenon DEF RInv, StartShape, JustNew, OldExiting, Reloading, Named
<1>4. CASE StartOne
  <2>1. gen' = gen /\ start' = start /\ pc = "start"
    BY <1>4, Zenon DEF StartOne
  <2>2. StartShape'
    BY <2>1, Zenon DEF RInv, StartShape
  <2>3. Reloading' <=> Reloading
    <3>1. From(3, flag) \notin {"start", "reloaded"}
      BY SMTT(40), FromType
    <3>2. start.then \in {"top", "reloaded", "restarted"}
      BY <1>1, Zenon DEF OtherTypes
    <3>3. pc' \in {pc, IF start.then = "restarted" THEN From(3, flag) ELSE start.then}
      BY <1>4, Zenon DEF StartOne
    <3> QED
      BY <2>1, <3>1, <3>2, <3>3, Zenon DEF Reloading, RInv, StartShape
  <2>4. \A s \in Slots : (Named(s))' => Kept(s) \/ Fresh(s)
    <3>1. CASE \E p \in FreePids : SpawnedAs(p, StartRecord(Kinds[i], start.reload))
      <4> DEFINE c == StartRecord(Kinds[i], start.reload)
      <4>1. PICK p \in FreePids, t \in Slots :
              /\ slot' = [slot EXCEPT ![t] = [c EXCEPT !.pid = p]]
              /\ last' = IF t = last THEN last + 1 ELSE last
              /\ t \in 0..last
        BY ZenonT(40), <3>1 DEF SpawnedAs, IsFreeSlot
      <4>2. c.gen = gen /\ c.just = start.reload
        BY Zenon DEF StartRecord, FreeSlot
      <4>3. /\ [c EXCEPT !.pid = p].gen = gen
            /\ [c EXCEPT !.pid = p].just = start.reload
        BY <4>2, Zenon DEF StartRecord, FreeSlot
      <4> HIDE DEF c
      <4>4. Fresh(t)
        BY <4>1, <4>3, <2>1, <1>1, Zenon DEF Fresh, Reloading, TableTypes
      <4>5. \A s \in Slots : s # t /\ (Named(s))' => Kept(s)
        BY SMTT(40), <4>1, <1>1 DEF Kept, Named, TableTypes, Slots
      <4> QED
        BY <4>4, <4>5, Zenon
    <3>2. CASE NotSpawned
      BY <3>2, Zenon DEF NotSpawned, ForkFails, NoSlotLeft, Kept, Named
    <3> QED
      BY <3>1, <3>2, <1>4, Zenon DEF StartOne
  <2> QED
    BY <2>1, <2>2, <2>3, <2>4, <1>1, KeepReload, Zenon
<1>5. CASE Suspend
  <2>1. /\ gen' = gen /\ start' = start /\ last' = last
        /\ pc = "suspend" /\ pc' \in {"reap", "dispatch"}
    BY <1>5, Zenon DEF Suspend
  <2>2. StartShape' /\ (Reloading' <=> Reloading)
    BY <2>1, Zenon DEF RInv, StartShape, Reloading
  <2>3. ASSUME NEW s \in Slots, (Named(s))' PROVE Kept(s)
    <3>1. slot'[s] = slot[s] \/ slot'[s] = Waited(slot[s])
      BY <1>5, <1>1, Zenon DEF Suspend, TableTypes
    <3>2. slot[s] \in Slot
      BY <1>1, Zenon DEF TableTypes
    <3>3. /\ slot'[s].pid = slot[s].pid /\ slot'[s].detached = slot[s].detached
          /\ slot'[s].gen = slot[s].gen /\ slot'[s].just = slot[s].just
          /\ slot'[s].exiting = slot[s].exiting /\ (slot[s].exited => slot'[s].exited)
      BY ZenonT(40), <3>1, <3>2 DEF Waited, Slot
    <3> QED
      BY <2>1, <2>3, <3>3, Zenon DEF Kept, Named
  <2> QED
    BY <2>1, <2>2, <2>3, <1>1, KeepReload, Zenon
<1>6. CASE ReapSlot
  <2>1. gen' = gen /\ start' = start /\ pc = "reap" /\ pc' \in {"reap", "dispatch"}
    BY <1>6, Zenon DEF ReapSlot
  <2>2. StartShape' /\ (Reloading' <=> Reloading) /\ ~Reloading
    BY <2>1, Zenon DEF RInv, StartShape, Reloading
  <2>3. i \in Slots /\ i < last
    BY SMTT(40), <1>1, <2>1 DEF TableTypes, OtherTypes, Slots, Index
  <2>4. \A s \in Slots : (Named(s))' => Kept(s) \/ Fresh(s)
    <3>1. CASE UNCHANGED <<slot, last>>
      BY <3>1, Zenon DEF Kept, Named
    <3>2. CASE slot[i].pid # NoPid /\ SpawnAgain(i)
      <4>1. CASE ForkFails
        BY <4>1, Zenon DEF ForkFails, Kept, Named
      <4>2. ASSUME NEW p \in FreePids, last' = last,
                   slot' = [slot EXCEPT ![i].pid = p, ![i].exited = FALSE, ![i].gen = gen]
            PROVE  \A s \in Slots : (Named(s))' => Kept(s) \/ Fresh(s)
        <5>1. /\ slot'[i].gen = gen /\ slot'[i].just = slot[i].just
              /\ slot'[i].detached = slot[i].detached
              /\ \A s \in Slots : s # i => slot'[s] = slot[s]
          BY <4>2, <2>3, <1>1, Zenon DEF TableTypes, Slot
        <5>2. slot[i].just => slot[i].detached
          BY <2>2, <2>3, <3>2, Zenon DEF RInv, JustNew, Named
        <5> QED
          BY ZenonT(40), <5>1, <5>2, <4>2 DEF Kept, Fresh, Named
      <4> QED
        BY ZenonT(40), <3>2, <4>1, <4>2 DEF SpawnAgain
    <3>3. CASE RemoveSlot(i)
      <4>1. CASE i = last - 1
        BY SMTT(40), <3>3, <4>1, <1>1 DEF RemoveSlot, Kept, Named, TableTypes, Slots
      <4>2. CASE i # last - 1
        <5>1. slot'[i].pid = NoPid /\ last' = last /\ \A s \in Slots : s # i => slot'[s] = slot[s]
          BY SMTT(40), <3>3, <4>2, <2>3, <1>1 DEF RemoveSlot, TableTypes, Slot
        <5> QED
          BY <5>1, Zenon DEF Kept, Named
      <4> QED
        BY <4>1, <4>2, Zenon
    <3> QED
      BY <3>1, <3>2, <3>3, <1>6, Zenon DEF ReapSlot
  <2> QED
    BY <2>1, <2>2, <2>4, <1>1, KeepReload, Zenon
<1>7. CASE ChangeBinary
  <2>1. gen' = gen /\ start' = start /\ pc = "change_binary" /\ pc' = From(5, flag)
    BY <1>7, Zenon DEF ChangeBinary
  <2>2. pc' \notin {"start", "reloaded"}
    BY SMTT(40), <2>1, FromType
  <2>3. StartShape' /\ (Reloading' <=> Reloading)
    BY <2>1, <2>2, Zenon DEF RInv, StartShape, Reloading
  <2>4. \A s \in Slots : (Named(s))' => Kept(s) \/ Fresh(s)
    <3> DEFINE c == [FreeSlot EXCEPT !.kind = "binary", !.detached = TRUE, !.gen = gen]
    <3>1. CASE \E p \in FreePids : SpawnedAs(p, c)
      <4>1. PICK p \in FreePids, t \in Slots :
              /\ slot' = [slot EXCEPT ![t] = [c EXCEPT !.pid = p]]
              /\ last' = IF t = last THEN last + 1 ELSE last
              /\ t \in 0..last
        BY ZenonT(40), <3>1 DEF SpawnedAs, IsFreeSlot
      <4>2. /\ [c EXCEPT !.pid = p].gen = gen
            /\ [c EXCEPT !.pid = p].just = FALSE
        BY Zenon DEF FreeSlot
      <4> HIDE DEF c
      <4>3. Fresh(t)
        BY <4>1, <4>2, <1>1, Zenon DEF Fresh, TableTypes
      <4>4. \A s \in Slots : s # t /\ (Named(s))' => Kept(s)
        BY <4>1, <1>1 DEF Kept, Named, TableTypes, Slots
      <4> QED
        BY <4>3, <4>4, Zenon
    <3>2. CASE NotSpawned
      BY <3>2, Zenon DEF NotSpawned, ForkFails, NoSlotLeft, Kept, Named
    <3> QED
      BY <3>1, <3>2, <1>7, Zenon DEF ChangeBinary
  <2> QED
    BY <2>1, <2>3, <2>4, <1>1, KeepReload, Zenon
<1>8. CASE Terminate \/ Quit \/ Reopen \/ NoAccept
  <2>1. /\ gen' = gen /\ start' = start /\ last' = last
        /\ pc \in {"dispatch", "reopen", "noaccept"} /\ pc' \in {"top", From(4, flag)}
    BY <1>8, Zenon DEF Terminate, Quit, Reopen, NoAccept
  <2>2. pc' \notin {"start", "reloaded"}
    BY SMTT(40), <2>1, FromType
  <2>3. StartShape' /\ (Reloading' <=> Reloading)
    BY <2>1, <2>2, Zenon DEF RInv, StartShape, Reloading
  <2>4. slot' = slot \/ \E sig \in {"QUIT", "TERM", "KILL", "USR1"}, f \in SUBSET (Flags \cup flag) :
                           SignalWorkers(sig, f)
    <3>1. flag \in SUBSET (Flags \cup flag) /\ flag \ {"reopen"} \in SUBSET (Flags \cup flag)
          /\ (flag \ {"noaccept"}) \cup {"noaccepting"} \in SUBSET (Flags \cup flag)
      BY Zenon DEF Flags
    <3>2. CASE Terminate
      <4>1. slot' = slot \/ SignalWorkers(IF delay' > 1000 THEN "KILL" ELSE "TERM", flag)
        BY <3>2 DEF Terminate
      <4>2. PICK sig \in {"KILL", "TERM"} : sig = IF delay' > 1000 THEN "KILL" ELSE "TERM"
        OBVIOUS
      <4>3. slot' = slot \/ SignalWorkers(sig, flag)
        BY <4>1, <4>2, Zenon
      <4> QED
        BY <4>3, <3>1, Zenon
    <3> QED
      BY <1>8, <3>1, <3>2, Zenon DEF Quit, Reopen, NoAccept
  <2>5. \A s \in Slots : (Named(s))' => Kept(s)
    <3>1. CASE slot' = slot
      BY <3>1, <2>1, Zenon DEF Kept, Named
    <3>2. ASSUME NEW sig, NEW f, SignalWorkers(sig, f)
          PROVE  \A s \in Slots : (Named(s))' => Kept(s)
      BY <3>2, <2>1, <1>1, SignalKeeps, Zenon
    <3> QED
      BY <3>1, <3>2, <2>4, Zenon
  <2> QED
    BY <2>1, <2>3, <2>5, <1>1, KeepReload, Zenon
<1>9. CASE Reloaded
  BY <1>9, ReloadedReload, Zenon
<1>10. CASE Reconf
  <2>1. pc = "reconfigure" /\ slot' = slot /\ last' = last
    BY <1>10, Zenon DEF Reconf
  <2>2. ~Reloading
    BY <2>1, Zenon DEF Reloading
  <2>3. CASE pc' = "top" /\ UNCHANGED <<gen, start>>
    BY <2>1, <2>3, <1>3, Zenon
  <2>4. CASE pc' = "start" /\ start' = [reload |-> TRUE, then |-> "reloaded"]
    <3>1. Reloading' /\ StartShape'
      BY <2>4, Zenon DEF Reloading, StartShape
    <3>2. JustNew'
      BY <2>1, <2>2, Zenon DEF JustNew, RInv, Named
    <3> QED
      BY <3>1, <3>2, Zenon DEF RInv, OldExiting
  <2> QED
    BY <2>3, <2>4, <1>10, Zenon DEF Reconf
<1>11. CASE ReconfNewBinary \/ Restart
  <2>1. /\ slot' = slot /\ last' = last /\ gen' = gen
        /\ pc \in {"reconfigure", "restart"} /\ pc' = "start"
        /\ start' \in {[reload |-> FALSE, then |-> "top"], [reload |-> FALSE, then |-> "restarted"]}
    BY <1>11, Zenon DEF ReconfNewBinary, Restart
  <2>2. ~start'.reload /\ start'.then # "reloaded"
    BY SMTT(40), <2>1
  <2>3. StartShape' /\ (Reloading' <=> Reloading)
    BY <2>1, <2>2, Zenon DEF StartShape, Reloading
  <2>4. \A s \in Slots : (Named(s))' => Kept(s)
    BY <2>1, Zenon DEF Kept, Named
  <2> QED
    BY <2>1, <2>3, <2>4, <1>1, KeepReload, Zenon
<1>12. CASE LoopTop \/ Exit \/ GoOn
  <2>1. UNCHANGED <<slot, last, start, gen>> /\ pc \in {"top", "dispatch"}
        /\ pc' \in {"suspend", "exited", From(1, flag)}
    BY <1>12, Zenon DEF LoopTop, Exit, GoOn
  <2>2. pc' \notin {"start", "reloaded"}
    BY <2>1, FromType
  <2> QED
    BY <2>1, <2>2, <1>3, Zenon
<1>13. CASE ChildStep \/ TimerFires \/ (\E sig \in Admin : SendSignal(sig)) \/ UNCHANGED vars
  <2>1. UNCHANGED <<pc, start, gen, slot, last>>
    BY <1>13, Zenon DEF ChildStep, Obey, Drained, LoaderDone, Crash, TimerFires, SendSignal, vars, mvars
  <2> QED
    BY <2>1, <1>2, Zenon
<1> QED
  BY <1>4, <1>5, <1>6, <1>7, <1>8, <1>9, <1>10, <1>11, <1>12, <1>13, Zenon DEF Next, MasterStep

\* The process in slot s is dead and the step starts another one there.
Replaced(s) == /\ s < last /\ s < last' /\ slot[s].exited /\ slot[s].pid # NoPid
               /\ slot'[s].pid \in Pids /\ slot'[s].pid # slot[s].pid

\* The process in slot s may be replaced.
MayReplace(s) == ~slot[s].exiting /\ flag \cap {"quit", "terminate"} = {}

\* A step that gives slot s a new pid is the reaping of s, and is allowed.
LEMMA ReplacedStep ==
    ASSUME IInv, Next, NEW s \in Slots, Replaced(s)
    PROVE  MayReplace(s)
  <1>1. TableTypes /\ OtherTypes /\ Index
    BY TypeParts, Zenon DEF IInv
  <1>2. slot[s] \in Slot /\ slot'[s].pid # slot[s].pid /\ slot'[s].pid \in Pids
    BY <1>1, Zenon DEF Replaced, TableTypes
  <1>3. slot[s].pid # NoPid /\ s < last /\ NoPid \notin Pids
    BY MasterAssumption, Zenon DEF Replaced
  <1> HIDE DEF Replaced
  <1>4. ASSUME NEW p, NEW c, SpawnedAs(p, c) PROVE FALSE
    <2>1. PICK t \in Slots : /\ t < last => slot[t].pid = NoPid
                             /\ slot' = [slot EXCEPT ![t] = [c EXCEPT !.pid = p]]
      BY Zenon, <1>4 DEF SpawnedAs, IsFreeSlot
    <2>2. t # s
      BY <2>1, <1>3, Zenon
    <2>3. slot'[s] = slot[s]
      BY <2>1, <2>2, <1>1, Zenon DEF TableTypes
    <2> QED
      BY <2>3, <1>2, Zenon
  <1>5. ASSUME NEW sig, NEW f, SignalWorkers(sig, f) PROVE FALSE
    <2>1. slot' = [t \in Slots |-> IF t < last THEN SignalSlot(slot[t], sig) ELSE slot[t]]
      BY Zenon, <1>5 DEF SignalWorkers
    <2>2. slot'[s] = SignalSlot(slot[s], sig)
      BY <2>1, <1>3, Zenon
    <2>3. slot'[s].pid = slot[s].pid
      BY <2>2, <1>2, Zenon DEF SignalSlot, Slot
    <2> QED
      BY <2>3, <1>2, Zenon
  <1>6. CASE StartOne
    BY <1>6, <1>4, <1>2, Zenon DEF StartOne, NotSpawned, ForkFails, NoSlotLeft
  <1>7. CASE Suspend
    <2>1. slot'[s] \in {slot[s], Waited(slot[s])}
      BY <1>7, Zenon DEF Suspend
    <2>2. slot'[s].pid = slot[s].pid
      BY Zenon, <2>1, <1>2 DEF Waited, Slot
    <2> QED
      BY <2>2, <1>2, Zenon
  <1>8. CASE ReapSlot
    <2>1. pc = "reap"
      BY <1>8, Zenon DEF ReapSlot
    <2>2. i < last /\ i \in Nat /\ last \in 0..MaxProcesses /\ MaxProcesses \in Nat
      BY <2>1, <1>1, MasterAssumption, Zenon DEF TableTypes, OtherTypes, Index
    <2>3. i \in Slots
      BY <2>2 DEF Slots
    <2>4. CASE slot' = slot
      BY <2>4, <1>2, Zenon
    <2>5. CASE RemoveSlot(i)
      <3>1. slot'[s].pid \in {slot[s].pid, NoPid}
        BY <2>5, <2>3, <1>1, Zenon DEF RemoveSlot, TableTypes, Slot
      <3> QED
        BY <3>1, <1>2, <1>3, Zenon
    <2>6. CASE /\ slot[i].respawn /\ ~slot[i].exiting /\ ~ShuttingDown
               /\ SpawnAgain(i)
      <3>1. s # i => slot'[s] = slot[s]
        BY Zenon, <2>6, <2>3, <1>1 DEF SpawnAgain, ForkFails, TableTypes
      <3>2. s = i
        BY <3>1, <1>2, Zenon
      <3> QED
        BY <3>2, <2>6, Zenon DEF MayReplace, ShuttingDown
    <2> QED
      BY <2>4, <2>5, <2>6, <1>8, Zenon DEF ReapSlot
  <1>9. CASE ChangeBinary
    BY <1>9, <1>4, <1>2, Zenon DEF ChangeBinary, NotSpawned, ForkFails, NoSlotLeft
  <1>10. CASE Terminate \/ Quit \/ Reloaded \/ Reopen \/ NoAccept
    <2>1. slot' = slot \/ \E sig, f : SignalWorkers(sig, f)
      BY ZenonT(40), <1>10 DEF Terminate, Quit, Reloaded, Reopen, NoAccept
    <2> QED
      BY Zenon, <2>1, <1>5, <1>2
  <1>11. CASE \/ LoopTop \/ Exit \/ GoOn \/ ReconfNewBinary \/ Reconf \/ Restart \/ TimerFires
              \/ ChildStep \/ \E sig \in Admin : SendSignal(sig)
    <2>1. slot' = slot
      BY <1>11, Zenon DEF LoopTop, Exit, GoOn, ReconfNewBinary, Reconf, Restart, TimerFires, ChildStep,
                   Obey, Drained, LoaderDone, Crash, SendSignal, mvars
    <2> QED
      BY <2>1, <1>2, Zenon
  <1> QED
    BY <1>6, <1>7, <1>8, <1>9, <1>10, <1>11, Zenon DEF Next, MasterStep

-----------------------------------------------------------------------------
(* The end of the master *)

\* The table knows what its children are; only a new binary is detached.
KInv ==
    \A s \in Slots : Named(s) =>
        /\ slot[s].detached => slot[s].kind = "binary"
        /\ ~slot[s].exited => os[slot[s].pid].kind = slot[s].kind

(* What "live" is worth: while it is false no child is left but a new      *)
(* binary, except while the table is being searched, and while children    *)
(* are being started, after which it is set.                               *)
LInv ==
    /\ pc \notin {"start", "reloaded"} /\ ~live /\ ~retired =>
           \A s \in Slots : Named(s) /\ ~slot[s].exited /\ (pc = "reap" => s < i)
                            => slot[s].detached
    /\ pc = "start" /\ start.then # "reloaded" => live \/ retired
    /\ pc = "exited" => ~live

(* A delay is set by the first round of a quick shutdown, which asks every *)
(* child to leave; no child is started afterwards.                         *)
Asked ==
    \A s \in Slots : Named(s) /\ ~slot[s].exited /\ ~slot[s].detached => slot[s].exiting
DInv ==
    /\ delay = 0 => sigio = 0
    /\ delay # 0 => /\ "terminate" \in flag
                    /\ pc \in {"top", "suspend", "reap", "dispatch", "exited"}
                    /\ Asked

-----------------------------------------------------------------------------
(* What a step does to the table *)

\* Slot s keeps its child, which may be marked as exited or exiting.
Stays(s) ==
    /\ Named(s)
    /\ slot'[s].pid = slot[s].pid
    /\ slot'[s].detached = slot[s].detached /\ slot'[s].kind = slot[s].kind
    /\ ~slot'[s].exited => ~slot[s].exited /\ (slot[s].exiting => slot'[s].exiting)

AllStay == \A s \in Slots : (Named(s))' => Stays(s)

Quiet ==
    /\ AllStay
    /\ \A p \in Pids : os'[p].st # "none" => os'[p].kind = os[p].kind

\* Slot t gets a new child, and that is all.
Spawns(t) ==
    /\ \A s \in Slots \ {t} : (Named(s))' => Stays(s)
    /\ (Named(t))'
    /\ \A p \in Pids \ {slot'[t].pid} : os'[p] = os[p]
    /\ os'[slot'[t].pid].kind = slot'[t].kind
    /\ slot'[t].detached => slot'[t].kind = "binary"

\* A child in a new slot, of the type c.
LEMMA SpawnEffect ==
    ASSUME TableTypes, NEW p \in FreePids, NEW c \in Slot, SpawnedAs(p, c),
           c.detached => c.kind = "binary"
    PROVE  \E t \in Slots : Spawns(t) /\ slot'[t].detached = c.detached
  <1> USE MasterAssumption
  <1>1. PICK t \in Slots :
          /\ IsFreeSlot(t)
          /\ slot' = [slot EXCEPT ![t] = [c EXCEPT !.pid = p]]
          /\ os' = [os EXCEPT ![p] = Born(c.kind)]
          /\ last' = IF t = last THEN last + 1 ELSE last
    BY Zenon DEF SpawnedAs
  <1>2. p \in Pids /\ t \in 0..last
    BY <1>1, Zenon DEF FreePids, IsFreeSlot
  <1>3. /\ slot'[t].pid = p /\ slot'[t].kind = c.kind /\ slot'[t].detached = c.detached
        /\ \A s \in Slots \ {t} : slot'[s] = slot[s]
    BY <1>1, Zenon DEF TableTypes, Slot
  <1>4. os'[p] = Born(c.kind) /\ \A q \in Pids \ {p} : os'[q] = os[q]
    BY <1>1, <1>2, Zenon DEF TableTypes
  <1>5. Born(c.kind).kind = c.kind
    BY Zenon DEF Born, NoProc
  <1>6. \A s \in Slots \ {t} : s < last' => s < last
    BY <1>1, <1>2 DEF Slots, TableTypes
  <1>7. t < last'
    BY <1>1, <1>2 DEF Slots, TableTypes
  <1>8. \A s \in Slots \ {t} : (Named(s))' => Stays(s)
    BY <1>3, <1>6, Zenon DEF Named, Stays
  <1>9. (Named(t))'
    BY <1>2, <1>3, <1>7, Zenon DEF Named
  <1>10. QED
    BY <1>3, <1>4, <1>5, <1>8, <1>9, Zenon DEF Spawns

\* Nothing is spawned.
LEMMA NotSpawnedEffect == ASSUME NotSpawned PROVE Quiet
  BY Zenon DEF NotSpawned, ForkFails, NoSlotLeft, Quiet, AllStay, Stays, Named

\* Neither the table nor the children change.
LEMMA NoEffect == ASSUME UNCHANGED <<slot, last, os>> PROVE Quiet
  BY Zenon DEF Quiet, AllStay, Stays, Named

\* A delivered signal leaves a child what it is.
LEMMA DeliverKind ==
    ASSUME NEW o \in Proc, NEW sig
    PROVE  Deliver(o, sig).kind = o.kind
  BY Zenon DEF Deliver, Proc

\* ngx_signal_worker_processes
LEMMA SignalEffect ==
    ASSUME TableTypes, last' = last, NEW f, NEW sig, SignalWorkers(sig, f)
    PROVE  Quiet
  <1>1. ASSUME NEW s \in Slots, (Named(s))'
        PROVE  Stays(s)
    <2>1. slot' = [t \in Slots |-> IF t < last THEN SignalSlot(slot[t], sig) ELSE slot[t]]
      BY Zenon DEF SignalWorkers
    <2>2. slot'[s] = SignalSlot(slot[s], sig) /\ slot[s] \in Slot /\ s < last
      BY <1>1, <2>1, Zenon DEF Named, TableTypes
    <2> DEFINE c == slot[s]
               d == [c EXCEPT !.just = c.just /\ (c.detached \/ c.pid = NoPid),
                              !.exiting = IF Addressed(c, sig)
                                          THEN ~c.exited /\ (c.exiting \/ sig # "USR1")
                                          ELSE c.exiting]
    <2>3. slot'[s] = d
      BY <2>2, Zenon DEF SignalSlot
    <2>4. /\ d.pid = c.pid /\ d.detached = c.detached /\ d.kind = c.kind
          /\ d.exited = c.exited
          /\ ~d.exited /\ c.exiting => d.exiting
      BY <2>2, Zenon DEF Slot
    <2> HIDE DEF d
    <2>5. QED
      BY <1>1, <2>2, <2>3, <2>4, Zenon DEF Stays, Named
  <1>2. ASSUME NEW p \in Pids
        PROVE  os'[p].kind = os[p].kind
    <2>1. os'[p] = os[p] \/ os'[p] = Deliver(os[p], sig)
      BY Zenon DEF SignalWorkers
    <2>2. os[p] \in Proc
      BY Zenon DEF TableTypes
    <2>3. QED
      BY <2>1, <2>2, DeliverKind, Zenon
  <1>3. QED
    BY <1>1, <1>2, Zenon DEF Quiet, AllStay

\* A spawn, and the part of the loop that makes it.
Spawn ==
    \E t \in Slots :
        /\ Spawns(t)
        /\ \/ pc = "start"
           \/ pc = "change_binary" /\ slot'[t].detached
           \/ pc = "reap" /\ live' = TRUE /\ ~ShuttingDown

\* The parts of the loop that tell the children something spawn nobody.
LEMMA TellingEffect ==
    ASSUME TableTypes, Terminate \/ Quit \/ Reloaded \/ Reopen \/ NoAccept
    PROVE  Quiet
  <1>1. last' = last
    BY Zenon DEF Terminate, Quit, Reloaded, Reopen, NoAccept
  <1>2. UNCHANGED <<slot, os>> \/ \E sig, f : SignalWorkers(sig, f)
    BY ZenonT(40) DEF Terminate, Quit, Reloaded, Reopen, NoAccept
  <1>3. QED
    BY <1>1, <1>2, SignalEffect, NoEffect, Zenon

\* Starting the children.
LEMMA StartEffect == ASSUME IInv, StartOne PROVE Quiet \/ Spawn
  <1> USE MasterAssumption
  <1>1. TableTypes /\ OtherTypes /\ pc = "start" /\ i \in 1..Len(Kinds)
    BY TypeParts, Zenon DEF IInv, Index, StartOne
  <1> DEFINE c == StartRecord(Kinds[i], start.reload)
  <1>2. CASE \E p \in FreePids : SpawnedAs(p, c)
    <2>1. Kinds[i] \in Kind /\ start.reload \in BOOLEAN /\ gen \in Nat
      BY <1>1 DEF OtherTypes
    <2>2. (Kinds[i] = "worker" \/ (Kinds[i] = "proc_off" /\ start.reload)) \in BOOLEAN
      BY Zenon
    <2>3. c \in Slot /\ ~c.detached
      BY ZenonT(40), <2>1, <2>2 DEF StartRecord, FreeSlot, Slot
    <2> HIDE DEF c
    <2>4. \E t \in Slots : Spawns(t)
      BY <1>1, <1>2, <2>3, SpawnEffect, Zenon
    <2>5. QED
      BY <1>1, <2>4, Zenon DEF Spawn
  <1>3. CASE NotSpawned
    BY <1>3, NotSpawnedEffect, Zenon
  <1>4. QED
    BY <1>2, <1>3, Zenon DEF StartOne

\* Starting a new binary.
LEMMA BinaryEffect == ASSUME IInv, ChangeBinary PROVE Quiet \/ Spawn
  <1>1. TableTypes /\ OtherTypes /\ pc = "change_binary"
    BY TypeParts, Zenon DEF IInv, ChangeBinary
  <1> DEFINE c == [FreeSlot EXCEPT !.kind = "binary", !.detached = TRUE, !.gen = gen]
  <1>2. CASE \E p \in FreePids : SpawnedAs(p, c)
    <2>1. c \in Slot /\ c.detached /\ c.kind = "binary"
      BY ZenonT(40), <1>1, MasterAssumption DEF FreeSlot, Slot, OtherTypes
    <2> HIDE DEF c
    <2>2. \E t \in Slots : Spawns(t) /\ slot'[t].detached = c.detached
      BY <1>1, <1>2, <2>1, SpawnEffect, Zenon
    <2>3. QED
      BY <1>1, <2>1, <2>2, Zenon DEF Spawn
  <1>3. CASE NotSpawned
    BY <1>3, NotSpawnedEffect, Zenon
  <1>4. QED
    BY <1>2, <1>3, Zenon DEF ChangeBinary

\* Waking up: zombies are waited for.
LEMMA SuspendEffect == ASSUME IInv, Suspend PROVE Quiet
  <1>1. TableTypes /\ last' = last
    BY TypeParts, Zenon DEF IInv, Suspend
  <1>2. ASSUME NEW s \in Slots, (Named(s))'
        PROVE  Stays(s)
    <2>1. slot'[s] = slot[s] \/ slot'[s] = Waited(slot[s])
      BY <1>1, Zenon DEF Suspend, TableTypes
    <2>2. slot[s] \in Slot
      BY <1>1, Zenon DEF TableTypes
    <2>3. /\ slot'[s].pid = slot[s].pid /\ slot'[s].detached = slot[s].detached
          /\ slot'[s].kind = slot[s].kind
          /\ slot'[s].exiting = slot[s].exiting /\ (slot[s].exited => slot'[s].exited)
      BY ZenonT(40), <2>1, <2>2 DEF Waited, Slot
    <2>4. QED
      BY <1>1, <1>2, <2>3, Zenon DEF Stays, Named
  <1>3. ASSUME NEW p \in Pids, os'[p].st # "none"
        PROVE  os'[p].kind = os[p].kind
    <2>1. os'[p] = os[p] \/ os'[p] = NoProc
      BY Zenon DEF Suspend
    <2>2. QED
      BY <1>3, <2>1 DEF NoProc
  <1>4. QED
    BY <1>2, <1>3, Zenon DEF Quiet, AllStay

\* Reaping a slot: its child is replaced, or forgotten, or still there.
LEMMA ReapEffect == ASSUME IInv, KInv, ReapSlot PROVE Quiet \/ Spawn
  <1> USE MasterAssumption
  <1>1. /\ TableTypes /\ OtherTypes /\ pc = "reap"
        /\ i < last /\ i \in Nat /\ last \in 0..MaxProcesses
    BY TypeParts, Zenon DEF IInv, Index, ReapSlot, TableTypes, OtherTypes
  <1>2. i \in Slots
    BY <1>1 DEF Slots
  <1>3. CASE UNCHANGED <<slot, last, os>>
    BY <1>3, NoEffect, Zenon
  <1>4. CASE slot[i].pid # NoPid /\ ~ShuttingDown /\ SpawnAgain(i)
    <2>1. CASE ForkFails
      BY <2>1, NotSpawnedEffect, Zenon DEF NotSpawned
    <2>2. ASSUME NEW p \in FreePids,
                 slot' = [slot EXCEPT ![i].pid = p, ![i].exited = FALSE, ![i].gen = gen],
                 os' = [os EXCEPT ![p] = Born(slot[i].kind)],
                 live' = TRUE, last' = last
          PROVE  Spawn
      <3>0. PICK t \in Slots : t = i
        BY <1>2, Zenon
      <3>1. /\ slot'[t].pid = p /\ slot'[t].kind = slot[t].kind
            /\ slot'[t].detached = slot[t].detached
            /\ \A s \in Slots \ {t} : slot'[s] = slot[s]
        BY <1>1, <2>2, <3>0, Zenon DEF TableTypes, Slot
      <3>2. p \in Pids /\ Named(t)
        BY <1>1, <1>4, <3>0, Zenon DEF FreePids, Named
      <3>3. os'[p] = Born(slot[t].kind) /\ \A q \in Pids \ {p} : os'[q] = os[q]
        BY <1>1, <2>2, <3>0, <3>2, Zenon DEF TableTypes
      <3>4. Born(slot[t].kind).kind = slot[t].kind
        BY Zenon DEF Born, NoProc
      <3>5. \A s \in Slots \ {t} : (Named(s))' => Stays(s)
        BY <2>2, <3>1, Zenon DEF Named, Stays
      <3>6. (Named(t))'
        BY <2>2, <3>1, <3>2, MasterAssumption, Zenon DEF Named
      <3>7. slot[t].detached => slot[t].kind = "binary"
        BY <3>2, Zenon DEF KInv
      <3>8. Spawns(t)
        BY <3>1, <3>3, <3>4, <3>5, <3>6, <3>7, Zenon DEF Spawns
      <3>9. QED
        BY <1>1, <1>4, <2>2, <3>8, Zenon DEF Spawn
    <2>3. QED
      BY ZenonT(40), <1>4, <2>1, <2>2 DEF SpawnAgain
  <1>5. CASE RemoveSlot(i) /\ os' = os
    <2>1. ASSUME NEW s \in Slots, (Named(s))'
          PROVE  Stays(s)
      <3>1. CASE i = last - 1
        BY <1>1, <1>5, <2>1, <3>1 DEF RemoveSlot, Stays, Named, Slots
      <3>2. CASE i # last - 1
        <4>1. slot'[i].pid = NoPid /\ last' = last /\ \A t \in Slots \ {i} : slot'[t] = slot[t]
          BY SMTT(40), <1>1, <1>2, <1>5, <3>2 DEF RemoveSlot, TableTypes, Slot
        <4>2. QED
          BY <2>1, <4>1, Zenon DEF Stays, Named
      <3>3. QED
        BY <3>1, <3>2, Zenon
    <2>2. QED
      BY <1>5, <2>1, Zenon DEF Quiet, AllStay
  <1>6. QED
    BY <1>3, <1>4, <1>5, Zenon DEF ReapSlot

\* A child that leaves or drains stays what it is.
LEMMA ChildEffect ==
    ASSUME TableTypes, NEW p \in Pids, Obey(p) \/ Drained(p) \/ LoaderDone(p) \/ Crash(p)
    PROVE  Quiet
  <1>1. UNCHANGED <<slot, last>>
    BY Zenon DEF Obey, Drained, LoaderDone, Crash, mvars
  <1>2. \E z : os' = [os EXCEPT ![p].st = z]
    BY Zenon DEF Obey, Drained, LoaderDone, Crash, Dies
  <1>3. \A q \in Pids : os'[q].kind = os[q].kind
    BY <1>2 DEF TableTypes, Proc
  <1>4. QED
    BY <1>1, <1>3, Zenon DEF Quiet, AllStay, Stays, Named

\* Every step leaves the children where they are, or spawns one.
LEMMA StepEffect == ASSUME IInv, KInv, [Next]_vars PROVE Quiet \/ Spawn
  <1>1. TableTypes
    BY TypeParts, Zenon DEF IInv
  <1>2. CASE \/ LoopTop \/ Exit \/ GoOn \/ ReconfNewBinary \/ Reconf \/ Restart \/ TimerFires
             \/ (\E sig \in Admin : SendSignal(sig)) \/ UNCHANGED vars
    <2>1. UNCHANGED <<slot, last, os>>
      BY <1>2, Zenon DEF LoopTop, Exit, GoOn, ReconfNewBinary, Reconf, Restart, TimerFires,
                  SendSignal, mvars, vars
    <2>2. QED
      BY <2>1, NoEffect, Zenon
  <1>3. CASE ChildStep
    BY <1>1, <1>3, ChildEffect, Zenon DEF ChildStep
  <1>4. CASE StartOne \/ ChangeBinary \/ Suspend \/ ReapSlot
    BY <1>4, StartEffect, BinaryEffect, SuspendEffect, ReapEffect, Zenon
  <1>5. CASE Terminate \/ Quit \/ Reloaded \/ Reopen \/ NoAccept
    BY <1>1, <1>5, TellingEffect, Zenon
  <1>6. QED
    BY <1>2, <1>3, <1>4, <1>5, Zenon DEF Next, MasterStep

\* The table goes on knowing what its children are.
LEMMA KindStep == ASSUME IInv, KInv, [Next]_vars, IInv' PROVE KInv'
  <1>1. Agree' /\ Unique' /\ TableTypes'
    BY TypeParts, Zenon DEF IInv, Table
  <1>2. ASSUME NEW s \in Slots, (Named(s))'
        PROVE  slot'[s].pid \in Pids /\ (~slot'[s].exited => os'[slot'[s].pid].st # "none")
    BY <1>1, <1>2, Zenon DEF Agree, Named, TableTypes, Slot
  <1>3. CASE Quiet
    BY <1>2, <1>3 DEF Quiet, AllStay, Stays, KInv
  <1>4. ASSUME NEW t \in Slots, Spawns(t)
        PROVE  KInv'
    <2>1. \A s \in Slots \ {t} : (Named(s))' => slot'[s].pid # slot'[t].pid
      BY <1>1, <1>4, Zenon DEF Unique, Spawns
    <2>2. QED
      BY <1>2, <1>4, <2>1 DEF Spawns, Stays, KInv
  <1>5. QED
    BY <1>3, <1>4, StepEffect, Zenon DEF Spawn

-----------------------------------------------------------------------------
(* "live" *)

\* A step that starts nobody and does not search the table.
LEMMA KeepLive ==
    ASSUME LInv, AllStay, pc \notin {"start", "reloaded", "reap"},
           pc' \notin {"start", "reloaded", "reap", "exited"}, UNCHANGED <<live, retired>>
    PROVE  LInv'
  <1>1. CASE live \/ retired
    BY <1>1, Zenon DEF LInv
  <1>2. CASE ~live /\ ~retired
    <2>1. \A s \in Slots : Named(s) /\ ~slot[s].exited => slot[s].detached
      BY <1>2, Zenon DEF LInv
    <2>2. \A s \in Slots : (Named(s))' /\ ~slot'[s].exited => slot'[s].detached
      BY <2>1, Zenon DEF AllStay, Stays
    <2>3. QED
      BY <2>2, Zenon DEF LInv
  <1>3. QED
    BY <1>1, <1>2, Zenon

\* A step after which live or the history says all there is to say.
LEMMA SetLive ==
    ASSUME live' \/ retired', pc' # "exited"
    PROVE  LInv'
  BY Zenon DEF LInv

\* One turn of the search of the table.
LEMMA ReapLive == ASSUME IInv, KInv, LInv, ReapSlot PROVE LInv'
  <1> USE MasterAssumption
  <1>1. /\ TableTypes /\ OtherTypes /\ pc = "reap"
        /\ i < last /\ i \in Nat /\ last \in 0..MaxProcesses
    BY TypeParts, Zenon DEF IInv, Index, ReapSlot, TableTypes, OtherTypes
  <1>2. /\ retired' = retired /\ pc' \in {"reap", "dispatch"} /\ last' \in Nat
        /\ \/ pc' = "reap" /\ i' = i + 1
           \/ pc' = "dispatch" /\ last' <= i + 1
    <2>1. last' \in Nat
      <3>1. last' = last \/ last' = last - 1
        BY ZenonT(40) DEF ReapSlot, SpawnAgain, ForkFails, RemoveSlot
      <3>2. QED
        BY <1>1, <3>1
    <2>2. QED
      BY <1>1, <2>1 DEF ReapSlot
  <1>3. CASE live' \/ retired
    BY <1>2, <1>3, SetLive, Zenon
  <1>4. CASE ~live' /\ ~retired
    <2>1. live => live'
      BY ZenonT(40) DEF ReapSlot, SpawnAgain
    <2>2. \A s \in Slots : Named(s) /\ ~slot[s].exited /\ s < i => slot[s].detached
      BY <1>1, <1>4, <2>1, Zenon DEF LInv
    <2>3. Quiet
      <3>1. ~Spawn
        BY Zenon, <1>1, <1>4 DEF Spawn
      <3>2. QED
        BY <3>1, ReapEffect, Zenon
    <2>4. PICK t \in Slots : t = i
      BY <1>1 DEF Slots
    <2>5. (Named(t))' /\ ~slot'[t].exited => slot'[t].detached
      <3>1. SUFFICES ASSUME (Named(t))', ~slot'[t].exited PROVE slot'[t].detached
        BY Zenon
      <3>2. Named(t) /\ ~slot[t].exited /\ slot'[t].detached = slot[t].detached
        BY <2>3, <3>1, Zenon DEF Quiet, AllStay, Stays
      <3>3. live' = (live \/ slot[t].exiting \/ ~slot[t].detached)
        BY <2>4, <3>2, Zenon DEF ReapSlot, Named
      <3>4. slot[t].detached
        BY <1>4, <3>3, Zenon
      <3>5. QED
        BY <3>2, <3>4, Zenon
    <2>6. ASSUME NEW s \in Slots, (Named(s))', ~slot'[s].exited, s <= i
          PROVE  slot'[s].detached
      <3>1. CASE s = t
        BY <2>5, <2>6, <3>1, Zenon
      <3>2. CASE s # t
        <4>1. s < i
          BY <1>1, <2>4, <2>6, <3>2 DEF Slots
        <4>2. QED
          BY <2>2, <2>3, <2>6, <4>1, Zenon DEF Quiet, AllStay, Stays
      <3>3. QED
        BY <3>1, <3>2, Zenon
    <2>7. \A s \in Slots : (Named(s))' /\ (pc' = "reap" => s < i') => s <= i
      <3>1. \A s \in Slots : s \in Nat
        BY DEF Slots
      <3>2. QED
        BY <1>1, <1>2, <3>1 DEF Named
    <2>8. QED
      BY <1>2, <2>6, <2>7, Zenon DEF LInv
  <1>5. QED
    BY <1>2, <1>3, <1>4, Zenon

\* Every step keeps live worth what it is.
LEMMA LiveStep == ASSUME IInv, KInv, LInv, [Next]_vars PROVE LInv'
  <1> USE MasterAssumption
  <1>1. TableTypes /\ OtherTypes
    BY TypeParts, Zenon DEF IInv
  <1>2. CASE Terminate \/ Quit \/ Reopen \/ NoAccept \/ LoopTop \/ GoOn
    <2>1. Quiet
      BY <1>1, <1>2, TellingEffect, NoEffect, Zenon DEF LoopTop, GoOn
    <2>2. /\ pc \in {"top", "dispatch", "reopen", "noaccept"} /\ UNCHANGED <<live, retired>>
          /\ pc' \in {"top", "suspend", From(1, flag), From(4, flag)}
      BY <1>2, Zenon DEF Terminate, Quit, Reopen, NoAccept, LoopTop, GoOn
    <2>3. pc' \notin {"start", "reloaded", "reap", "exited"}
      BY <2>2, FromType
    <2>4. QED
      BY <2>1, <2>2, <2>3, KeepLive, Zenon DEF Quiet
  <1>3. CASE StartOne
    <2>1. /\ pc = "start" /\ UNCHANGED <<live, retired, start>>
          /\ \/ pc' = pc
             \/ pc' = IF start.then = "restarted" THEN From(3, flag) ELSE start.then
      BY <1>3, Zenon DEF StartOne
    <2>2. start.then \in {"top", "reloaded", "restarted"}
      BY <1>1, Zenon DEF OtherTypes
    <2>3. From(3, flag) \notin {"start", "reloaded", "exited"}
      BY FromType
    <2>4. CASE start.then = "reloaded"
      BY <2>1, <2>4, Zenon DEF LInv
    <2>5. CASE start.then # "reloaded"
      <3>1. live' \/ retired'
        BY <2>1, <2>5, Zenon DEF LInv
      <3>2. pc' # "exited"
        BY <2>1, <2>2, <2>3, Zenon
      <3>3. QED
        BY <3>1, <3>2, SetLive, Zenon
    <2>6. QED
      BY <2>4, <2>5, Zenon
  <1>4. CASE Suspend
    <2>1. Quiet /\ pc = "suspend" /\ retired' = retired /\ last' = last
      BY <1>4, SuspendEffect, Zenon DEF Suspend
    <2>2. \/ pc' = "dispatch" /\ live' = live
          \/ pc' = "reap" /\ i' = 0
          \/ pc' = "dispatch" /\ ~(last > 0)
      BY <1>4, Zenon DEF Suspend
    <2>3. CASE pc' = "dispatch" /\ live' = live
      BY <2>1, <2>3, KeepLive, Zenon DEF Quiet
    <2>4. CASE pc' = "reap" /\ i' = 0
      BY <2>4 DEF LInv, Slots
    <2>5. CASE pc' = "dispatch" /\ ~(last > 0)
      BY <1>1, <2>1, <2>5 DEF LInv, Named, Slots, TableTypes
    <2>6. QED
      BY <2>2, <2>3, <2>4, <2>5, Zenon
  <1>5. CASE ReapSlot
    BY <1>5, ReapLive, Zenon
  <1>6. CASE Exit
    BY <1>6, Zenon DEF Exit, LInv, Named
  <1>7. CASE ReconfNewBinary \/ Reloaded \/ Restart
    <2>1. (live' \/ retired') /\ pc' \in {"start", From(2, flag)}
      BY <1>7, Zenon DEF ReconfNewBinary, Reloaded, Restart
    <2>2. pc' # "exited"
      BY <2>1, FromType
    <2>3. QED
      BY <2>1, <2>2, SetLive, Zenon
  <1>8. CASE Reconf
    <2>1. pc = "reconfigure" /\ UNCHANGED <<live, retired, slot, last, os>>
      BY <1>8, Zenon DEF Reconf
    <2>2. CASE pc' = "top"
      BY <2>1, <2>2, KeepLive, NoEffect, Zenon DEF Quiet
    <2>3. CASE pc' = "start" /\ start' = [reload |-> TRUE, then |-> "reloaded"]
      BY <2>3, Zenon DEF LInv
    <2>4. QED
      BY <1>8, <2>2, <2>3, Zenon DEF Reconf
  <1>9. CASE ChangeBinary
    <2>1. pc = "change_binary" /\ pc' = From(5, flag) /\ UNCHANGED <<live, retired>>
      BY <1>9, Zenon DEF ChangeBinary
    <2>2. pc' \notin {"start", "reloaded", "reap", "exited"}
      BY <2>1, FromType
    <2>3. CASE Quiet
      BY <2>1, <2>2, <2>3, KeepLive, Zenon DEF Quiet
    <2>4. ASSUME NEW t \in Slots, Spawns(t), slot'[t].detached
          PROVE  LInv'
      <3>1. CASE live \/ retired
        BY <2>1, <2>2, <3>1, SetLive, Zenon
      <3>2. CASE ~live /\ ~retired
        <4>1. \A s \in Slots : Named(s) /\ ~slot[s].exited => slot[s].detached
          BY <2>1, <3>2, Zenon DEF LInv
        <4>2. \A s \in Slots : (Named(s))' /\ ~slot'[s].exited => slot'[s].detached
          BY <2>4, <4>1, Zenon DEF Spawns, Stays
        <4>3. QED
          BY <2>2, <4>2, Zenon DEF LInv
      <3>3. QED
        BY <3>1, <3>2, Zenon
    <2>5. QED
      BY <1>9, <2>1, <2>3, <2>4, BinaryEffect, Zenon DEF Spawn
  <1>10. CASE ChildStep \/ TimerFires \/ (\E sig \in Admin : SendSignal(sig)) \/ UNCHANGED vars
    <2>1. UNCHANGED <<pc, live, retired, start, slot, last, i>>
      BY <1>10, Zenon DEF ChildStep, Obey, Drained, LoaderDone, Crash, TimerFires, SendSignal, vars, mvars
    <2>2. QED
      BY <2>1, Zenon DEF LInv, Named
  <1>11. QED
    BY <1>2, <1>3, <1>4, <1>5, <1>6, <1>7, <1>8, <1>9, <1>10, Zenon DEF Next, MasterStep

\* The invariants of the children hold initially.
LEMMA InitLive == Init => KInv /\ LInv
  BY DEF Init, KInv, LInv, Named, Slots

-----------------------------------------------------------------------------
(* KILL *)

\* Without a spawn, children that were asked to leave stay asked.
LEMMA AskedStays == ASSUME Asked, AllStay PROVE Asked'
  BY Zenon DEF Asked, AllStay, Stays

\* The first round of a quick shutdown asks every child.
LEMMA FirstRound ==
    ASSUME TableTypes, RInv, pc = "dispatch", last' = last, SignalWorkers("TERM", flag)
    PROVE  Asked'
  <1> SUFFICES ASSUME NEW s \in Slots, (Named(s))', ~slot'[s].exited, ~slot'[s].detached
               PROVE  slot'[s].exiting
    BY Zenon DEF Asked
  <1>1. Stays(s)
    BY SignalEffect, Zenon DEF Quiet, AllStay
  <1>2. Named(s) /\ ~slot[s].exited /\ ~slot[s].detached /\ slot[s] \in Slot
    BY <1>1, Zenon DEF Stays, TableTypes
  <1>3. ~slot[s].just
    BY <1>2, Zenon DEF RInv, JustNew, Reloading
  <1>4. Addressed(slot[s], "TERM")
    BY <1>2, <1>3, Zenon DEF Addressed, Named
  <1>5. slot'[s] = SignalSlot(slot[s], "TERM")
    BY <1>2, Zenon DEF SignalWorkers, Named
  <1>6. QED
    BY <1>2, <1>4, <1>5, Zenon DEF SignalSlot, Slot

\* A round that is not put off asks the children to leave while the delay is short.
LEMMA TermFirst ==
    ASSUME Terminate, ~(sigio > 0), ~(delay' > 1000)
    PROVE  SignalWorkers("TERM", flag)
  BY SMT DEF Terminate

\* Every step keeps the invariant of the delay.
LEMMA DelayStep == ASSUME IInv, KInv, RInv, DInv, [Next]_vars PROVE DInv'
  <1> USE MasterAssumption
  <1>1. TableTypes /\ OtherTypes /\ delay \in Nat
    BY TypeParts, Zenon DEF IInv, OtherTypes
  <1>2. ASSUME delay = 0, UNCHANGED <<delay, sigio>>
        PROVE  DInv'
    BY <1>2, Zenon DEF DInv
  <1>3. CASE \/ StartOne \/ ReconfNewBinary \/ Reconf \/ Reloaded \/ Restart
             \/ Reopen \/ ChangeBinary \/ NoAccept
    <2>1. /\ UNCHANGED <<delay, sigio>>
          /\ pc \in {"start", "reconfigure", "reloaded", "restart", "reopen",
                     "change_binary", "noaccept"}
      BY <1>3, Zenon DEF StartOne, ReconfNewBinary, Reconf, Reloaded, Restart, Reopen,
                  ChangeBinary, NoAccept
    <2>2. delay = 0
      BY <2>1, Zenon DEF DInv
    <2>3. QED
      BY <1>2, <2>1, <2>2, Zenon
  <1>4. CASE Quit \/ GoOn
    <2>1. UNCHANGED <<delay, sigio>> /\ "terminate" \notin flag
      BY <1>4, Zenon DEF Quit, GoOn, ShuttingDown
    <2>2. delay = 0
      BY <2>1, Zenon DEF DInv
    <2>3. QED
      BY <1>2, <2>1, <2>2, Zenon
  <1>5. CASE LoopTop
    <2>1. UNCHANGED <<slot, last, os>> /\ pc' = "suspend"
      BY <1>5, Zenon DEF LoopTop
    <2>2. CASE delay = 0
      BY <1>2, <1>5, <2>2, Zenon DEF LoopTop
    <2>3. CASE delay # 0
      <3>1. delay' # 0
        BY <1>1, <1>5, <2>3 DEF LoopTop
      <3>2. "terminate" \in flag'
        BY <1>5, <2>3, Zenon DEF LoopTop, DInv
      <3>3. Asked'
        BY <2>1, <2>3, AskedStays, NoEffect, Zenon DEF DInv, Quiet
      <3>4. QED
        BY <2>1, <3>1, <3>2, <3>3, Zenon DEF DInv
    <2>4. QED
      BY <2>2, <2>3, Zenon
  <1>6. CASE Suspend
    <2>1. /\ UNCHANGED <<delay, sigio>> /\ pc' \in {"reap", "dispatch"}
          /\ "terminate" \in flag => "terminate" \in flag'
      BY <1>6, Zenon DEF Suspend
    <2>2. Asked => Asked'
      BY <1>6, AskedStays, SuspendEffect, Zenon DEF Quiet
    <2>3. QED
      BY <2>1, <2>2, Zenon DEF DInv
  <1>7. CASE ReapSlot
    <2>1. /\ UNCHANGED <<delay, sigio>> /\ pc = "reap" /\ pc' \in {"reap", "dispatch"}
      BY <1>7, Zenon DEF ReapSlot
    <2>2. "terminate" \in flag => "terminate" \in flag'
      BY ZenonT(40), <1>7 DEF ReapSlot, EndUpgrade
    <2>3. CASE delay = 0
      BY <1>2, <2>1, <2>3, Zenon
    <2>4. CASE delay # 0
      <3>1. Asked /\ "terminate" \in flag
        BY <2>4, Zenon DEF DInv
      <3>2. ShuttingDown
        BY <3>1, Zenon DEF ShuttingDown
      <3>3. Quiet
        BY <1>7, <2>1, <3>2, ReapEffect, Zenon DEF Spawn
      <3>4. Asked'
        BY <3>1, <3>3, AskedStays, Zenon DEF Quiet
      <3>5. QED
        BY <2>1, <2>2, <2>4, <3>1, <3>4, Zenon DEF DInv
    <2>5. QED
      BY <2>3, <2>4, Zenon
  <1>8. CASE Exit
    <2>1. UNCHANGED <<delay, sigio, flag, slot, last, os>> /\ pc' = "exited"
      BY <1>8, Zenon DEF Exit
    <2>2. QED
      BY <2>1, AskedStays, NoEffect, Zenon DEF DInv, Quiet
  <1>9. CASE Terminate
    <2>1. /\ pc = "dispatch" /\ pc' = "top" /\ "terminate" \in flag /\ last' = last
          /\ delay' = IF delay = 0 THEN 50 ELSE delay
      BY <1>9, Zenon DEF Terminate
    <2>2. "terminate" \in flag'
      BY ZenonT(40), <1>9 DEF Terminate, SignalWorkers
    <2>3. delay' # 0
      BY <2>1
    <2>4. CASE delay = 0
      <3>1. sigio = 0 /\ delay' = 50
        BY <2>1, <2>4, Zenon DEF DInv
      <3>2. SignalWorkers("TERM", flag)
        <4>1. ~(sigio > 0) /\ ~(delay' > 1000)
          BY <3>1
        <4>2. QED
          BY <1>9, <4>1, TermFirst, Zenon
      <3>3. Asked'
        BY <1>1, <2>1, <3>2, FirstRound, Zenon
      <3>4. QED
        BY <2>1, <2>2, <2>3, <3>3, Zenon DEF DInv
    <2>5. CASE delay # 0
      <3>1. Asked'
        BY <1>1, <1>9, <2>5, AskedStays, TellingEffect, Zenon DEF DInv, Quiet
      <3>2. QED
        BY <2>1, <2>2, <2>3, <3>1, Zenon DEF DInv
    <2>6. QED
      BY <2>4, <2>5, Zenon
  <1>10. CASE ChildStep \/ TimerFires \/ (\E sig \in Admin : SendSignal(sig)) \/ UNCHANGED vars
    <2>1. UNCHANGED <<pc, flag, delay, sigio, slot, last>>
      BY <1>10, Zenon DEF ChildStep, Obey, Drained, LoaderDone, Crash, TimerFires, SendSignal, vars, mvars
    <2>2. QED
      BY <2>1, Zenon DEF DInv, Asked, Named
  <1>11. QED
    BY <1>3, <1>4, <1>5, <1>6, <1>7, <1>8, <1>9, <1>10, Zenon DEF Next, MasterStep

\* Only KILL makes a running child a zombie.
LEMMA DeliverDeadly ==
    ASSUME NEW o \in Proc, NEW sig, o.st \in Running, Deliver(o, sig).st \in Zombie
    PROVE  sig = "KILL"
  BY Zenon DEF Deliver, Proc, Running, Zombie

\* A child the master kills was asked to leave before.
LEMMA KillStep ==
    ASSUME IInv, DInv, Next, pc = "dispatch", pc' = "top", NEW s \in Slots,
           s < last, slot[s].pid \in Pids,
           os[slot[s].pid].st \in Running, os'[slot[s].pid].st \in Zombie
    PROVE  slot[s].exiting
  <1> USE MasterAssumption
  <1>1. TableTypes /\ OtherTypes
    BY TypeParts, Zenon DEF IInv
  <1>2. PICK p \in Pids : p = slot[s].pid
    BY Zenon
  <1>3. os[p] \in Proc /\ os[p].st \in Running /\ os'[p].st \in Zombie /\ os'[p] # os[p]
    BY <1>1, <1>2, Zenon DEF TableTypes, Running, Zombie
  <1>4. ASSUME NEW sig, NEW f, SignalWorkers(sig, f)
        PROVE  /\ sig = "KILL"
               /\ \E t \in Slots : t < last /\ Addressed(slot[t], sig) /\ ~slot[t].exited
                                  /\ slot[t].pid = p
    <2> DEFINE used == {t \in Slots : t < last /\ Addressed(slot[t], sig)}
               hit  == {slot[t].pid : t \in {u \in used : ~slot[u].exited}}
    <2>1. os'[p] = IF p \in hit THEN Deliver(os[p], sig) ELSE os[p]
      BY <1>4, Zenon DEF SignalWorkers
    <2>2. p \in hit /\ os'[p] = Deliver(os[p], sig)
      BY <1>3, <2>1, Zenon
    <2>3. QED
      BY <1>3, <2>2, DeliverDeadly, Zenon
  <1>5. os' # os
    BY <1>3, Zenon
  <1>6. CASE Terminate
    <2>1. SignalWorkers(IF delay' > 1000 THEN "KILL" ELSE "TERM", flag)
      BY Zenon, <1>5, <1>6 DEF Terminate
    <2>2. delay' > 1000
      BY <1>4, <2>1
    <2>3. delay # 0
      BY <1>6, <2>2 DEF Terminate
    <2>4. PICK t \in Slots : /\ t < last /\ ~slot[t].exited /\ ~slot[t].detached
                             /\ slot[t].pid = p
      BY <1>4, <2>1 DEF Addressed
    <2>5. Named(t) /\ Named(s)
      BY <1>2, <2>4, Zenon DEF Named
    <2>6. t = s
      BY <1>2, <2>4, <2>5, Zenon DEF IInv, Table, Unique
    <2>7. QED
      BY <2>3, <2>4, <2>5, <2>6, Zenon DEF DInv, Asked
  <1>7. CASE Quit
    BY <1>4, <1>7 DEF Quit
  <1>8. CASE GoOn
    BY <1>5, <1>8, Zenon DEF GoOn
  <1>9. pc' # pc /\ pc = "dispatch" /\ pc' = "top"
    BY Zenon
  <1>10. ~(ChildStep \/ TimerFires \/ (\E sig \in Admin : SendSignal(sig)))
    BY <1>9, Zenon DEF ChildStep, Obey, Drained, LoaderDone, Crash, TimerFires, SendSignal, mvars
  <1>11. Terminate \/ Quit \/ GoOn
    BY <1>9, <1>10, Zenon DEF Next, MasterStep, StartOne, LoopTop, Suspend, ReapSlot, Exit,
       ReconfNewBinary, Reconf, Reloaded, Restart, Reopen, ChangeBinary, NoAccept
  <1>12. QED
    BY <1>6, <1>7, <1>8, <1>11, Zenon

-----------------------------------------------------------------------------
(* The invariant, and the theorems.  Only the number of workers needs what *)
(* is known of finite sets.                                                *)

INSTANCE FiniteSetTheorems

\* The number of workers that a termination round waits for is a number.
LEMMA WorkersNat == Cardinality(Workers) \in Nat
<1>1. Kinds \in Seq(Kind)
  BY MasterAssumption, Zenon
<1>2. DOMAIN Kinds = 1..Len(Kinds) /\ Len(Kinds) \in Nat
  BY <1>1
<1>3. IsFiniteSet(DOMAIN Kinds)
  BY <1>2, FS_Interval
<1>4. IsFiniteSet(Workers)
  BY <1>3, FS_Subset, Zenon DEF Workers
<1> QED
  BY <1>4, FS_CardinalityType, Zenon

\* The parts that tell the children something preserve the invariant.
LEMMA TellingInv ==
    ASSUME IInv, Terminate \/ Quit \/ Reloaded \/ Reopen \/ NoAccept
    PROVE  IInv'
<1> USE MasterAssumption
<1>1. TableTypes /\ OtherTypes /\ Table
  BY TypeParts, Zenon DEF IInv
<1>2. CASE Terminate
  <2>1. /\ TableTypes' /\ Table' /\ flag' \subseteq Flags
        /\ pend' \subseteq Admin \cup {"CHLD", "ALRM"}
    <3>1. CASE sigio > 0
      BY <3>1, <1>1, <1>2, QuietTable, Zenon DEF Terminate, OtherTypes
    <3>2. CASE ~(sigio > 0)
      <4>1. SignalWorkers(IF delay' > 1000 THEN "KILL" ELSE "TERM", flag) /\ last' = last
        BY <3>2, <1>2 DEF Terminate
      <4>2. PICK sig \in {"KILL", "TERM"} : sig = IF delay' > 1000 THEN "KILL" ELSE "TERM"
        OBVIOUS
      <4>3. SignalWorkers(sig, flag)
        BY <4>1, <4>2, Zenon
      <4>4. flag \in SUBSET Flags
        BY <1>1, Zenon DEF OtherTypes
      <4> QED
        BY SMTT(40), <4>1, <4>3, <4>4, SignalStep
    <3> QED
      BY <3>1, <3>2, Zenon
  <2>2. sigio' \in Nat
    <3>1. CASE sigio > 0
      BY SMTT(40), <3>1, <1>1, <1>2 DEF Terminate, OtherTypes
    <3>2. CASE ~(sigio > 0)
      BY SMTT(40), <3>2, <1>2, WorkersNat DEF Terminate
    <3> QED
      BY <3>1, <3>2, Zenon
  <2>3. /\ pc' = "top" /\ delay' \in Nat
        /\ UNCHANGED <<newbin, live, timer, gen, i, start, sent, forkFails, deaths, retired>>
    BY <1>1, <1>2, Zenon DEF Terminate, OtherTypes, bounds
  <2>4. OtherTypes' /\ Index'
    BY <1>1, <2>1, <2>2, <2>3, Zenon DEF OtherTypes, Index
  <2> QED
    BY <2>1, <2>4, TypeParts, Zenon DEF IInv
<1>3. CASE Quit \/ Reloaded \/ Reopen \/ NoAccept
  <2>1. PICK sig \in {"QUIT", "USR1"}, f \in SUBSET Flags : SignalWorkers(sig, f)
    <3>1. flag \in SUBSET Flags /\ flag \ {"reopen"} \in SUBSET Flags
      BY <1>1, Zenon DEF OtherTypes
    <3>2. (flag \ {"noaccept"}) \cup {"noaccepting"} \in SUBSET Flags
      BY <1>1, Zenon DEF OtherTypes, Flags
    <3> QED
      BY <1>3, <3>1, <3>2, Zenon DEF Quit, Reloaded, Reopen, NoAccept
  <2>2. pc' \in {"top", "reconfigure", "restart", "reopen", "change_binary", "noaccept"}
    <3>1. From(2, flag) \in {"top", "reconfigure", "restart", "reopen", "change_binary", "noaccept"}
      BY FromType
    <3>2. From(4, flag) \in {"top", "reconfigure", "restart", "reopen", "change_binary", "noaccept"}
      BY SMTT(40), FromType
    <3> QED
      BY <1>3, <3>1, <3>2, Zenon DEF Quit, Reloaded, Reopen, NoAccept
  <2>3. UNCHANGED <<last, newbin, delay, sigio, timer, gen, i, start, sent, forkFails, deaths, retired>>
    BY <1>3, Zenon DEF Quit, Reloaded, Reopen, NoAccept, bounds
  <2>4. live' \in BOOLEAN
    BY ZenonT(40), <1>1, <1>3 DEF Quit, Reloaded, Reopen, NoAccept, OtherTypes
  <2>5. /\ TableTypes' /\ Table' /\ flag' \subseteq Flags
        /\ pend' \subseteq Admin \cup {"CHLD", "ALRM"}
    BY <2>1, <2>3, SignalStep, Zenon
  <2>6. OtherTypes' /\ Index'
    BY <1>1, <2>2, <2>3, <2>4, <2>5, Zenon DEF OtherTypes, Index
  <2> QED
    BY <2>5, <2>6, TypeParts, Zenon DEF IInv
<1> QED
  BY <1>2, <1>3, Zenon

\* The inductive invariant: the process table and the kernel agree.
THEOREM Invariance == Spec => []IInv
<1>1. Init => IInv
  BY InitInv, Zenon
<1>2. IInv /\ [Next]_vars => IInv'
  <2> SUFFICES ASSUME IInv, [Next]_vars PROVE IInv'
    BY Zenon
  <2>1. CASE UNCHANGED vars
    BY SMTT(40), <2>1 DEF vars, mvars, bounds, IInv, TypeOK, Table, Unique, Agree, Found, Named, Index
  <2>2. CASE MasterStep
    BY Zenon, <2>2, StartOneInv, SuspendInv, ReapSlotInv, ChangeBinaryInv, TellingInv, QuietInv
       DEF MasterStep
  <2>3. CASE ChildStep
    BY <2>3, ChildInv, Zenon DEF ChildStep
  <2>4. CASE TimerFires \/ \E sig \in Admin : SendSignal(sig)
    BY <2>4, QuietInv, Zenon
  <2> QED
    BY <2>1, <2>2, <2>3, <2>4, Zenon DEF Next
<1> QED
  BY <1>1, <1>2, PTL DEF Spec

\* Type correctness of the master.
THEOREM TypeCorrect == Spec => []TypeOK
<1>1. IInv => TypeOK
  BY Zenon DEF IInv
<1> QED
  BY <1>1, Invariance, PTL

(* Every child that exists is in exactly one slot of ngx_processes, and    *)
(* that slot is not marked as exited.                                      *)
THEOREM Tracked == Spec => []ChildrenTracked
<1>1. IInv => ChildrenTracked
  <2> SUFFICES ASSUME IInv, NEW p \in Pids, os[p].st # "none"
               PROVE  /\ \E s \in Slots : Holds(s, p) /\ ~slot[s].exited
                      /\ \A s, t \in Slots : Holds(s, p) /\ Holds(t, p) => s = t
    BY Zenon DEF ChildrenTracked
  <2>1. PICK s \in Slots : Named(s) /\ slot[s].pid = p
    BY Zenon DEF IInv, Table, Found
  <2>2. Holds(s, p) /\ ~slot[s].exited
    BY <2>1, Zenon DEF IInv, Table, Agree, Named, Holds
  <2>3. \A t, u \in Slots : Holds(t, p) /\ Holds(u, p) => t = u
    BY MasterAssumption, Zenon DEF IInv, Table, Unique, Named, Holds
  <2> QED
    BY <2>2, <2>3, Zenon
<1> QED
  BY <1>1, Invariance, PTL

\* A slot that is not marked as exited names an existing child.
THEOREM NoStaleSlot == Spec => []SlotsNameChildren
<1>1. IInv => SlotsNameChildren
  BY Zenon DEF IInv, Table, Agree, Named, SlotsNameChildren
<1> QED
  BY <1>1, Invariance, PTL

(* After a reload, whenever the master sleeps, the running children of     *)
(* older configurations have been told to quit.                            *)
THEOREM ReloadCorrect == Spec => []ReloadRetiresOld
<1>1. Init => RInv
  BY DEF Init, RInv, StartShape, JustNew, OldExiting, Named, Slots, Reloading
<1>2. IInv /\ RInv /\ [Next]_vars => RInv'
  BY ReloadStep, Zenon
<1>3. RInv => ReloadRetiresOld
  BY Zenon DEF RInv, OldExiting, Reloading, ReloadRetiresOld, Named
<1> QED
  BY <1>1, <1>2, <1>3, Invariance, PTL DEF Spec

(* A child that was told to leave, or that dies during a shutdown, is not  *)
(* started again in its slot.                                              *)
THEOREM NoRespawn == Spec => NoRespawnAfterQuit
<1> DEFINE A == \A s \in Slots :
                  /\ s < last /\ s < last' /\ slot[s].exited
                  /\ slot[s].pid # NoPid /\ slot'[s].pid \in Pids /\ slot'[s].pid # slot[s].pid
                  => ~slot[s].exiting /\ flag \cap {"quit", "terminate"} = {}
<1>1. IInv /\ [Next]_vars => [A]_vars
  BY ReplacedStep, Zenon DEF Replaced, MayReplace
<1> QED
  BY <1>1, Invariance, PTL DEF Spec, NoRespawnAfterQuit

(* The master leaves only when no child is left that it is responsible     *)
(* for: reloads, crashes, failed forks and failed upgrades do not make     *)
(* "live" stale.                                                           *)
THEOREM LeavesNoOrphans == Spec => []NoOrphans
  <1>1. IInv /\ KInv /\ LInv => NoOrphans
    <2> SUFFICES ASSUME IInv, KInv, LInv, pc = "exited", ~retired,
                        NEW p \in Left
                 PROVE  FALSE
      BY Zenon DEF NoOrphans
    <2>1. p \in Pids /\ os[p].st \in Running /\ os[p].kind # "binary"
      BY Zenon DEF Left
    <2>2. PICK s \in Slots : Named(s) /\ slot[s].pid = p
      BY <2>1, Zenon DEF IInv, Table, Found, Running
    <2>3. ~slot[s].exited
      BY <2>1, <2>2, Zenon DEF IInv, Table, Agree, Running
    <2>4. slot[s].detached
      BY <2>2, <2>3, Zenon DEF LInv
    <2>5. QED
      BY <2>1, <2>2, <2>3, <2>4, Zenon DEF KInv
  <1>2. IInv /\ KInv /\ LInv /\ [Next]_vars /\ IInv' => KInv' /\ LInv'
    BY KindStep, LiveStep, Zenon
  <1>3. QED
    BY <1>1, <1>2, InitLive, Invariance, PTL DEF Spec

(* No child is killed that was not asked to leave before, whatever was     *)
(* reloaded, started or respawned between the signals.                     *)
THEOREM KillComesLast == Spec => KillIsLast
  <1> DEFINE A == pc = "dispatch" /\ pc' = "top" =>
                    \A s \in Slots :
                       /\ s < last /\ slot[s].pid \in Pids
                       /\ os[slot[s].pid].st \in Running /\ os'[slot[s].pid].st \in Zombie
                       => slot[s].exiting
             Inv == KInv /\ RInv /\ DInv
  <1>1. Init => Inv
    BY DEF Init, KInv, DInv, RInv, StartShape, JustNew, OldExiting, Named, Slots, Reloading
  <1>2. IInv /\ Inv /\ [Next]_vars /\ IInv' => Inv'
    BY KindStep, ReloadStep, DelayStep, Zenon
  <1>3. IInv /\ Inv /\ [Next]_vars => [A]_vars
    BY KillStep, Zenon
  <1>4. QED
    BY <1>1, <1>2, <1>3, Invariance, PTL DEF Spec, KillIsLast
=============================================================================
