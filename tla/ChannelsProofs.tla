--------------------------- MODULE ChannelsProofs ---------------------------
(***************************************************************************)
(* Proofs about Channels, whatever is started, and for any number of       *)
(* processes, reloads, deaths, failures and lost messages: a command to    *)
(* leave reaches only the child it is meant for, and a child that has read *)
(* its commands has the channels the master has.                           *)
(***************************************************************************)
EXTENDS Channels, TLAPS

Entries == [pid : Procs \cup {NoPid}, fd : Fds \cup {NoFd}, exited : BOOLEAN,
            exiting : BOOLEAN, respawn : BOOLEAN, just : BOOLEAN]

Commands ==
    [cmd : {"QUIT", "TERM"}]
        \cup [cmd : {"OPEN", "BARE"}, slot : Slots, chan : Procs \cup {Closed}]
        \cup [cmd : {"CLOSE"}, slot : Slots]

\* What a child is.
Child(c) ==
    /\ c = [st |-> c.st, own |-> c.own, kind |-> c.kind, inbox |-> c.inbox,
            reads |-> c.reads, told |-> c.told, missed |-> c.missed,
            table |-> c.table, fds |-> c.fds]
    /\ c.inbox \in Seq(Commands)

(* A state is tb, l, f, ps and m: the master's table, ngx_last_process, the *)
(* master's numbers, the children, and how many were spawned.              *)

\* The slots of children.
Used(tb, l) == {s \in Slots : s < l /\ tb[s].pid # NoPid}

(* A slot has its child's own channel, which no other slot has, and it is  *)
(* marked as exited only when its child is gone.                           *)
SlotsOK(tb, l, f, ps, m) ==
    /\ \A s \in Used(tb, l) : /\ tb[s].pid <= m
                              /\ tb[s].fd # NoFd => f[tb[s].fd] = tb[s].pid
                              /\ tb[s].exited => ps[tb[s].pid].st = "gone"
    /\ \A s, t \in Used(tb, l) : tb[s].pid = tb[t].pid => s = t

\* A channel has one number.
Names(f, m) ==
    /\ f \in [Fds -> Procs \cup {Closed}]
    /\ \A n \in Fds : f[n] <= m
    /\ \A k, n \in Fds : f[k] = f[n] /\ f[k] # Closed => k = n

\* Child c is told to leave, or will read so.
Told(c) == c.told \/ \E k \in DOMAIN c.inbox : c.inbox[k].cmd \in {"QUIT", "TERM"}

\* Whoever is told to leave is marked.
Right(tb, l, ps) ==
    \A p \in Procs : ps[p].st = "run" /\ Told(ps[p]) =>
        \E s \in Used(tb, l) : tb[s].pid = p /\ tb[s].exiting

Good(tb, l, f, ps, m) ==
    /\ tb \in [Slots -> Entries] /\ l \in 0..MaxProcesses /\ m \in 0..MaxSpawns
    /\ Names(f, m) /\ SlotsOK(tb, l, f, ps, m)
    /\ ps = [p \in Procs |-> ps[p]] /\ \A p \in Procs : Child(ps[p])
    /\ Right(tb, l, ps)

\* A slot is reaped when it is marked.
MasterOK ==
    /\ pslot \in Slots /\ fails \in 0..MaxFails /\ reloading \in BOOLEAN
    /\ pc \in {"start", "idle", "reap"} /\ i \in Int
    /\ pc = "start" => i > 0
    /\ pc = "reap" => i \in Used(slot, last) /\ slot[i].exited

RightInv == ~stale => MasterOK /\ Good(slot, last, fds, proc, spawned)

-----------------------------------------------------------------------------
(* What a child knows.  b are the commands it has not read, h the channel  *)
(* it has for slot s, and v the channel the master has for s.              *)

Opens(b, s)  == {k \in DOMAIN b : b[k].cmd = "OPEN" /\ b[k].slot = s}
Closes(b, s) == {k \in DOMAIN b : b[k].cmd = "CLOSE" /\ b[k].slot = s}

(* After all commands it will have v; a channel is never announced for a   *)
(* slot that has one.                                                      *)
Learns(b, h, s, v) ==
    /\ v = Closed =>
        /\ \A j \in Opens(b, s) : \E k \in Closes(b, s) : j < k
        /\ h # Closed => Closes(b, s) # {}
    /\ v # Closed =>
        \/ \E j \in Opens(b, s) : /\ b[j].chan = v
                                  /\ \A k \in Closes(b, s) : k < j
        \/ h = v /\ Closes(b, s) = {}
    /\ \A j, k \in Opens(b, s) : j < k =>
            \E m \in Closes(b, s) : j < m /\ m < k
    /\ h # Closed => \A j \in Opens(b, s) : \E m \in Closes(b, s) : m < j

\* The channels that will be announced.
Announced(b) == {k \in DOMAIN b : b[k].cmd = "OPEN"}

Chan(tb, s) == IF tb[s].fd = NoFd THEN Closed ELSE tb[s].pid

Holds(c, s) == IF c.table[s] = NoFd THEN Closed ELSE c.fds[c.table[s]]

(* The numbers f of the child in slot own name the channels in its table.  *)
NumbersOK(own, tab, f, m) ==
    /\ own \in Slots /\ tab \in [Slots -> Fds \cup {NoFd}] /\ Names(f, m)
    /\ \A s \in Slots \ {own} : tab[s] # NoFd => f[tab[s]] # Closed
    /\ \A s, t \in Slots \ {own} : tab[s] = tab[t] /\ tab[s] # NoFd => s = t
    /\ \A n \in Fds : f[n] # Closed => \E s \in Slots \ {own} : tab[s] = n

\* It is not told of itself, and the channels that are announced are new.
InboxOK(b, own, f, m) ==
    /\ \A k \in DOMAIN b : /\ b[k].cmd # "BARE"
                           /\ b[k].cmd \in {"OPEN", "CLOSE"} => b[k].slot # own
    /\ \A k \in Announced(b) : /\ b[k].chan # Closed /\ b[k].chan <= m
                               /\ \A n \in Fds : f[n] # b[k].chan
    /\ \A j, k \in Announced(b) : b[j].chan = b[k].chan => j = k

TableOK(c, m) ==
    /\ c.reads
    /\ NumbersOK(c.own, c.table, c.fds, m) /\ InboxOK(c.inbox, c.own, c.fds, m)

Agree(tb, l, f, ps, m) ==
    /\ \A s \in Slots : tb[s].fd # NoFd <=> s \in Used(tb, l)
    /\ \A n \in Fds : f[n] # Closed => \E s \in Slots : tb[s].fd = n
    /\ \A p \in Procs : ps[p].st = "run" => /\ ps[p].own \in Used(tb, l)
                                            /\ tb[ps[p].own].pid = p
    /\ \A p \in Procs : ps[p].st = "run" /\ ~ps[p].missed =>
        /\ TableOK(ps[p], m)
        /\ \A s \in Slots \ {ps[p].own} :
            Learns(ps[p].inbox, Holds(ps[p], s), s, Chan(tb, s))

PeersInv ==
    /\ stale => failed
    /\ ~failed => Agree(slot, last, fds, proc, spawned)

IInv == RightInv /\ PeersInv

-----------------------------------------------------------------------------
(* Numbers.                                                                *)

(* What is used of finite sets: numbers have a least one, the slots a      *)
(* command is written to can be counted, and m channels, or m without one  *)
(* of them, cannot fill more numbers than they are.  CountingHolds proves  *)
(* this at the end of the module, where FiniteSetTheorems comes in.        *)
Counting ==
    /\ \A S \in SUBSET Nat : S # {} => Min(S) \in S /\ \A y \in S : Min(S) <= y
    /\ \A S \in SUBSET Slots : /\ Cardinality(S) \in Nat
                               /\ S = {} => Cardinality(S) = 0
                               /\ \A s \in Slots : S = {s} => Cardinality(S) = 1
    /\ \A m, q \in Nat : Injection(Fds, (1..m) \ {q}) # {} =>
           MaxSpawns + MaxFails <= IF q \in 1..m THEN m - 1 ELSE m

\* Numbers have a least one.
LEMMA Least ==
    ASSUME Counting, NEW S \in SUBSET Nat, S # {}
    PROVE  Min(S) \in S /\ \A y \in S : Min(S) <= y
  BY Zenon DEF Counting

\* The numbers and slots are natural.
LEMMA Sizes ==
    /\ MaxProcesses \in Nat /\ MaxProcesses > 0
    /\ MaxSpawns \in Nat /\ MaxFails \in Nat
    /\ \A s \in Slots : s \in Nat /\ s < MaxProcesses
    /\ \A p \in Procs : p \in Nat /\ p > 0
    /\ \A n \in Fds : n \in Nat /\ n > 0
  <1>1. MaxProcesses \in Nat /\ MaxProcesses > 0 /\ MaxSpawns \in Nat /\ MaxFails \in Nat
    BY KindsAssumption
  <1>2. QED
    BY <1>1 DEF Slots, Procs, Fds

\* A number that is closed is no child's.
LEMMA ProcsOpen == Closed \notin Procs
  BY Sizes, SMT DEF Closed, Procs

\* A new inbox has no places.
LEMMA EmptyDomain == DOMAIN <<>> = {}
  BY SMT

\* A bound is within itself.
LEMMA NatRefl == ASSUME NEW n \in Nat PROVE n <= n
  BY SMT

(* A number is free as long as fewer than all the channels there may be    *)
(* are open.                                                               *)
LEMMA LowestFree ==
    ASSUME Counting, NEW f, NEW m \in Nat, Names(f, m), m < MaxSpawns + MaxFails
    PROVE  Lowest(f) \in Fds /\ f[Lowest(f)] = Closed
  <1> DEFINE F == {n \in Fds : f[n] = Closed}
  <1>1. F # {}
    <2> SUFFICES ASSUME F = {} PROVE FALSE
      BY Zenon
    <2>1. f \in [Fds -> 1..m]
      <3>1. f \in [Fds -> Procs \cup {Closed}] /\ \A n \in Fds : f[n] <= m
        BY Zenon DEF Names
      <3>2. ASSUME NEW n \in Fds PROVE f[n] \in 1..m
        BY <3>1, Sizes DEF Closed
      <3>3. QED
        BY <3>1, <3>2, Zenon
    <2>2. (1..m) \ {0} = 1..m /\ 0 \notin 1..m /\ 0 \in Nat
      OBVIOUS
    <2>3. f \in Injection(Fds, (1..m) \ {0})
      BY <2>1, <2>2, Zenon DEF Names, Injection, IsInjective
    <2>4. MaxSpawns + MaxFails <= m
      BY <2>2, <2>3, Zenon DEF Counting
    <2>5. QED
      BY <2>4, Sizes
  <1>2. F \in SUBSET Nat
    BY Sizes, Zenon
  <1>3. Min(F) \in F
    BY <1>1, <1>2, Least, Zenon
  <1>4. QED
    BY <1>3, Zenon DEF Lowest

\* Naming a new channel keeps the names apart, and so does closing one.
LEMMA NamesKept ==
    ASSUME NEW f, NEW m \in Nat, Names(f, m), NEW n \in Fds
    PROVE  /\ Names([f EXCEPT ![n] = Closed], m)
           /\ \A p \in Procs :
                 (\A k \in Fds : f[k] # p) => \A l \in Nat : m <= l /\ p <= l =>
                     Names([f EXCEPT ![n] = p], l)
  <1>1. f \in [Fds -> Procs \cup {Closed}]
    BY Zenon DEF Names
  <1>2. \A k \in Fds : f[k] \in Nat
    BY <1>1, Sizes DEF Closed
  <1>3. Names([f EXCEPT ![n] = Closed], m)
    BY <1>1, <1>2 DEF Names, Closed
  <1>4. ASSUME NEW p \in Procs, \A k \in Fds : f[k] # p, NEW l \in Nat, m <= l, p <= l
        PROVE  Names([f EXCEPT ![n] = p], l)
    <2>1. p \in Nat /\ p # Closed
      BY Sizes DEF Closed
    <2>2. QED
      BY <1>1, <1>2, <1>4, <2>1 DEF Names
  <1>5. QED
    BY <1>3, <1>4, Zenon

-----------------------------------------------------------------------------
(* What a child learns.                                                    *)

\* d are the commands b and then m.
Longer(b, d, m) ==
    /\ b \in Seq(Commands) /\ d \in Seq(Commands) /\ Len(d) = Len(b) + 1
    /\ \A k \in 1..Len(b) : d[k] = b[k]
    /\ d[Len(b) + 1] = m

\* What announces and what closes a channel, after one more command.
LEMMA LongerSets ==
    ASSUME NEW b, NEW d, NEW m, Longer(b, d, m), NEW s
    PROVE  /\ Opens(b, s) \subseteq 1..Len(b) /\ Closes(b, s) \subseteq 1..Len(b)
           /\ Len(b) \in Nat
           /\ m.cmd = "OPEN" /\ m.slot = s =>
                 Opens(d, s) = Opens(b, s) \cup {Len(b) + 1}
           /\ ~(m.cmd = "OPEN" /\ m.slot = s) => Opens(d, s) = Opens(b, s)
           /\ m.cmd = "CLOSE" /\ m.slot = s =>
                 Closes(d, s) = Closes(b, s) \cup {Len(b) + 1}
           /\ ~(m.cmd = "CLOSE" /\ m.slot = s) => Closes(d, s) = Closes(b, s)
           /\ \A k \in Opens(b, s) : d[k] = b[k]
           /\ d[Len(b) + 1] = m
  <1>1. PICK l \in Nat : l = Len(b)
    BY DEF Longer
  <1>2. DOMAIN b = 1..l /\ DOMAIN d = 1..(l + 1)
    BY <1>1 DEF Longer
  <1>3. (\A k \in 1..l : d[k] = b[k]) /\ d[l + 1] = m
    BY <1>1, Zenon DEF Longer
  <1>4. \A k : k \in 1..(l + 1) <=> k \in 1..l \/ k = l + 1
    BY <1>1
  <1>5. Opens(b, s) \subseteq 1..l /\ Closes(b, s) \subseteq 1..l
    BY <1>2, Zenon DEF Opens, Closes
  <1>6. /\ m.cmd = "OPEN" /\ m.slot = s => Opens(d, s) = Opens(b, s) \cup {l + 1}
        /\ ~(m.cmd = "OPEN" /\ m.slot = s) => Opens(d, s) = Opens(b, s)
    BY <1>2, <1>3, <1>4, Zenon DEF Opens
  <1>7. /\ m.cmd = "CLOSE" /\ m.slot = s => Closes(d, s) = Closes(b, s) \cup {l + 1}
        /\ ~(m.cmd = "CLOSE" /\ m.slot = s) => Closes(d, s) = Closes(b, s)
    BY <1>2, <1>3, <1>4, Zenon DEF Closes
  <1>8. QED
    BY <1>1, <1>3, <1>5, <1>6, <1>7, Zenon

\* A child that is told that a channel was closed knows it.
LEMMA LearnsClosed ==
    ASSUME NEW b, NEW d, NEW m, Longer(b, d, m), NEW s, NEW h, NEW v,
           m.cmd = "CLOSE", m.slot = s, Learns(b, h, s, v)
    PROVE  Learns(d, h, s, Closed)
  <1>1. PICK l \in Nat : l = Len(b)
    BY LongerSets, Zenon
  <1>2. /\ Opens(b, s) \subseteq 1..l /\ Closes(b, s) \subseteq 1..l
        /\ Opens(d, s) = Opens(b, s) /\ Closes(d, s) = Closes(b, s) \cup {l + 1}
    <2>1. m.cmd # "OPEN"
      BY Zenon
    <2>2. /\ Opens(b, s) \subseteq 1..l /\ Closes(b, s) \subseteq 1..l
          /\ Closes(d, s) = Closes(b, s) \cup {l + 1}
      BY <1>1, LongerSets
    <2>3. QED
      BY <2>1, <2>2, LongerSets
  <1>3. QED
    BY <1>2 DEF Learns

\* A child that is told of a new channel of a slot that has none knows it.
LEMMA LearnsOpened ==
    ASSUME NEW b, NEW d, NEW m, Longer(b, d, m), NEW s, NEW h,
           m.cmd = "OPEN", m.slot = s, m.chan # Closed, Learns(b, h, s, Closed)
    PROVE  Learns(d, h, s, m.chan)
  <1>1. PICK l \in Nat : l = Len(b)
    BY LongerSets, Zenon
  <1>2. /\ Opens(b, s) \subseteq 1..l /\ Closes(b, s) \subseteq 1..l
        /\ Opens(d, s) = Opens(b, s) \cup {l + 1} /\ Closes(d, s) = Closes(b, s)
        /\ d[l + 1] = m
    BY <1>1, LongerSets
  <1>3. QED
    BY <1>2 DEF Learns

\* What a child is told of other slots leaves what it knows of a slot.
LEMMA LearnsOther ==
    ASSUME NEW b, NEW d, NEW m, Longer(b, d, m), NEW s, NEW h, NEW v,
           ~(m.cmd \in {"OPEN", "CLOSE"} /\ m.slot = s), Learns(b, h, s, v)
    PROVE  Learns(d, h, s, v)
  <1>1. /\ Opens(d, s) = Opens(b, s) /\ Closes(d, s) = Closes(b, s)
        /\ \A k \in Opens(b, s) : d[k] = b[k]
    BY LongerSets
  <1>2. QED
    BY <1>1, Zenon DEF Learns

\* The commands after the first are the same, one place before.
LEMMA Shorter ==
    ASSUME NEW b \in Seq(Commands), b # <<>>
    PROVE  /\ Len(b) \in Nat /\ Len(b) > 0 /\ Head(b) = b[1] /\ Head(b) \in Commands
           /\ Tail(b) \in Seq(Commands) /\ DOMAIN Tail(b) = 1..(Len(b) - 1)
           /\ DOMAIN b = 1..Len(b)
           /\ \A k \in 1..(Len(b) - 1) : Tail(b)[k] = b[k + 1]
  <1>1. PICK l \in Nat : l = Len(b)
    OBVIOUS
  <1>2. l > 0
    BY <1>1
  <1>3. Head(b) = b[1] /\ Head(b) \in Commands /\ DOMAIN b = 1..l
    BY <1>1, <1>2
  <1>4. Tail(b) \in Seq(Commands) /\ Len(Tail(b)) = l - 1
    BY <1>1, <1>2
  <1>5. DOMAIN Tail(b) = 1..(l - 1)
    BY <1>4
  <1>6. ASSUME NEW k \in 1..(l - 1) PROVE Tail(b)[k] = b[k + 1]
    BY <1>1, <1>2
  <1>7. QED
    BY <1>1, <1>2, <1>3, <1>4, <1>5, <1>6, Zenon

\* What announces and what closes a channel, after the first command.
LEMMA ShorterSets ==
    ASSUME NEW b \in Seq(Commands), b # <<>>, NEW s
    PROVE  /\ Opens(b, s) \subseteq 1..Len(b) /\ Closes(b, s) \subseteq 1..Len(b)
           /\ \A k \in Int : k \in Opens(Tail(b), s) <=> k > 0 /\ k + 1 \in Opens(b, s)
           /\ \A k \in Int : k \in Closes(Tail(b), s) <=> k > 0 /\ k + 1 \in Closes(b, s)
           /\ Opens(Tail(b), s) \subseteq Int /\ Closes(Tail(b), s) \subseteq Int
           /\ \A k \in Opens(Tail(b), s) : Tail(b)[k] = b[k + 1]
           /\ 1 \in Opens(b, s) <=> Head(b).cmd = "OPEN" /\ Head(b).slot = s
           /\ 1 \in Closes(b, s) <=> Head(b).cmd = "CLOSE" /\ Head(b).slot = s
  <1>1. PICK l \in Nat : l = Len(b)
    BY Shorter, Zenon
  <1>2. /\ l > 0 /\ Head(b) = b[1]
        /\ DOMAIN Tail(b) = 1..(l - 1) /\ DOMAIN b = 1..l
        /\ \A k \in 1..(l - 1) : Tail(b)[k] = b[k + 1]
    BY <1>1, Shorter, Zenon
  <1>3. \A k \in Int : k \in Opens(Tail(b), s) <=> k > 0 /\ k + 1 \in Opens(b, s)
    BY <1>2 DEF Opens
  <1>4. \A k \in Int : k \in Closes(Tail(b), s) <=> k > 0 /\ k + 1 \in Closes(b, s)
    BY <1>2 DEF Closes
  <1>5. QED
    BY <1>1, <1>2, <1>3, <1>4 DEF Opens, Closes

\* A child that reads of another slot, or no slot, knows no more of this one.
LEMMA LearnsByReading ==
    ASSUME NEW b \in Seq(Commands), b # <<>>, NEW s, NEW h, NEW v, Learns(b, h, s, v)
    PROVE  /\ ~(Head(b).cmd \in {"OPEN", "CLOSE"} /\ Head(b).slot = s) =>
                  Learns(Tail(b), h, s, v)
           /\ Head(b).cmd = "CLOSE" /\ Head(b).slot = s =>
                  Learns(Tail(b), Closed, s, v)
           /\ Head(b).cmd = "OPEN" /\ Head(b).slot = s =>
                  h = Closed /\ Learns(Tail(b), Head(b).chan, s, v)
  <1> DEFINE O == Opens(b, s)  C == Closes(b, s)
             P == Opens(Tail(b), s)  D == Closes(Tail(b), s)
  <1>1. PICK l \in Nat : l = Len(b)
    BY Shorter, Zenon
  <1>2. /\ O \subseteq 1..l /\ C \subseteq 1..l /\ P \subseteq Int /\ D \subseteq Int
        /\ \A k \in Int : k \in P <=> k > 0 /\ k + 1 \in O
        /\ \A k \in Int : k \in D <=> k > 0 /\ k + 1 \in C
        /\ \A k \in P : Tail(b)[k] = b[k + 1]
    BY <1>1, ShorterSets
  <1>3. /\ 1 \in O <=> Head(b).cmd = "OPEN" /\ Head(b).slot = s
        /\ 1 \in C <=> Head(b).cmd = "CLOSE" /\ Head(b).slot = s
    BY ShorterSets, Zenon
  <1>4. Head(b) = b[1]
    BY Shorter, Zenon
  <1>5. /\ v = Closed =>
            /\ \A j \in O : \E k \in C : j < k
            /\ h # Closed => C # {}
        /\ v # Closed =>
            \/ \E j \in O : b[j].chan = v /\ \A k \in C : k < j
            \/ h = v /\ C = {}
        /\ \A j, k \in O : j < k => \E m \in C : j < m /\ m < k
        /\ h # Closed => \A j \in O : \E m \in C : m < j
    BY Zenon DEF Learns
  <1> HIDE DEF O, C, P, D
  <1> DEFINE Known(g) ==
        /\ v = Closed =>
            /\ \A j \in P : \E k \in D : j < k
            /\ g # Closed => D # {}
        /\ v # Closed =>
            \/ \E j \in P : Tail(b)[j].chan = v /\ \A k \in D : k < j
            \/ g = v /\ D = {}
        /\ \A j, k \in P : j < k => \E m \in D : j < m /\ m < k
        /\ g # Closed => \A j \in P : \E m \in D : m < j
  <1>6. ASSUME NEW g, Known(g) PROVE Learns(Tail(b), g, s, v)
    BY <1>6, Zenon DEF Learns, P, D
  <1>7. \A j \in O : j = 1 \/ (j - 1 \in P /\ j - 1 + 1 = j)
    BY <1>2
  <1>8. \A j \in C : j = 1 \/ (j - 1 \in D /\ j - 1 + 1 = j)
    BY <1>2
  <1>9. v = Closed => \A j \in P : \E k \in D : j < k
    <2> SUFFICES ASSUME v = Closed, NEW j \in P PROVE \E k \in D : j < k
      BY Zenon
    <2>1. PICK k \in C : j + 1 < k
      BY <1>2, <1>5, Zenon
    <2>2. k # 1 /\ j \in Int /\ j > 0 /\ k \in Int
      BY <1>2, <2>1
    <2>3. k - 1 \in D /\ j < k - 1
      BY <1>8, <2>1, <2>2
    <2>4. QED
      BY <2>3, Zenon
  <1>10. \A j, k \in P : j < k => \E m \in D : j < m /\ m < k
    <2> SUFFICES ASSUME NEW j \in P, NEW k \in P, j < k
                 PROVE  \E m \in D : j < m /\ m < k
      BY Zenon
    <2>1. PICK m \in C : j + 1 < m /\ m < k + 1
      BY <1>2, <1>5
    <2>2. m # 1 /\ j \in Int /\ j > 0 /\ m \in Int /\ k \in Int
      BY <1>2, <2>1
    <2>3. m - 1 \in D /\ j < m - 1 /\ m - 1 < k
      BY <1>8, <2>1, <2>2
    <2>4. QED
      BY <2>3, Zenon
  <1>11. ASSUME v # Closed, NEW j \in O, j # 1, b[j].chan = v, \A k \in C : k < j
         PROVE  \E n \in P : Tail(b)[n].chan = v /\ \A k \in D : k < n
    <2>1. j - 1 \in P /\ j - 1 + 1 = j /\ j \in Int
      BY <1>2, <1>7, <1>11
    <2>2. Tail(b)[j - 1].chan = v
      BY <1>2, <1>11, <2>1, Zenon
    <2>3. \A k \in D : k < j - 1
      BY <1>2, <1>11, <2>1
    <2>4. QED
      BY <2>1, <2>2, <2>3, Zenon
  <1>12. \A j \in P : j \in Int /\ j > 0 /\ j + 1 \in O
    BY <1>2, Zenon
  <1>13. \A j \in D : j \in Int /\ j > 0 /\ j + 1 \in C
    BY <1>2, Zenon
  <1>14. ASSUME 1 \notin O, 1 \notin C PROVE Known(h)
    <2>1. C # {} => D # {}
      BY <1>8, <1>14, Zenon
    <2>2. v # Closed => \/ \E j \in P : Tail(b)[j].chan = v /\ \A k \in D : k < j
                        \/ h = v /\ D = {}
      BY <1>5, <1>11, <1>13, <1>14, Zenon
    <2>3. ASSUME h # Closed, NEW j \in P PROVE \E m \in D : m < j
      <3>1. PICK m \in C : m < j + 1
        BY <1>5, <1>12, <2>3, Zenon
      <3>2. m - 1 \in D /\ m - 1 < j
        BY <1>2, <1>8, <1>12, <1>14, <3>1
      <3>3. QED
        BY <3>2, Zenon
    <2>4. QED
      BY <1>5, <1>9, <1>10, <2>1, <2>2, <2>3, Zenon
  <1>15. ASSUME 1 \in C, 1 \notin O PROVE Known(Closed)
    <2>1. v # Closed => \E j \in P : Tail(b)[j].chan = v /\ \A k \in D : k < j
      BY <1>5, <1>11, <1>15, Zenon
    <2>2. QED
      BY <1>9, <1>10, <2>1, Zenon
  <1>16. ASSUME 1 \in O PROVE h = Closed
    BY <1>2, <1>5, <1>16
  <1>17. ASSUME 1 \in O, 1 \notin C PROVE Known(b[1].chan)
    <2>1. v = Closed => D # {}
      <3>1. v = Closed => \E k \in C : 1 < k
        BY <1>5, <1>17, Zenon
      <3>2. QED
        BY <1>2, <1>8, <3>1
    <2>2. ASSUME v # Closed
          PROVE  \/ \E j \in P : Tail(b)[j].chan = v /\ \A k \in D : k < j
                 \/ b[1].chan = v /\ D = {}
      <3>1. PICK j \in O : b[j].chan = v /\ \A k \in C : k < j
        BY <1>5, <1>16, <1>17, <2>2, Zenon
      <3>2. CASE j = 1
        BY <1>13, <3>1, <3>2
      <3>3. CASE j # 1
        BY <1>11, <2>2, <3>1, <3>3, Zenon
      <3>4. QED
        BY <3>2, <3>3, Zenon
    <2>3. ASSUME NEW j \in P PROVE \E m \in D : m < j
      <3>1. 1 < j + 1 /\ j + 1 \in O
        BY <1>12
      <3>2. PICK m \in C : 1 < m /\ m < j + 1
        BY <1>5, <1>17, <3>1, Zenon
      <3>3. m - 1 \in D /\ m - 1 < j
        BY <1>2, <1>8, <1>12, <3>2
      <3>4. QED
        BY <3>3, Zenon
    <2>4. QED
      BY <1>9, <1>10, <2>1, <2>2, <2>3, Zenon
  <1>18. QED
    BY <1>3, <1>4, <1>6, <1>14, <1>15, <1>16, <1>17, Zenon

-----------------------------------------------------------------------------
(* Writing to the channels.                                                *)

\* What child c may be after command m was written.
Gets(c, m) ==
    {c, [c EXCEPT !.missed = TRUE]}
        \cup {[c EXCEPT !.inbox = @ \o [k \in 1..n |-> m]] : n \in Nat}

\* Child c, of pid p, after n copies of m were written to its channel.
Sent(c, p, n, m, full) ==
    IF n = 0 \/ ~c.reads THEN c
    ELSE IF p \in full THEN [c EXCEPT !.missed = TRUE]
    ELSE [c EXCEPT !.inbox = @ \o [k \in 1..n |-> m]]

\* n of the targets lead to p.
Reaches(tb, f, ps, targets, m, full, p, n) ==
    /\ ngx_write_channel(tb, f, ps, targets, m, full)[p] = Sent(ps[p], p, n, m, full)
    /\ (\A s \in targets : Channel(tb, f, s) # p) => n = 0
    /\ \A s \in targets : (\A t \in targets : Channel(tb, f, t) = p <=> t = s) => n = 1

\* What a write does to child p depends on how many targets lead to p.
LEMMA WriteCount ==
    ASSUME Counting, NEW tb, NEW f, NEW ps, NEW targets \in SUBSET Slots, NEW m, NEW full,
           NEW p \in Procs
    PROVE  \E n \in Nat : Reaches(tb, f, ps, targets, m, full, p, n)
  <1> DEFINE S == {s \in targets : Channel(tb, f, s) = p}
  <1>1. S \in SUBSET Slots
    BY Zenon
  <1>2. PICK n \in Nat : n = Cardinality(S)
    BY <1>1, Zenon DEF Counting
  <1>3. ngx_write_channel(tb, f, ps, targets, m, full)[p] = Sent(ps[p], p, n, m, full)
    BY <1>2, Zenon DEF ngx_write_channel, Sent
  <1>4. ASSUME \A s \in targets : Channel(tb, f, s) # p PROVE n = 0
    <2>1. S = {}
      BY <1>4, Zenon
    <2>2. QED
      BY <1>1, <1>2, <2>1, Zenon DEF Counting
  <1>5. ASSUME NEW s \in targets, \A t \in targets : Channel(tb, f, t) = p <=> t = s
        PROVE  n = 1
    <2>1. S = {s}
      BY <1>5, Zenon
    <2>2. QED
      BY <1>1, <1>2, <2>1, Zenon DEF Counting
  <1>6. QED
    BY <1>3, <1>4, <1>5, Zenon DEF Reaches

\* A child is left as it is, misses the command, or gets it.
LEMMA WriteGets ==
    ASSUME Counting, NEW tb, NEW f, NEW ps, NEW targets \in SUBSET Slots, NEW m, NEW full,
           NEW p \in Procs
    PROVE  ngx_write_channel(tb, f, ps, targets, m, full)[p] \in Gets(ps[p], m)
  <1>1. PICK n \in Nat : Reaches(tb, f, ps, targets, m, full, p, n)
    BY WriteCount, Zenon
  <1>2. QED
    BY <1>1, Zenon DEF Gets, Sent, Reaches

\* A child that no target leads to gets nothing.
LEMMA WriteNone ==
    ASSUME Counting, NEW tb, NEW f, NEW ps, NEW targets \in SUBSET Slots, NEW m, NEW full,
           NEW p \in Procs, \A s \in targets : Channel(tb, f, s) # p
    PROVE  ngx_write_channel(tb, f, ps, targets, m, full)[p] = ps[p]
  <1>1. PICK n \in Nat : Reaches(tb, f, ps, targets, m, full, p, n)
    BY WriteCount, Zenon
  <1>2. QED
    BY <1>1, Zenon DEF Sent, Reaches

\* What is left alone in a child that gets a command.
LEMMA GetsFrame ==
    ASSUME NEW c, Child(c), NEW m \in Commands, NEW d \in Gets(c, m)
    PROVE  /\ Child(d) /\ d.st = c.st /\ d.own = c.own /\ d.reads = c.reads
           /\ d.told = c.told /\ d.table = c.table /\ d.fds = c.fds
           /\ c.missed => d.missed
           /\ Told(d) => Told(c) \/ m.cmd \in {"QUIT", "TERM"}
  <1>1. c = [st |-> c.st, own |-> c.own, kind |-> c.kind, inbox |-> c.inbox,
             reads |-> c.reads, told |-> c.told, missed |-> c.missed,
             table |-> c.table, fds |-> c.fds]
    BY Zenon DEF Child
  <1>2. CASE d = c
    BY <1>2, Zenon DEF Child
  <1>3. CASE d = [c EXCEPT !.missed = TRUE]
    BY <1>1, <1>3, Zenon DEF Child, Told
  <1>4. ASSUME NEW n \in Nat, d = [c EXCEPT !.inbox = @ \o [k \in 1..n |-> m]]
        PROVE  /\ Child(d) /\ d.st = c.st /\ d.own = c.own /\ d.reads = c.reads
               /\ d.told = c.told /\ d.table = c.table /\ d.fds = c.fds
               /\ c.missed => d.missed
               /\ Told(d) => Told(c) \/ m.cmd \in {"QUIT", "TERM"}
    <2> DEFINE b == c.inbox  a == [k \in 1..n |-> m]
    <2>1. b \in Seq(Commands)
      BY Zenon DEF Child
    <2>2. a \in Seq(Commands) /\ Len(a) = n
      OBVIOUS
    <2>3. PICK l \in Nat : l = Len(b)
      BY <2>1
    <2>4. /\ b \o a \in Seq(Commands) /\ DOMAIN b = 1..l
          /\ DOMAIN (b \o a) = 1..(l + n)
      BY <2>1, <2>2, <2>3
    <2>5. ASSUME NEW k \in DOMAIN (b \o a)
          PROVE  (b \o a)[k] = m \/ (k \in DOMAIN b /\ (b \o a)[k] = b[k])
      BY <2>1, <2>2, <2>3, <2>4
    <2>6. d = [st |-> c.st, own |-> c.own, kind |-> c.kind, inbox |-> b \o a,
               reads |-> c.reads, told |-> c.told, missed |-> c.missed,
               table |-> c.table, fds |-> c.fds]
      BY <1>1, <1>4, Zenon
    <2> HIDE DEF a, b
    <2>7. Child(d)
      BY <2>4, <2>6, Zenon DEF Child
    <2>8. Told(d) => Told(c) \/ m.cmd \in {"QUIT", "TERM"}
      <3>1. d.inbox = b \o a /\ d.told = c.told
        BY <2>6, Zenon
      <3>2. QED
        BY <2>5, <3>1, Zenon DEF Told, b
    <2>9. QED
      BY <2>6, <2>7, <2>8, Zenon
  <1>5. QED
    BY <1>2, <1>3, <1>4, Zenon DEF Gets

\* Child d is c with one more command.
OneMore(c, d, m) ==
    /\ Longer(c.inbox, d.inbox, m) /\ d.missed = c.missed /\ d.own = c.own
    /\ d.table = c.table /\ d.fds = c.fds /\ d.reads = c.reads /\ d.st = c.st

\* A child that gets a command gets it after the others.
LEMMA GetsOnce ==
    ASSUME NEW c, Child(c), NEW m \in Commands, NEW d,
           d = [c EXCEPT !.inbox = @ \o [k \in 1..1 |-> m]]
    PROVE  OneMore(c, d, m)
  <1> DEFINE b == c.inbox  a == [k \in 1..1 |-> m]
  <1>1. b \in Seq(Commands)
    BY Zenon DEF Child
  <1>2. a \in Seq(Commands) /\ Len(a) = 1 /\ a[1] = m
    OBVIOUS
  <1>3. d = [st |-> c.st, own |-> c.own, kind |-> c.kind, inbox |-> b \o a,
             reads |-> c.reads, told |-> c.told, missed |-> c.missed,
             table |-> c.table, fds |-> c.fds]
    BY Zenon DEF Child
  <1>4. Longer(b, b \o a, m)
    <2>1. PICK l \in Nat : l = Len(b)
      BY <1>1
    <2>2. b \o a \in Seq(Commands)
      BY <1>1, <1>2
    <2>3. \A k \in 1..l : (b \o a)[k] = b[k]
      BY <1>1, <1>2, <2>1
    <2>4. Len(b \o a) = l + 1 /\ (b \o a)[l + 1] = m
      <3>1. PICK n \in Nat : n = Len(a) /\ n = 1
        BY <1>2, Zenon
      <3>2. Len(b \o a) = l + n
        BY <1>1, <1>2, <2>1, <3>1
      <3>3. \A k \in 1..(l + n) : k > l => (b \o a)[k] = a[k - l]
        BY <1>1, <1>2, <2>1, <3>1
      <3>4. PICK k \in Nat : k = l + 1
        OBVIOUS
      <3>5. k \in 1..(l + n) /\ k > l /\ k - l = 1
        BY <3>1, <3>4
      <3>6. (b \o a)[k] = a[k - l]
        BY <3>3, <3>5, Zenon
      <3>7. QED
        BY <1>2, <3>1, <3>2, <3>4, <3>5, <3>6, Zenon
    <2>5. QED
      BY <1>1, <2>1, <2>2, <2>3, <2>4, Zenon DEF Longer
  <1> HIDE DEF a, b
  <1>5. d.inbox = b \o a
    BY <1>3
  <1>6. QED
    BY <1>3, <1>4, <1>5, Zenon DEF b, OneMore

\* ngx_pass_open_channel gives a value to every process.
LEMMA AnnouncesAll ==
    ASSUME NEW tb, NEW f, NEW ps, NEW l, NEW s, NEW full, ps = [p \in Procs |-> ps[p]]
    PROVE  LET P == ngx_pass_open_channel(tb, f, ps, l, s, full)
           IN  P = [p \in Procs |-> P[p]]
  <1> DEFINE P == ngx_pass_open_channel(tb, f, ps, l, s, full)
             T == {t \in Slots : t < l /\ t # s /\ tb[t].pid # NoPid /\ tb[t].fd # NoFd}
             m == [cmd |-> IF tb[s].fd = NoFd THEN "BARE" ELSE "OPEN",
                   slot |-> s, chan |-> Channel(tb, f, s)]
             W == ngx_write_channel(tb, f, ps, T, m, full)
  <1>1. P = ps \/ P = W
    BY Zenon DEF ngx_pass_open_channel
  <1>2. W = [p \in Procs |-> W[p]]
    BY Zenon DEF ngx_write_channel
  <1>3. QED
    BY <1>1, <1>2, Zenon

(* An announcement tells nobody to leave, and leaves the children as they  *)
(* are but for what they have to read.                                     *)
LEMMA Announces ==
    ASSUME Counting, NEW tb, NEW f, NEW ps, NEW l, NEW s \in Slots, NEW full,
           Channel(tb, f, s) \in Procs \cup {Closed},
           ps = [p \in Procs |-> ps[p]], \A p \in Procs : Child(ps[p])
    PROVE  LET P == ngx_pass_open_channel(tb, f, ps, l, s, full)
           IN  /\ P = [p \in Procs |-> P[p]]
               /\ \A p \in Procs : /\ Child(P[p]) /\ P[p].st = ps[p].st
                                   /\ P[p].own = ps[p].own
                                   /\ Told(P[p]) => Told(ps[p])
  <1> DEFINE P == ngx_pass_open_channel(tb, f, ps, l, s, full)
             T == {t \in Slots : t < l /\ t # s /\ tb[t].pid # NoPid /\ tb[t].fd # NoFd}
             m == [cmd |-> IF tb[s].fd = NoFd THEN "BARE" ELSE "OPEN",
                   slot |-> s, chan |-> Channel(tb, f, s)]
             W == ngx_write_channel(tb, f, ps, T, m, full)
  <1>1. P = ps \/ P = W
    BY Zenon DEF ngx_pass_open_channel
  <1>2. m \in Commands /\ m.cmd \notin {"QUIT", "TERM"}
    BY Zenon DEF Commands
  <1>3. T \in SUBSET Slots
    BY Zenon
  <1>4. W = [p \in Procs |-> W[p]]
    BY Zenon DEF ngx_write_channel
  <1> HIDE DEF T, m, P
  <1>5. ASSUME NEW p \in Procs PROVE W[p] \in Gets(ps[p], m)
    BY <1>3, WriteGets, Zenon
  <1> HIDE DEF W
  <1>6. ASSUME NEW p \in Procs
        PROVE  /\ Child(W[p]) /\ W[p].st = ps[p].st /\ W[p].own = ps[p].own
               /\ Told(W[p]) => Told(ps[p])
    BY <1>2, <1>5, GetsFrame, ZenonT(30)
  <1>7. QED
    BY <1>1, <1>4, <1>6, Zenon DEF P

\* Child c is spawned in slot s, and the others are told: what is true then.
Spawns(tb, l, f, ps, m, s, tb2, l2, g, P) ==
    /\ m < MaxSpawns /\ s \in Slots /\ s \notin Used(tb, l)
    /\ g = [f EXCEPT ![Lowest(f)] = m + 1]
    /\ \A t \in Slots : t # s => tb2[t] = tb[t]
    /\ tb2[s].pid = m + 1 /\ tb2[s].fd = Lowest(f) /\ ~tb2[s].exited
    /\ tb2 \in [Slots -> Entries]
    /\ l2 \in 0..MaxProcesses /\ Used(tb2, l2) = Used(tb, l) \cup {s}
    /\ P = [p \in Procs |-> P[p]] /\ (\A p \in Procs : Child(P[p]))
    /\ ~Told(P[m + 1])
    /\ \A p \in Procs : p # m + 1 =>
           P[p].st = ps[p].st /\ (Told(P[p]) => Told(ps[p]))

(* Child c of pid m + 1 is spawned in slot s, with copies of the table and *)
(* of the numbers, and announced.                                          *)
Forks(tb, l, f, ps, m, s, tb2, l2, g, P, c, full) ==
    /\ Spawns(tb, l, f, ps, m, s, tb2, l2, g, P)
    /\ c.st = "run" /\ c.own = s /\ c.reads /\ c.inbox = <<>> /\ ~c.missed /\ Child(c)
    /\ c.table = [t \in Slots |-> tb2[t].fd] /\ c.fds = f
    /\ P = ngx_pass_open_channel(tb2, g, [ps EXCEPT ![m + 1] = c], l2, s, full)

(* A new child in a free slot: every slot still has its child's channel,   *)
(* and nobody else is marked, or told.                                     *)
LEMMA SpawnGood ==
    ASSUME Counting, NEW tb, NEW l, NEW f, NEW ps, NEW m, NEW s, NEW tb2, NEW l2, NEW g, NEW P,
           Good(tb, l, f, ps, m), Spawns(tb, l, f, ps, m, s, tb2, l2, g, P)
    PROVE  Good(tb2, l2, g, P, m + 1)
  <1>1. PICK n, c : n = Lowest(f) /\ c = m + 1
    BY Zenon
  <1>2. /\ m < MaxSpawns /\ s \in Slots /\ s \notin Used(tb, l)
        /\ g = [f EXCEPT ![n] = c]
        /\ \A t \in Slots : t # s => tb2[t] = tb[t]
        /\ tb2[s].pid = c /\ tb2[s].fd = n /\ ~tb2[s].exited
    BY <1>1, Zenon DEF Spawns
  <1>3. /\ tb2 \in [Slots -> Entries]
        /\ l2 \in 0..MaxProcesses /\ Used(tb2, l2) = Used(tb, l) \cup {s}
        /\ P = [p \in Procs |-> P[p]] /\ (\A p \in Procs : Child(P[p]))
        /\ ~Told(P[c])
        /\ \A p \in Procs : p # c => P[p].st = ps[p].st /\ (Told(P[p]) => Told(ps[p]))
    BY <1>1, Zenon DEF Spawns
  <1>4. m \in Nat /\ c \in Procs /\ c \in 0..MaxSpawns /\ m < c
    BY <1>1, <1>2, Sizes DEF Good, Procs
  <1>5. Names(f, m) /\ SlotsOK(tb, l, f, ps, m) /\ tb \in [Slots -> Entries]
    BY Zenon DEF Good
  <1>6. n \in Fds /\ f[n] = Closed
    BY <1>1, <1>2, <1>4, <1>5, LowestFree, Sizes
  <1>7. f \in [Fds -> Procs \cup {Closed}] /\ \A k \in Fds : f[k] <= m
    BY <1>5, Zenon DEF Names
  <1>8. Names(g, c)
    <2>1. \A k \in Fds : f[k] # c
      BY <1>4, <1>7, Sizes DEF Closed
    <2>2. c \in Nat /\ m <= c /\ c <= c
      BY <1>4
    <2>3. QED
      BY <1>2, <1>4, <1>5, <1>6, <2>1, <2>2, NamesKept, Zenon
  <1>9. \A t \in Used(tb, l) : /\ t \in Slots /\ t # s /\ tb[t].pid \in Procs
                               /\ tb[t].fd \in Fds \cup {NoFd}
    BY <1>2, <1>5, Zenon DEF Used, Entries
  <1>10. ASSUME NEW t \in Used(tb, l)
         PROVE  /\ tb2[t] = tb[t] /\ tb[t].pid <= c /\ tb[t].pid # c
                /\ tb[t].fd # NoFd => g[tb[t].fd] = tb[t].pid
                /\ tb[t].exited => P[tb[t].pid].st = "gone"
    <2>1. tb2[t] = tb[t] /\ tb[t].pid \in Procs /\ tb[t].pid <= m
      BY <1>2, <1>5, <1>9, Zenon DEF SlotsOK
    <2>2. tb[t].pid <= c /\ tb[t].pid # c /\ tb[t].pid # Closed
      <3>1. \A p \in Procs : p <= m => p <= c /\ p # c /\ p # Closed
        BY <1>4, Sizes DEF Closed
      <3>2. QED
        BY <2>1, <3>1, Zenon
    <2>3. tb[t].fd # NoFd => tb[t].fd \in Fds /\ f[tb[t].fd] = tb[t].pid
      BY <1>5, <1>9, Zenon DEF SlotsOK
    <2>4. tb[t].fd # NoFd => g[tb[t].fd] = tb[t].pid
      BY <1>2, <1>6, <1>7, <2>2, <2>3, Zenon
    <2>5. tb[t].exited => P[tb[t].pid].st = "gone"
      BY <1>3, <1>5, <2>1, <2>2, Zenon DEF SlotsOK
    <2>6. QED
      BY <2>1, <2>2, <2>4, <2>5, Zenon
  <1>11. g[n] = c
    BY <1>2, <1>6, <1>7, Zenon
  <1>12. SlotsOK(tb2, l2, g, P, c)
    <2>1. \A t \in Used(tb2, l2) : /\ tb2[t].pid <= c
                                   /\ tb2[t].fd # NoFd => g[tb2[t].fd] = tb2[t].pid
                                   /\ tb2[t].exited => P[tb2[t].pid].st = "gone"
      <3>1. c <= c
        BY <1>4
      <3>2. \A t \in Used(tb, l) : /\ tb2[t].pid <= c
                                   /\ tb2[t].fd # NoFd => g[tb2[t].fd] = tb2[t].pid
                                   /\ tb2[t].exited => P[tb2[t].pid].st = "gone"
        BY <1>10, Zenon
      <3>3. QED
        BY <1>2, <1>3, <1>11, <3>1, <3>2, Zenon
    <2>2. \A t, u \in Used(tb2, l2) : tb2[t].pid = tb2[u].pid => t = u
      <3>1. \A t, u \in Used(tb, l) : tb[t].pid = tb[u].pid => t = u
        BY <1>5, Zenon DEF SlotsOK
      <3>2. \A t \in Used(tb, l) : tb2[t].pid = tb[t].pid /\ tb[t].pid # c
        BY <1>10, Zenon
      <3>3. QED
        BY <1>2, <1>3, <3>1, <3>2, Zenon
    <2>3. QED
      BY <2>1, <2>2, Zenon DEF SlotsOK
  <1>13. Right(tb2, l2, P)
    <2> SUFFICES ASSUME NEW p \in Procs, P[p].st = "run", Told(P[p])
                 PROVE  \E t \in Used(tb2, l2) : tb2[t].pid = p /\ tb2[t].exiting
      BY Zenon DEF Right
    <2>1. ps[p].st = "run" /\ Told(ps[p])
      BY <1>3, Zenon
    <2>2. PICK t \in Used(tb, l) : tb[t].pid = p /\ tb[t].exiting
      BY <2>1, Zenon DEF Good, Right
    <2>3. QED
      BY <1>3, <1>10, <2>2, Zenon
  <1>14. QED
    BY <1>1, <1>3, <1>4, <1>8, <1>12, <1>13, Zenon DEF Good

\* Slots are freed or marked, and channels closed.
Keeps(tb, l, f, m, tb2, l2, g, P) ==
    /\ tb2 \in [Slots -> Entries] /\ l2 \in 0..MaxProcesses
    /\ Used(tb2, l2) \subseteq Used(tb, l)
    /\ Names(g, m) /\ P = [p \in Procs |-> P[p]] /\ (\A p \in Procs : Child(P[p]))
    /\ \A t \in Used(tb2, l2) :
        /\ tb2[t].pid = tb[t].pid
        /\ tb2[t].fd # NoFd => tb2[t].fd = tb[t].fd /\ g[tb[t].fd] = f[tb[t].fd]
        /\ tb2[t].exited => P[tb[t].pid].st = "gone"
    /\ Right(tb2, l2, P)

\* The slots that are left have their channels.
LEMMA KeptGood ==
    ASSUME NEW tb, NEW l, NEW f, NEW ps, NEW m, NEW tb2, NEW l2, NEW g, NEW P,
           Good(tb, l, f, ps, m), Keeps(tb, l, f, m, tb2, l2, g, P)
    PROVE  Good(tb2, l2, g, P, m)
  <1>1. SlotsOK(tb, l, f, ps, m)
    BY Zenon DEF Good
  <1>2. SlotsOK(tb2, l2, g, P, m)
    BY <1>1 DEF SlotsOK, Keeps
  <1>3. QED
    BY <1>2, Zenon DEF Good, Keeps

\* The slot of a new child is free.
LEMMA FreeSlot ==
    ASSUME Counting, Good(slot, last, fds, proc, spawned)
    PROVE  /\ FirstFree \in Nat /\ FirstFree <= last /\ last \in Nat
           /\ FirstFree < last => FirstFree \in Slots /\ slot[FirstFree].pid = NoPid
           /\ FirstFree < MaxProcesses => FirstFree \in Slots
           /\ FirstFree \notin Used(slot, last)
  <1> DEFINE F == {s \in Slots : s < last /\ slot[s].pid = NoPid} \cup {last}
  <1>1. last \in Nat /\ last <= MaxProcesses
    BY Sizes DEF Good
  <1>2. F \in SUBSET Nat /\ F # {}
    BY <1>1, Sizes, Zenon
  <1>3. Min(F) \in F /\ \A y \in F : Min(F) <= y
    BY <1>2, Least, Zenon
  <1>4. PICK x : x = FirstFree
    BY Zenon
  <1>5. x \in F /\ x <= last
    BY <1>3, <1>4, Zenon DEF FirstFree
  <1>6. x < last => x \in Slots /\ slot[x].pid = NoPid
    BY <1>1, <1>5
  <1>7. x < MaxProcesses /\ x \in Nat => x \in Slots
    BY Sizes DEF Slots
  <1>8. x \notin Used(slot, last)
    BY <1>6, Zenon DEF Used
  <1>9. QED
    BY <1>1, <1>2, <1>4, <1>5, <1>6, <1>7, <1>8, Zenon

\* A new child is not told to leave, and has copies of tb and f.
IsNew(c, tb, f, s) ==
    /\ Child(c) /\ ~Told(c) /\ c.st = "run" /\ c.own = s /\ c.reads /\ ~c.missed
    /\ c.inbox = <<>> /\ c.table = [t \in Slots |-> tb[t].fd]
    /\ c.fds = [f EXCEPT ![tb[s].fd] = Closed]

\* So is a child that is forked.
LEMMA NewChild ==
    ASSUME NEW tb, NEW f, NEW s, NEW p, NEW kind
    PROVE  IsNew(Forked(tb, f, s, p, kind), tb, f, s)
  <1>1. PICK d : d = [f EXCEPT ![tb[s].fd] = Closed]
    BY Zenon
  <1>2. PICK t : t = [u \in Slots |-> tb[u].fd]
    BY Zenon
  <1>3. PICK c : c = Forked(tb, f, s, p, kind)
    BY Zenon
  <1>4. PICK r, n, y :
          /\ c = [st |-> "run", own |-> s, kind |-> kind, inbox |-> <<>>, reads |-> r,
                  told |-> n, missed |-> y, table |-> t, fds |-> d]
          /\ r /\ ~n /\ ~y
    <2>1. c = [NoProc EXCEPT !.st = "run", !.own = s, !.kind = kind, !.reads = TRUE,
                             !.table = t, !.fds = d]
      BY <1>1, <1>2, <1>3, Zenon DEF Forked
    <2>2. PICK u, v : NoProc = [st |-> "none", own |-> 0, kind |-> "worker",
                                inbox |-> <<>>, reads |-> FALSE, told |-> FALSE,
                                missed |-> FALSE, table |-> u, fds |-> v]
      BY Zenon DEF NoProc
    <2>3. c = [st |-> "run", own |-> s, kind |-> kind, inbox |-> <<>>, reads |-> TRUE,
               told |-> FALSE, missed |-> FALSE, table |-> t, fds |-> d]
      BY <2>1, <2>2, Zenon
    <2>4. QED
      BY <2>3, Zenon
  <1>5. <<>> \in Seq(Commands) /\ DOMAIN <<>> = {}
    OBVIOUS
  <1>6. Child(c) /\ ~Told(c)
    BY <1>4, <1>5, Zenon DEF Child, Told
  <1>7. /\ c.st = "run" /\ c.own = s /\ c.reads /\ ~c.missed /\ c.inbox = <<>>
        /\ c.table = t /\ c.fds = d
    BY <1>4, Zenon
  <1>8. QED
    BY <1>1, <1>2, <1>3, <1>6, <1>7, Zenon DEF IsNew

\* StartOne spawns a child.
StartsChild(full) ==
    /\ FirstFree < MaxProcesses /\ spawned < MaxSpawns
    /\ LET s  == FirstFree
           p  == spawned + 1
           n  == Lowest(fds)
           tb == [slot EXCEPT ![s] = [Started(Kinds[i]) EXCEPT !.pid = p, !.fd = n]]
           f  == [fds EXCEPT ![n] = p]
           l  == IF s = last THEN last + 1 ELSE last
           ps == [proc EXCEPT ![p] =
                    Forked([slot EXCEPT ![s].fd = n], f, s, p, Kinds[i])]
       IN  /\ slot' = tb /\ fds' = f /\ last' = l /\ pslot' = s
           /\ proc' = ngx_pass_open_channel(tb, f, ps, l, s, full)
    /\ spawned' = spawned + 1
    /\ UNCHANGED <<fails, failed>>

\* A child that is started is forked in a free slot.
LEMMA StartForks ==
    ASSUME Counting, Good(slot, last, fds, proc, spawned), Kinds[i] \in {"worker", "loader"},
           reloading \in BOOLEAN, NEW full, StartsChild(full)
    PROVE  \E s \in Slots : \E c : /\ Forks(slot, last, fds, proc, spawned, s,
                                           slot', last', fds', proc', c, full)
                                   /\ pslot' = s /\ spawned' = spawned + 1 /\ fails' = fails
  <1>1. PICK s, n : s = FirstFree /\ n = Lowest(fds)
    BY Zenon
  <1>2. /\ slot \in [Slots -> Entries] /\ last \in 0..MaxProcesses
        /\ proc = [p \in Procs |-> proc[p]] /\ (\A p \in Procs : Child(proc[p]))
        /\ Names(fds, spawned) /\ spawned \in 0..MaxSpawns
        /\ fds \in [Fds -> Procs \cup {Closed}]
    BY Zenon DEF Good, Names
  <1>3. s \in Nat /\ s <= last /\ s \notin Used(slot, last)
        /\ (s < last => s \in Slots) /\ (s < MaxProcesses => s \in Slots)
    BY <1>1, FreeSlot, Zenon
  <1>4. PICK p : p = spawned + 1
    BY Zenon
  <1>5. s < MaxProcesses /\ spawned < MaxSpawns
    BY <1>1, Zenon DEF StartsChild
  <1>6. s \in Slots /\ p \in Procs /\ n \in Fds /\ fds[n] = Closed
    BY <1>1, <1>2, <1>3, <1>4, <1>5, LowestFree, Sizes DEF Procs
  <1>7. PICK e : e = [Started(Kinds[i]) EXCEPT !.pid = p, !.fd = n]
    BY Zenon
  <1>8. e \in Entries /\ e.pid = p /\ e.fd = n /\ ~e.exited
    <2>1. PICK r \in BOOLEAN : r = (Kinds[i] = "worker")
      BY Zenon
    <2>2. Started(Kinds[i]) = [NoSlot EXCEPT !.respawn = r, !.just = reloading]
      BY <2>1, Zenon DEF Started
    <2>3. PICK x : x = [pid |-> NoPid, fd |-> NoFd, exited |-> FALSE,
                        exiting |-> FALSE, respawn |-> r, just |-> reloading]
      BY Zenon
    <2>4. e = [pid |-> p, fd |-> n, exited |-> FALSE, exiting |-> FALSE,
               respawn |-> r, just |-> reloading]
      <3>1. Started(Kinds[i]) = x
        BY <2>2, <2>3, Zenon DEF NoSlot
      <3>2. e = [x EXCEPT !.pid = p, !.fd = n]
        BY <1>7, <3>1, Zenon
      <3>3. QED
        BY <2>3, <3>2, Zenon
    <2>5. QED
      BY <1>6, <2>1, <2>4, Zenon DEF Entries
  <1>9. PICK tb, f, l : /\ tb = [slot EXCEPT ![s] = e] /\ f = [fds EXCEPT ![n] = p]
                        /\ l = IF s = last THEN last + 1 ELSE last
    BY Zenon
  <1>10. PICK y, kind, c : /\ y = [slot EXCEPT ![s].fd = n] /\ kind = Kinds[i]
                           /\ c = Forked(y, f, s, p, kind)
    BY Zenon
  <1>11. PICK ps : ps = [proc EXCEPT ![p] = c]
    BY Zenon
  <1>12. PICK P : P = ngx_pass_open_channel(tb, f, ps, l, s, full)
    BY Zenon
  <1>13. /\ slot' = tb /\ fds' = f /\ last' = l /\ pslot' = s /\ proc' = P
         /\ spawned' = p /\ fails' = fails
    BY <1>1, <1>4, <1>7, <1>9, <1>10, <1>11, <1>12, Zenon DEF StartsChild
  <1>14. tb[s] = e /\ (\A t \in Slots : t # s => tb[t] = slot[t]) /\ tb \in [Slots -> Entries]
    BY <1>2, <1>6, <1>8, <1>9, Zenon
  <1>15. l \in 0..MaxProcesses /\ Used(tb, l) = Used(slot, last) \cup {s}
    <2>1. e.pid # NoPid
      BY <1>6, <1>8, Sizes DEF NoPid
    <2>2. l \in 0..MaxProcesses /\ s < l /\ \A t \in Slots : t # s => (t < l <=> t < last)
      BY <1>2, <1>3, <1>5, <1>9, Sizes
    <2>3. QED
      BY <1>3, <1>6, <1>14, <2>1, <2>2, Zenon DEF Used
  <1>16. Channel(tb, f, s) \in Procs \cup {Closed}
    BY <1>2, <1>6, <1>8, <1>9, <1>14, Zenon DEF Channel
  <1>17. IsNew(c, y, f, s) /\ Child(c) /\ ~Told(c)
    <2>1. IsNew(Forked(y, f, s, p, kind), y, f, s)
      BY NewChild, Zenon
    <2>2. QED
      BY <1>10, <2>1, Zenon DEF IsNew
  <1>18. ps = [q \in Procs |-> IF q = p THEN c ELSE proc[q]]
    BY <1>2, <1>6, <1>11, Zenon
  <1>19. ps = [q \in Procs |-> ps[q]] /\ \A q \in Procs : Child(ps[q])
    BY <1>2, <1>17, <1>18, Zenon
  <1>20. /\ P = [q \in Procs |-> P[q]]
         /\ \A q \in Procs : Child(P[q]) /\ P[q].st = ps[q].st /\ (Told(P[q]) => Told(ps[q]))
    BY <1>6, <1>12, <1>16, <1>19, Announces
  <1>21. ~Told(P[p]) /\ \A q \in Procs : q # p =>
             P[q].st = proc[q].st /\ (Told(P[q]) => Told(proc[q]))
    BY <1>6, <1>17, <1>18, <1>20, Zenon
  <1>22. Spawns(slot, last, fds, proc, spawned, s, tb, l, f, P)
    BY <1>1, <1>3, <1>4, <1>5, <1>6, <1>8, <1>9, <1>14, <1>15, <1>20, <1>21, Zenon DEF Spawns
  <1>23. c.table = [t \in Slots |-> tb[t].fd] /\ c.fds = fds
    <2>1. y = [slot EXCEPT ![s].fd = n]
      BY <1>10, Zenon
    <2>2. y[s].fd = n /\ \A t \in Slots : t # s => y[t] = slot[t]
      <3>1. PICK x : x = [slot[s] EXCEPT !.fd = n]
        BY Zenon
      <3>2. y = [slot EXCEPT ![s] = x]
        BY <1>2, <1>6, <2>1, <3>1, Zenon
      <3>3. slot[s] \in Entries
        BY <1>2, <1>6, Zenon
      <3>4. x.fd = n
        BY <3>1, <3>3, Zenon DEF Entries
      <3>5. QED
        BY <1>2, <1>6, <3>2, <3>4, Zenon
    <2>3. c.table = [t \in Slots |-> y[t].fd] /\ c.fds = [f EXCEPT ![y[s].fd] = Closed]
      BY <1>17, Zenon DEF IsNew
    <2>4. \A t \in Slots : y[t].fd = tb[t].fd
      BY <1>8, <1>14, <2>2, Zenon
    <2>5. [f EXCEPT ![n] = Closed] = fds
      BY <1>2, <1>6, <1>9, Zenon
    <2>6. QED
      BY <2>2, <2>3, <2>4, <2>5, Zenon
  <1>24. Forks(slot, last, fds, proc, spawned, s, tb, l, f, P, c, full)
    BY <1>4, <1>11, <1>12, <1>17, <1>22, <1>23, Zenon DEF Forks, IsNew
  <1>25. QED
    BY <1>4, <1>6, <1>13, <1>24, Zenon

\* Starting a child keeps the invariant.
LEMMA StartRight ==
    ASSUME Counting, RightInv, StartOne, ~stale'
    PROVE  RightInv'
  <1>1. ~stale /\ MasterOK /\ Good(slot, last, fds, proc, spawned)
    BY Zenon DEF RightInv, StartOne
  <1>2. /\ pc = "start" /\ i <= Len(Kinds) /\ i' = i + 1 /\ pc' = pc
        /\ reloading' = reloading
    BY Zenon DEF StartOne
  <1>3. i \in Nat /\ i > 0 /\ Kinds[i] \in {"worker", "loader"} /\ reloading \in BOOLEAN
    BY <1>1, <1>2, KindsAssumption DEF MasterOK
  <1>4. PICK s : s = FirstFree
    BY Zenon
  <1>5. PICK n : n = Lowest(fds)
    BY Zenon
  <1>6. PICK full \in Fulls :
          \/ StartsChild(full)
          \/ \E how \in Failures :
             /\ IF s = MaxProcesses
                THEN how = "socketpair" /\ UNCHANGED <<spawned, fails>>
                ELSE Fails(how)
             /\ LET tb == FailedIn(slot, fds, s, how)
                    t  == IF how = "fork" THEN s ELSE pslot
                IN  /\ slot' = tb /\ pslot' = t
                    /\ proc' = ngx_pass_open_channel(tb, fds, proc, last, t, full)
             /\ failed' = TRUE
             /\ UNCHANGED <<fds, last>>
    BY <1>4, <1>5, Zenon DEF StartOne, StartsChild
  <1>7. slot \in [Slots -> Entries] /\ last \in 0..MaxProcesses
        /\ proc = [p \in Procs |-> proc[p]] /\ (\A p \in Procs : Child(proc[p]))
        /\ Names(fds, spawned) /\ spawned \in 0..MaxSpawns
        /\ fds \in [Fds -> Procs \cup {Closed}] /\ fails \in 0..MaxFails
    BY <1>1, Zenon DEF Good, Names, MasterOK
  <1>8. s \in Nat /\ s <= last /\ s \notin Used(slot, last)
        /\ (s < last => s \in Slots) /\ (s < MaxProcesses => s \in Slots)
    BY <1>1, <1>4, FreeSlot, Zenon
  <1>9. CASE StartsChild(full)
    <2>1. PICK t \in Slots :
            \E c : /\ Forks(slot, last, fds, proc, spawned, t,
                            slot', last', fds', proc', c, full)
                   /\ pslot' = t /\ spawned' = spawned + 1 /\ fails' = fails
      BY <1>1, <1>3, <1>9, StartForks, Zenon
    <2>2. Good(slot', last', fds', proc', spawned + 1)
      BY <1>1, <2>1, SpawnGood, Zenon DEF Forks
    <2>3. MasterOK'
      BY <1>2, <1>3, <1>7, <2>1 DEF MasterOK
    <2>4. QED
      BY <2>1, <2>2, <2>3, Zenon DEF RightInv
  <1>10. ASSUME NEW how \in Failures,
                IF s = MaxProcesses
                THEN how = "socketpair" /\ UNCHANGED <<spawned, fails>>
                ELSE Fails(how),
                slot' = FailedIn(slot, fds, s, how),
                pslot' = IF how = "fork" THEN s ELSE pslot,
                proc' = ngx_pass_open_channel(FailedIn(slot, fds, s, how), fds, proc, last,
                            IF how = "fork" THEN s ELSE pslot, full),
                UNCHANGED <<fds, last>>
         PROVE  RightInv'
    <2> DEFINE tb == FailedIn(slot, fds, s, how)
               t == IF how = "fork" THEN s ELSE pslot
               P == ngx_pass_open_channel(tb, fds, proc, last, t, full)
    <2>1. spawned' = spawned /\ fails' \in 0..MaxFails
      BY <1>7, <1>10, Sizes DEF Fails
    <2>2. how = "socketpair" \/ (s \in Slots /\ n \in Fds)
      <3>1. s # MaxProcesses => s \in Slots /\ fails < MaxFails
        BY <1>7, <1>8, <1>10, Sizes DEF Fails
      <3>2. fails < MaxFails => n \in Fds
        BY <1>5, <1>7, LowestFree, Sizes
      <3>3. QED
        BY <1>10, <3>1, <3>2, Zenon
    <2>3. tb = slot \/ (s \in Slots /\ n \in Fds /\ tb = [slot EXCEPT ![s].fd = n])
      BY <1>5, <2>2, Zenon DEF FailedIn
    <2>4. t \in Slots
      BY <1>1, <2>2, Zenon DEF MasterOK
    <2> HIDE DEF tb, t
    <2>5. tb \in [Slots -> Entries]
      BY <1>7, <2>3 DEF Entries
    <2>6. \A u \in Slots : tb[u].pid = slot[u].pid /\ (u # s => tb[u] = slot[u])
      BY <1>7, <2>3 DEF Entries
    <2>7. Used(tb, last) = Used(slot, last)
      BY <2>6, Zenon DEF Used
    <2>8. \A u \in Used(slot, last) : tb[u] = slot[u]
      BY <1>8, <2>6, Zenon DEF Used
    <2>9. Channel(tb, fds, t) \in Procs \cup {Closed}
      BY <1>7, <2>4, <2>5, Zenon DEF Channel, Entries
    <2>10. /\ P = [q \in Procs |-> P[q]]
           /\ \A q \in Procs : Child(P[q]) /\ P[q].st = proc[q].st /\ (Told(P[q]) => Told(proc[q]))
      <3>1. \A q \in Procs : /\ Child(P[q]) /\ P[q].st = proc[q].st
                             /\ P[q].own = proc[q].own
                             /\ Told(P[q]) => Told(proc[q])
        BY <1>7, <2>4, <2>9, Announces, Zenon
      <3>2. P = [q \in Procs |-> P[q]]
        BY <1>7, AnnouncesAll, Zenon
      <3>3. QED
        BY <3>1, <3>2, Zenon
    <2> HIDE DEF P
    <2>11. Right(tb, last, P)
      BY <1>1, <2>7, <2>8, <2>10, ZenonT(30) DEF Good, Right
    <2>12. \A u \in Used(tb, last) : tb[u].exited => P[slot[u].pid].st = "gone"
      <3>1. \A u \in Used(slot, last) : slot[u].pid \in Procs /\ (slot[u].exited => proc[slot[u].pid].st = "gone")
        BY <1>1, <1>7, Zenon DEF Good, SlotsOK, Used, Entries
      <3>2. QED
        BY <2>7, <2>8, <2>10, <3>1, Zenon
    <2>13. Good(tb, last, fds, P, spawned)
      <3>1. Keeps(slot, last, fds, spawned, tb, last, fds, P)
        BY <1>7, <2>5, <2>7, <2>8, <2>10, <2>11, <2>12, Zenon DEF Keeps
      <3>2. QED
        BY <1>1, <3>1, KeptGood, Zenon
    <2>14. Good(slot, last, fds, proc, spawned)'
      BY <1>10, <2>1, <2>13, Zenon DEF tb, P, t
    <2>15. MasterOK'
      <3>1. pslot' \in Slots
        BY <1>10, <2>4, Zenon DEF t
      <3>2. QED
        BY <1>2, <1>3, <2>1, <3>1 DEF MasterOK
    <2>16. QED
      BY <2>14, <2>15, Zenon DEF RightInv
  <1>11. QED
    BY <1>6, <1>9, <1>10, Zenon

(* The channel of a child that is gone is closed.  It was nobody else's,   *)
(* and its slot is freed or has no channel.                                *)
LEMMA ReapedGood ==
    ASSUME NEW tb, NEW l, NEW f, NEW ps, NEW m, Good(tb, l, f, ps, m),
           NEW x \in Used(tb, l), tb[x].exited,
           NEW g, g = IF tb[x].fd = NoFd THEN f ELSE [f EXCEPT ![tb[x].fd] = Closed],
           NEW tb2 \in [Slots -> Entries], NEW l2 \in 0..MaxProcesses,
           Used(tb2, l2) \in {Used(tb, l), Used(tb, l) \ {x}},
           \A t \in Used(tb2, l2) : t # x => tb2[t] = tb[t],
           x \in Used(tb2, l2) => tb2[x] = Forget(tb, x)[x],
           NEW P, P = [p \in Procs |-> P[p]],
           \A p \in Procs : Child(P[p]) /\ P[p].st = ps[p].st /\ (Told(P[p]) => Told(ps[p]))
    PROVE  Good(tb2, l2, g, P, m)
  <1>1. /\ tb \in [Slots -> Entries] /\ Names(f, m) /\ SlotsOK(tb, l, f, ps, m)
        /\ Right(tb, l, ps) /\ m \in Nat
    BY Sizes DEF Good
  <1>2. x \in Slots /\ tb[x].pid \in Procs /\ tb[x].fd \in Fds \cup {NoFd}
    BY <1>1, Zenon DEF Used, Entries
  <1>3. Names(g, m)
    BY <1>1, <1>2, NamesKept, Zenon
  <1>4. \A t \in Used(tb, l) : t \in Slots /\ tb[t].pid \in Procs /\ tb[t].fd \in Fds \cup {NoFd}
    BY <1>1, Zenon DEF Used, Entries
  <1>5. ASSUME NEW t \in Used(tb, l), t # x, tb[t].fd # NoFd
        PROVE  g[tb[t].fd] = f[tb[t].fd]
    <2>1. f[tb[t].fd] = tb[t].pid /\ tb[t].pid # tb[x].pid
      BY <1>1, <1>5, Zenon DEF SlotsOK
    <2>2. tb[x].fd # NoFd => f[tb[x].fd] = tb[x].pid
      BY <1>1, Zenon DEF SlotsOK
    <2>3. f \in [Fds -> Procs \cup {Closed}]
      BY <1>1, Zenon DEF Names
    <2>4. QED
      BY <1>2, <1>4, <2>1, <2>2, <2>3
  <1>6. Forget(tb, x)[x].pid = tb[x].pid /\ Forget(tb, x)[x].fd = NoFd
        /\ Forget(tb, x)[x].exited = tb[x].exited
    BY <1>1, <1>2, Zenon DEF Forget, Entries
  <1>7. \A t \in Used(tb, l) : tb[t].exited => ps[tb[t].pid].st = "gone"
    BY <1>1, Zenon DEF SlotsOK
  <1>8. Used(tb2, l2) \subseteq Used(tb, l)
    BY Zenon
  <1>9. ASSUME NEW t \in Used(tb2, l2)
        PROVE  /\ tb2[t].pid = tb[t].pid
               /\ tb2[t].fd # NoFd => tb2[t].fd = tb[t].fd /\ g[tb[t].fd] = f[tb[t].fd]
               /\ tb2[t].exited => P[tb[t].pid].st = "gone"
    <2>1. CASE t = x
      BY <1>2, <1>6, <1>7, <2>1, Zenon
    <2>2. CASE t # x
      BY <1>4, <1>5, <1>7, <1>8, <2>2, Zenon
    <2>3. QED
      BY <2>1, <2>2, Zenon
  <1>10. Right(tb2, l2, P)
    <2> SUFFICES ASSUME NEW p \in Procs, P[p].st = "run", Told(P[p])
                 PROVE  \E t \in Used(tb2, l2) : tb2[t].pid = p /\ tb2[t].exiting
      BY Zenon DEF Right
    <2>1. ps[p].st = "run" /\ Told(ps[p])
      BY Zenon
    <2>2. PICK t \in Used(tb, l) : tb[t].pid = p /\ tb[t].exiting
      BY <1>1, <2>1, Zenon DEF Right
    <2>3. t # x
      BY <1>7, <2>1, <2>2, Zenon
    <2>4. QED
      BY <2>2, <2>3, Zenon
  <1>11. Keeps(tb, l, f, m, tb2, l2, g, P)
    BY <1>3, <1>8, <1>9, <1>10, Zenon DEF Keeps
  <1>12. QED
    BY <1>11, KeptGood

\* Where the master goes on is a slot that is marked, or nowhere.
LEMMA ReapGoesOn ==
    ASSUME Counting, NEW k \in Nat, ReapFrom(k)
    PROVE  /\ pc' \in {"idle", "reap"} /\ i' \in Int
           /\ pc' = "reap" => i' \in Used(slot', last') /\ slot'[i'].exited
  <1> DEFINE R == {s \in Slots : /\ k <= s /\ s < last'
                                 /\ slot'[s].pid # NoPid /\ slot'[s].exited}
  <1>1. IF R = {} THEN pc' = "idle" /\ i' = 0 ELSE pc' = "reap" /\ i' = Min(R)
    BY Zenon DEF ReapFrom
  <1>2. R \in SUBSET Nat
    BY Sizes, Zenon
  <1>3. R # {} => Min(R) \in R
    BY <1>2, Least, Zenon
  <1>4. QED
    BY <1>1, <1>2, <1>3 DEF Used

\* What ngx_reap_children writes.
CloseMsg == [cmd |-> "CLOSE", slot |-> i]
CloseTo(tb) == {s \in Slots : s < last /\ ~tb[s].exited /\ tb[s].pid # NoPid}

(* The channel of slot i is closed: f, tb and fr are the numbers, the      *)
(* table, and the table once the slot is freed; ps are the children.       *)
Reaped(f, tb, fr, ps, full) ==
    /\ f = IF slot[i].fd = NoFd THEN fds ELSE [fds EXCEPT ![slot[i].fd] = Closed]
    /\ tb = Forget(slot, i) /\ fr = [tb EXCEPT ![i].pid = NoPid]
    /\ ps = ngx_write_channel(tb, f, proc, CloseTo(tb), CloseMsg, full)

\* The child of slot i is respawned, or that fails, or the slot is freed.
Respawns(f, tb, ps, full) ==
    /\ spawned < MaxSpawns
    /\ LET p   == spawned + 1
           n   == Lowest(f)
           tb2 == [tb EXCEPT ![i].pid = p, ![i].fd = n, ![i].exited = FALSE]
           f2  == [f EXCEPT ![n] = p]
           ps2 == [ps EXCEPT ![p] =
                     Forked([tb EXCEPT ![i].fd = n], f2, i, p, "worker")]
       IN  /\ slot' = tb2 /\ fds' = f2 /\ pslot' = i
           /\ proc' = ngx_pass_open_channel(tb2, f2, ps2, last, i, full)
    /\ spawned' = spawned + 1
    /\ UNCHANGED <<fails, failed, stale, last>>

RespawnFails(f, tb, ps) ==
    \E how \in Failures :
        /\ Fails(how)
        /\ slot' = FailedIn(tb, f, i, how)
        /\ pslot' = IF how = "fork" THEN i ELSE pslot
        /\ fds' = f /\ proc' = ps
        /\ failed' = TRUE
        /\ stale' = (stale \/ how # "socketpair")
        /\ UNCHANGED last

SlotFreed(f, tb, fr, ps) ==
    /\ \/ slot' = fr /\ last' = last
       \/ slot' = tb /\ last' = last - 1 /\ i = last - 1
    /\ fds' = f /\ proc' = ps
    /\ UNCHANGED <<pslot, spawned, fails, failed, stale>>

\* That is what ReapSlot does.
LEMMA ReapCases ==
    ASSUME ReapSlot
    PROVE  \E f : \E tb : \E fr : \E ps : \E full \in Fulls :
              /\ Reaped(f, tb, fr, ps, full)
              /\ \/ Respawns(f, tb, ps, full)
                 \/ RespawnFails(f, tb, ps)
                 \/ SlotFreed(f, tb, fr, ps)
  <1>4. PICK f : f = IF slot[i].fd = NoFd THEN fds ELSE [fds EXCEPT ![slot[i].fd] = Closed]
    BY Zenon
  <1>5. PICK tb : tb = Forget(slot, i)
    BY Zenon
  <1>6. PICK full \in Fulls :
          LET ps == ngx_write_channel(tb, f, proc, CloseTo(tb), CloseMsg, full)
              p  == spawned + 1
              n  == Lowest(f)
          IN  \/ /\ slot[i].respawn /\ ~slot[i].exiting /\ shutdown = "none"
                 /\ \/ /\ spawned < MaxSpawns
                       /\ LET tb2 == [tb EXCEPT ![i].pid = p, ![i].fd = n,
                                                ![i].exited = FALSE]
                              f2  == [f EXCEPT ![n] = p]
                              ps2 == [ps EXCEPT ![p] =
                                        Forked([tb EXCEPT ![i].fd = n], f2, i, p, "worker")]
                          IN  /\ slot' = tb2 /\ fds' = f2 /\ pslot' = i
                              /\ proc' = ngx_pass_open_channel(tb2, f2, ps2, last, i, full)
                       /\ spawned' = p
                       /\ UNCHANGED <<fails, failed, stale>>
                    \/ \E how \in Failures :
                       /\ Fails(how)
                       /\ slot' = FailedIn(tb, f, i, how)
                       /\ pslot' = IF how = "fork" THEN i ELSE pslot
                       /\ fds' = f /\ proc' = ps
                       /\ failed' = TRUE
                       /\ stale' = (stale \/ how # "socketpair")
                 /\ UNCHANGED last
              \/ /\ ~(slot[i].respawn /\ ~slot[i].exiting /\ shutdown = "none")
                 /\ IF i = last - 1
                    THEN last' = last - 1 /\ slot' = tb
                    ELSE slot' = [tb EXCEPT ![i].pid = NoPid] /\ UNCHANGED last
                 /\ fds' = f /\ proc' = ps
                 /\ UNCHANGED <<pslot, spawned, fails, failed, stale>>
    BY <1>4, <1>5, Zenon DEF ReapSlot, CloseTo, CloseMsg
  <1>7. PICK ps : ps = ngx_write_channel(tb, f, proc, CloseTo(tb), CloseMsg, full)
    BY Zenon
  <1>8. PICK fr : fr = [tb EXCEPT ![i].pid = NoPid]
    BY Zenon
  <1>9. Reaped(f, tb, fr, ps, full)
    BY <1>4, <1>5, <1>7, <1>8, Zenon DEF Reaped
  <1>10. ASSUME /\ spawned < MaxSpawns
                /\ LET p   == spawned + 1
                       n   == Lowest(f)
                       tb2 == [tb EXCEPT ![i].pid = p, ![i].fd = n, ![i].exited = FALSE]
                       f2  == [f EXCEPT ![n] = p]
                       ps2 == [ps EXCEPT ![p] =
                                 Forked([tb EXCEPT ![i].fd = n], f2, i, p, "worker")]
                   IN  /\ slot' = tb2 /\ fds' = f2 /\ pslot' = i
                       /\ proc' = ngx_pass_open_channel(tb2, f2, ps2, last, i, full)
                /\ spawned' = spawned + 1
                /\ UNCHANGED <<fails, failed, stale, last>>
         PROVE  Respawns(f, tb, ps, full)
    BY <1>10, Zenon DEF Respawns
  <1>11. ASSUME NEW how \in Failures, Fails(how), slot' = FailedIn(tb, f, i, how),
                pslot' = (IF how = "fork" THEN i ELSE pslot), fds' = f, proc' = ps,
                failed' = TRUE, stale' = (stale \/ how # "socketpair"), UNCHANGED last
         PROVE  RespawnFails(f, tb, ps)
    BY <1>11, Zenon DEF RespawnFails
  <1>12. ASSUME IF i = last - 1
                THEN last' = last - 1 /\ slot' = tb
                ELSE slot' = [tb EXCEPT ![i].pid = NoPid] /\ UNCHANGED last,
                fds' = f, proc' = ps,
                UNCHANGED <<pslot, spawned, fails, failed, stale>>
         PROVE  SlotFreed(f, tb, fr, ps)
    BY <1>8, <1>12, Zenon DEF SlotFreed
  <1>13. \/ Respawns(f, tb, ps, full)
         \/ RespawnFails(f, tb, ps)
         \/ SlotFreed(f, tb, fr, ps)
    BY <1>6, <1>7, <1>10, <1>11, <1>12, Zenon
  <1>14. QED
    BY <1>9, <1>13, Zenon

(* Whoever the slot had is gone, and the tables differ from what they were *)
(* at slot i only.                                                         *)
ReapedOK(f, tb, fr, ps) ==
    /\ /\ tb \in [Slots -> Entries] /\ tb[i].fd = NoFd /\ tb[i].pid = slot[i].pid
       /\ tb[i].exited = slot[i].exited
       /\ \A t \in Slots : t # i => tb[t] = slot[t]
    /\ /\ ps = [p \in Procs |-> ps[p]]
       /\ \A p \in Procs : /\ Child(ps[p]) /\ ps[p].st = proc[p].st
                           /\ Told(ps[p]) => Told(proc[p])
    /\ /\ fr \in [Slots -> Entries] /\ fr[i].pid = NoPid /\ fr[i].fd = NoFd
       /\ \A t \in Slots : t # i => fr[t] = slot[t]
    /\ /\ Used(tb, last) = Used(slot, last) /\ Used(fr, last) = Used(slot, last) \ {i}
       /\ i = last - 1 => Used(tb, last - 1) = Used(slot, last) \ {i}
    /\ \A tb2, l2 :
          \/ tb2 = tb /\ l2 = last
          \/ tb2 = fr /\ l2 = last
          \/ tb2 = tb /\ l2 = last - 1 /\ i = last - 1
          => Good(tb2, l2, f, ps, spawned)

\* That is so while a slot is reaped.
LEMMA ReapedFacts ==
    ASSUME Counting, RightInv, ~stale, pc = "reap", NEW f, NEW tb, NEW fr, NEW ps, NEW full,
           Reaped(f, tb, fr, ps, full)
    PROVE  ReapedOK(f, tb, fr, ps)
  <1>1. MasterOK /\ Good(slot, last, fds, proc, spawned)
    BY Zenon DEF RightInv
  <1>3. /\ i \in Used(slot, last) /\ slot[i].exited /\ i \in Slots /\ i \in Nat
        /\ pslot \in Slots /\ fails \in 0..MaxFails /\ reloading \in BOOLEAN
    BY <1>1, Sizes, Zenon DEF MasterOK, Used
  <1>4. f = IF slot[i].fd = NoFd THEN fds ELSE [fds EXCEPT ![slot[i].fd] = Closed]
    BY Zenon DEF Reaped
  <1>5. tb = Forget(slot, i) /\ fr = [tb EXCEPT ![i].pid = NoPid]
    BY Zenon DEF Reaped
  <1>7. ps = ngx_write_channel(tb, f, proc, CloseTo(tb), CloseMsg, full)
    BY Zenon DEF Reaped
  <1>8. /\ slot \in [Slots -> Entries] /\ last \in 0..MaxProcesses
        /\ proc = [p \in Procs |-> proc[p]] /\ (\A p \in Procs : Child(proc[p]))
        /\ Names(fds, spawned) /\ spawned \in 0..MaxSpawns
    BY <1>1, Zenon DEF Good
  <1>9. /\ tb \in [Slots -> Entries] /\ tb[i].fd = NoFd /\ tb[i].pid = slot[i].pid
        /\ tb[i].exited = slot[i].exited
        /\ \A t \in Slots : t # i => tb[t] = slot[t]
    BY <1>3, <1>5, <1>8, Zenon DEF Forget, Entries
  <1>10. /\ ps = [p \in Procs |-> ps[p]]
         /\ \A p \in Procs : /\ Child(ps[p]) /\ ps[p].st = proc[p].st
                             /\ Told(ps[p]) => Told(proc[p])
    <2>1. CloseMsg \in Commands /\ CloseMsg.cmd \notin {"QUIT", "TERM"}
      BY <1>3, Zenon DEF CloseMsg, Commands
    <2>2. CloseTo(tb) \in SUBSET Slots
      BY Zenon DEF CloseTo
    <2>3. ASSUME NEW p \in Procs PROVE ps[p] \in Gets(proc[p], CloseMsg)
      BY <1>7, <2>2, WriteGets, Zenon
    <2>4. ps = [p \in Procs |-> ps[p]]
      BY <1>7, Zenon DEF ngx_write_channel
    <2>5. QED
      BY <1>8, <2>1, <2>3, <2>4, GetsFrame
  <1>12. /\ fr \in [Slots -> Entries] /\ fr[i].pid = NoPid /\ fr[i].fd = NoFd
         /\ \A t \in Slots : t # i => fr[t] = slot[t]
    BY <1>3, <1>5, <1>9 DEF Entries
  <1>13. /\ Used(tb, last) = Used(slot, last) /\ Used(fr, last) = Used(slot, last) \ {i}
         /\ i = last - 1 => Used(tb, last - 1) = Used(slot, last) \ {i}
    <2>1. Used(tb, last) = Used(slot, last)
      BY <1>9, <1>3, Zenon DEF Used
    <2>2. Used(fr, last) = Used(slot, last) \ {i}
      BY <1>12, <1>3, Zenon DEF Used
    <2>3. ASSUME i = last - 1 PROVE Used(tb, last - 1) = Used(slot, last) \ {i}
      <3>1. \A t \in Slots : t < last - 1 <=> t < last /\ t # i
        BY <1>3, <1>8, <2>3, Sizes
      <3>2. QED
        BY <1>9, <3>1, Zenon DEF Used
    <2>4. QED
      BY <2>1, <2>2, <2>3, Zenon
  <1>14. ASSUME NEW tb2, NEW l2,
                \/ tb2 = tb /\ l2 = last
                \/ tb2 = fr /\ l2 = last
                \/ tb2 = tb /\ l2 = last - 1 /\ i = last - 1
         PROVE  Good(tb2, l2, f, ps, spawned)
    <2>1. tb2 \in [Slots -> Entries] /\ l2 \in 0..MaxProcesses
      BY <1>3, <1>8, <1>9, <1>12, <1>14, Sizes
    <2>2. Used(tb2, l2) \in {Used(slot, last), Used(slot, last) \ {i}}
      BY <1>13, <1>14, Zenon
    <2>3. \A t \in Used(tb2, l2) : t # i => tb2[t] = slot[t]
      BY <1>9, <1>12, <1>14, Zenon DEF Used
    <2>4. i \in Used(tb2, l2) => tb2[i] = Forget(slot, i)[i]
      BY <1>5, <1>13, <1>14, Zenon
    <2>5. QED
      BY <1>1, <1>3, <1>4, <1>10, <2>1, <2>2, <2>3, <2>4, ReapedGood
  <1>15. QED
    BY <1>9, <1>10, <1>12, <1>13, <1>14, Zenon DEF ReapedOK

\* The child that takes the place of the one that is gone is forked.
LEMMA ReapForks ==
    ASSUME Counting, RightInv, ~stale, pc = "reap", NEW f, NEW tb, NEW fr, NEW ps, NEW full,
           ReapedOK(f, tb, fr, ps), Respawns(f, tb, ps, full)
    PROVE  \E c : Forks(fr, last, f, ps, spawned, i, slot', last', fds', proc', c, full)
  <1>1. MasterOK /\ Good(slot, last, fds, proc, spawned)
    BY Zenon DEF RightInv
  <1>3. i \in Used(slot, last) /\ slot[i].exited /\ i \in Slots /\ i \in Nat
    BY <1>1, Sizes, Zenon DEF MasterOK, Used
  <1>8. last \in 0..MaxProcesses /\ spawned \in 0..MaxSpawns
    BY <1>1, Zenon DEF Good
  <1>9. /\ tb \in [Slots -> Entries] /\ \A t \in Slots : t # i => tb[t] = slot[t]
    BY Zenon DEF ReapedOK
  <1>10. ps = [p \in Procs |-> ps[p]] /\ \A p \in Procs : Child(ps[p])
    BY Zenon DEF ReapedOK
  <1>12. /\ fr \in [Slots -> Entries] /\ fr[i].pid = NoPid
         /\ \A t \in Slots : t # i => fr[t] = slot[t]
    BY Zenon DEF ReapedOK
  <1>13. Used(fr, last) = Used(slot, last) \ {i}
    BY Zenon DEF ReapedOK
  <1>14. Good(fr, last, f, ps, spawned)
    BY Zenon DEF ReapedOK
  <1>17. /\ spawned < MaxSpawns /\ spawned' = spawned + 1
         /\ LET p   == spawned + 1
                n   == Lowest(f)
                tb2 == [tb EXCEPT ![i].pid = p, ![i].fd = n, ![i].exited = FALSE]
                f2  == [f EXCEPT ![n] = p]
                ps2 == [ps EXCEPT ![p] =
                          Forked([tb EXCEPT ![i].fd = n], f2, i, p, "worker")]
            IN  /\ slot' = tb2 /\ fds' = f2 /\ pslot' = i
                /\ proc' = ngx_pass_open_channel(tb2, f2, ps2, last, i, full)
         /\ UNCHANGED <<fails, failed, stale, last>>
    BY Zenon DEF Respawns
  <1>21. PICK p, n : p = spawned + 1 /\ n = Lowest(f)
    BY Zenon
  <1>23. Names(f, spawned)
    BY <1>14, Zenon DEF Good
  <1>24. p \in Procs /\ n \in Fds
    BY <1>8, <1>17, <1>21, <1>23, LowestFree, Sizes DEF Procs
  <1>25. PICK tb2 : tb2 = [tb EXCEPT ![i].pid = p, ![i].fd = n, ![i].exited = FALSE]
    BY Zenon
  <1>26. PICK f2 : f2 = [f EXCEPT ![n] = p]
    BY Zenon
  <1>27. PICK y, c : y = [tb EXCEPT ![i].fd = n] /\ c = Forked(y, f2, i, p, "worker")
    BY Zenon
  <1>28. PICK ps2 : ps2 = [ps EXCEPT ![p] = c]
    BY Zenon
  <1>29. PICK P : P = ngx_pass_open_channel(tb2, f2, ps2, last, i, full)
    BY Zenon
  <1>30. /\ slot' = tb2 /\ fds' = f2 /\ pslot' = i /\ proc' = P /\ spawned' = p
         /\ fails' = fails /\ last' = last /\ spawned < MaxSpawns
    BY <1>17, <1>21, <1>25, <1>26, <1>27, <1>28, <1>29, Zenon
  <1>31. /\ tb2 \in [Slots -> Entries] /\ tb2[i].pid = p /\ tb2[i].fd = n
         /\ ~tb2[i].exited /\ \A t \in Slots : t # i => tb2[t] = tb[t]
    <2>1. PICK e : e = [tb[i] EXCEPT !.pid = p, !.fd = n, !.exited = FALSE]
      BY Zenon
    <2>2. tb2 = [tb EXCEPT ![i] = e]
      BY <1>3, <1>9, <1>25, <2>1, Zenon
    <2>3. tb[i] \in Entries
      BY <1>3, <1>9, Zenon
    <2>4. e \in Entries /\ e.pid = p /\ e.fd = n /\ ~e.exited
      BY <1>24, <2>1, <2>3, Zenon DEF Entries
    <2>5. QED
      BY <1>3, <1>9, <2>2, <2>4, Zenon
  <1>32. Used(tb2, last) = Used(fr, last) \cup {i}
    <2>1. p # NoPid
      BY <1>24, Sizes DEF NoPid
    <2>2. QED
      BY <1>3, <1>9, <1>12, <1>31, <2>1, Zenon DEF Used
  <1>33. Channel(tb2, f2, i) \in Procs \cup {Closed}
    BY <1>23, <1>24, <1>26, <1>31, Zenon DEF Channel, Names
  <1>34. IsNew(c, y, f2, i) /\ Child(c) /\ ~Told(c)
    <2>1. IsNew(Forked(y, f2, i, p, "worker"), y, f2, i)
      BY NewChild, Zenon
    <2>2. QED
      BY <1>27, <2>1, Zenon DEF IsNew
  <1>35. ps2 = [q \in Procs |-> IF q = p THEN c ELSE ps[q]]
    BY <1>10, <1>24, <1>28, Zenon
  <1>36. ps2 = [q \in Procs |-> ps2[q]] /\ \A q \in Procs : Child(ps2[q])
    BY <1>10, <1>34, <1>35, Zenon
  <1>37. /\ P = [q \in Procs |-> P[q]]
         /\ \A q \in Procs : Child(P[q]) /\ P[q].st = ps2[q].st /\ (Told(P[q]) => Told(ps2[q]))
    <2>1. PICK k \in Slots : k = i
      BY <1>3, Zenon
    <2>2. Channel(tb2, f2, k) \in Procs \cup {Closed}
      BY <1>33, <2>1, Zenon
    <2>3. P = ngx_pass_open_channel(tb2, f2, ps2, last, k, full)
      BY <1>29, <2>1, Zenon
    <2>4. QED
      BY <1>36, <2>2, <2>3, Announces
  <1>38. ~Told(P[p]) /\ \A q \in Procs : q # p =>
             P[q].st = ps[q].st /\ (Told(P[q]) => Told(ps[q]))
    BY <1>24, <1>34, <1>35, <1>37, Zenon
  <1>39. i \notin Used(fr, last) /\ \A t \in Slots : t # i => tb2[t] = fr[t]
    BY <1>9, <1>12, <1>13, <1>31, Zenon
  <1>40. Spawns(fr, last, f, ps, spawned, i, tb2, last, f2, P)
    BY <1>3, <1>8, <1>21, <1>26, <1>30, <1>31, <1>32, <1>37, <1>38, <1>39, Zenon DEF Spawns
  <1>41. c.table = [t \in Slots |-> tb2[t].fd] /\ c.fds = f
    <2>1. PICK x : x = [tb[i] EXCEPT !.fd = n]
      BY Zenon
    <2>2. y = [tb EXCEPT ![i] = x]
      BY <1>3, <1>9, <1>27, <2>1, Zenon
    <2>3. tb[i] \in Entries
      BY <1>3, <1>9, Zenon
    <2>4. x.fd = n
      BY <2>1, <2>3, Zenon DEF Entries
    <2>5. y[i].fd = n /\ \A t \in Slots : t # i => y[t] = tb[t]
      BY <1>3, <1>9, <2>2, <2>4, Zenon
    <2>6. c.table = [t \in Slots |-> y[t].fd] /\ c.fds = [f2 EXCEPT ![y[i].fd] = Closed]
      BY <1>34, Zenon DEF IsNew
    <2>7. \A t \in Slots : y[t].fd = tb2[t].fd
      BY <1>31, <2>5, Zenon
    <2>8. [f2 EXCEPT ![n] = Closed] = f
      <3>1. f[n] = Closed /\ f = [k \in Fds |-> f[k]]
        BY <1>8, <1>17, <1>21, <1>23, LowestFree, Sizes DEF Names
      <3>2. QED
        BY <1>24, <1>26, <3>1, Zenon
    <2>9. QED
      BY <2>5, <2>6, <2>7, <2>8, Zenon
  <1>42. Forks(fr, last, f, ps, spawned, i, tb2, last, f2, P, c, full)
    BY <1>21, <1>28, <1>29, <1>34, <1>40, <1>41, Zenon DEF Forks, IsNew
  <1>43. QED
    BY <1>30, <1>42, Zenon

\* Reaping a slot keeps the invariant.
LEMMA ReapRight ==
    ASSUME Counting, RightInv, ReapSlot, ~stale'
    PROVE  RightInv'
  <1>1. ~stale /\ MasterOK /\ Good(slot, last, fds, proc, spawned)
    <2>1. ~stale
      BY Zenon DEF ReapSlot
    <2>2. QED
      BY <2>1, Zenon DEF RightInv
  <1>2. /\ pc = "reap" /\ reloading' = reloading /\ ReapFrom(i + 1)
    BY Zenon DEF ReapSlot
  <1>3. /\ i \in Used(slot, last) /\ slot[i].exited /\ i \in Slots /\ i \in Nat
        /\ pslot \in Slots /\ fails \in 0..MaxFails /\ reloading \in BOOLEAN
    BY <1>1, <1>2, Sizes, Zenon DEF MasterOK, Used
  <1>4. PICK f, tb, fr, ps, full :
          /\ Reaped(f, tb, fr, ps, full)
          /\ \/ Respawns(f, tb, ps, full)
             \/ RespawnFails(f, tb, ps)
             \/ SlotFreed(f, tb, fr, ps)
    BY ReapCases, Zenon
  <1>5. ReapedOK(f, tb, fr, ps)
    BY <1>1, <1>2, <1>4, ReapedFacts, Zenon
  <1>6. ASSUME NEW tb2, NEW l2,
               \/ tb2 = tb /\ l2 = last
               \/ tb2 = fr /\ l2 = last
               \/ tb2 = tb /\ l2 = last - 1 /\ i = last - 1
        PROVE  Good(tb2, l2, f, ps, spawned)
    BY <1>5, <1>6, Zenon DEF ReapedOK
  <1>15. (/\ pc' \in {"idle", "reap"} /\ i' \in Int
          /\ pc' = "reap" => i' \in Used(slot', last') /\ slot'[i'].exited)
    BY <1>2, <1>3, ReapGoesOn
  <1>16. MasterOK' <=> pslot' \in Slots /\ fails' \in 0..MaxFails
    BY <1>2, <1>3, <1>15, Zenon DEF MasterOK
  <1>17. CASE Respawns(f, tb, ps, full)
    <2>1. PICK c : Forks(fr, last, f, ps, spawned, i, slot', last', fds', proc', c, full)
      BY <1>1, <1>2, <1>5, <1>17, ReapForks, Zenon
    <2>2. Good(fr, last, f, ps, spawned)
      BY <1>6, Zenon
    <2>3. Good(slot', last', fds', proc', spawned + 1)
      BY <2>1, <2>2, SpawnGood, Zenon DEF Forks
    <2>4. spawned' = spawned + 1 /\ pslot' = i /\ fails' = fails
      BY <1>17, Zenon DEF Respawns
    <2>5. QED
      BY <1>3, <1>16, <2>3, <2>4, Zenon DEF RightInv
  <1>18. CASE RespawnFails(f, tb, ps)
    <2>1. PICK how \in Failures :
            /\ Fails(how) /\ slot' = FailedIn(tb, f, i, how)
            /\ pslot' = (IF how = "fork" THEN i ELSE pslot) /\ fds' = f /\ proc' = ps
            /\ stale' = (stale \/ how # "socketpair") /\ last' = last
      BY <1>18, Zenon DEF RespawnFails
    <2>2. how = "socketpair"
      BY <2>1, Zenon
    <2>3. slot' = tb /\ pslot' = pslot /\ spawned' = spawned /\ fails' \in 0..MaxFails
      BY <1>3, <2>1, <2>2, Sizes DEF FailedIn, Fails
    <2>4. Good(tb, last, f, ps, spawned)
      BY <1>6, Zenon
    <2>5. QED
      BY <1>3, <1>16, <2>1, <2>3, <2>4, Zenon DEF RightInv
  <1>19. CASE SlotFreed(f, tb, fr, ps)
    <2>1. \/ slot' = fr /\ last' = last
          \/ slot' = tb /\ last' = last - 1 /\ i = last - 1
      BY <1>19, Zenon DEF SlotFreed
    <2>2. Good(slot', last', f, ps, spawned)
      BY <1>6, <2>1, Zenon
    <2>3. fds' = f /\ proc' = ps /\ pslot' = pslot /\ spawned' = spawned /\ fails' = fails
      BY <1>19, Zenon DEF SlotFreed
    <2>4. QED
      BY <1>3, <1>16, <2>2, <2>3, Zenon DEF RightInv
  <1>20. QED
    BY <1>4, <1>17, <1>18, <1>19, Zenon

\* Child c is told to leave by a signal.
LEMMA Killed ==
    ASSUME NEW c, Child(c), NEW d, d = [c EXCEPT !.told = TRUE]
    PROVE  /\ Child(d) /\ d.st = c.st /\ d.own = c.own /\ d.reads = c.reads
           /\ d.missed = c.missed /\ d.inbox = c.inbox /\ d.table = c.table /\ d.fds = c.fds
  BY Zenon DEF Child

\* What a signal to the workers does to the table and to the children.
Signals(sig, M, G, K, W, ps, full) ==
    /\ W = {s \in M : Written(s, full)}
    /\ G = {s \in M \ W : proc[slot[s].pid].st = "gone"}
    /\ K = {slot[s].pid : s \in M \ (W \cup G)}
    /\ ps = ngx_write_channel(slot, fds, proc, W, [cmd |-> sig], full)
    /\ slot' = [s \in Slots |->
                  IF s \in G
                  THEN [slot[s] EXCEPT !.exited = TRUE, !.exiting = FALSE]
                  ELSE IF s \in M THEN [slot[s] EXCEPT !.exiting = TRUE]
                  ELSE IF s < last THEN [slot[s] EXCEPT !.just = FALSE]
                  ELSE slot[s]]
    /\ proc' = [p \in Procs |->
                  IF p \in K THEN [ps[p] EXCEPT !.told = TRUE] ELSE ps[p]]

\* That is what a signal to the workers does.
LEMMA SignalIs ==
    ASSUME NEW sig, NEW full, ngx_signal_worker_processes(sig, full)
    PROVE  \E M, G, K, W, ps : /\ M = {s \in Slots : Meant(s, sig)}
                               /\ Signals(sig, M, G, K, W, ps, full)
  <1>1. PICK M : M = {s \in Slots : Meant(s, sig)}
    BY Zenon
  <1>2. PICK W : W = {s \in M : Written(s, full)}
    BY Zenon
  <1>3. PICK G : G = {s \in M \ W : proc[slot[s].pid].st = "gone"}
    BY Zenon
  <1>4. PICK K : K = {slot[s].pid : s \in M \ (W \cup G)}
    BY Zenon
  <1>5. PICK ps : ps = ngx_write_channel(slot, fds, proc, W, [cmd |-> sig], full)
    BY Zenon
  <1>6. Signals(sig, M, G, K, W, ps, full)
    BY <1>1, <1>2, <1>3, <1>4, <1>5, Zenon DEF ngx_signal_worker_processes, Signals
  <1>7. QED
    BY <1>1, <1>6, Zenon

\* Telling the workers to leave marks whoever is told.
LEMMA SignalRight ==
    ASSUME Counting, RightInv, ~stale, NEW sig \in {"QUIT", "TERM"}, NEW full,
           ngx_signal_worker_processes(sig, full),
           UNCHANGED <<last, pslot, fds, spawned, fails, stale>>, reloading' \in BOOLEAN
    PROVE  RightInv'
  <1>1. MasterOK /\ Good(slot, last, fds, proc, spawned)
    BY Zenon DEF RightInv
  <1>2. PICK M, G, K, W, ps : M = {s \in Slots : Meant(s, sig)} /\ Signals(sig, M, G, K, W, ps, full)
    BY SignalIs, Zenon
  <1>3. Signals(sig, M, G, K, W, ps, full)
    BY <1>2, Zenon
  <1>4. pc' = "idle" /\ i' = 0
    BY Zenon DEF ngx_signal_worker_processes
  <1>5. /\ slot \in [Slots -> Entries] /\ last \in 0..MaxProcesses
        /\ proc = [p \in Procs |-> proc[p]] /\ (\A p \in Procs : Child(proc[p]))
        /\ Names(fds, spawned) /\ SlotsOK(slot, last, fds, proc, spawned)
        /\ Right(slot, last, proc)
    BY <1>1, Zenon DEF Good
  <1>6. M \subseteq Used(slot, last) /\ W \subseteq M /\ G \subseteq M /\ W \in SUBSET Slots
    BY <1>2, <1>3, Zenon DEF Used, Meant, Signals
  <1>7. /\ slot' \in [Slots -> Entries]
        /\ \A s \in Slots :
            /\ slot'[s].pid = slot[s].pid /\ slot'[s].fd = slot[s].fd
            /\ s \notin G => slot'[s].exited = slot[s].exited
            /\ s \notin G /\ (s \in M \/ slot[s].exiting) => slot'[s].exiting
    <2>1. \A s \in Slots : slot[s] \in Entries
      BY <1>5, Zenon
    <2>2. ASSUME NEW s \in Slots
          PROVE  /\ slot'[s] \in Entries
                 /\ slot'[s].pid = slot[s].pid /\ slot'[s].fd = slot[s].fd
                 /\ s \notin G => slot'[s].exited = slot[s].exited
                 /\ s \notin G /\ (s \in M \/ slot[s].exiting) => slot'[s].exiting
      <3>1. PICK e : e = slot[s] /\ e \in Entries
        BY <2>1, Zenon
      <3>2. slot'[s] = IF s \in G THEN [e EXCEPT !.exited = TRUE, !.exiting = FALSE]
                       ELSE IF s \in M THEN [e EXCEPT !.exiting = TRUE]
                       ELSE IF s < last THEN [e EXCEPT !.just = FALSE]
                       ELSE e
        BY <1>3, <3>1, Zenon DEF Signals
      <3>3. QED
        BY <3>1, <3>2, Zenon DEF Entries
    <2>3. slot' = [s \in Slots |-> slot'[s]]
      BY <1>3, Zenon DEF Signals
    <2>4. QED
      BY <2>2, <2>3, Zenon
  <1>8. Used(slot', last') = Used(slot, last)
    BY <1>7, Zenon DEF Used
  <1>9. ASSUME NEW p \in Procs
        PROVE  /\ Child(ps[p]) /\ ps[p].st = proc[p].st
               /\ (\A s \in W : Channel(slot, fds, s) # p) => ps[p] = proc[p]
    <2>1. PICK m : m = [cmd |-> sig]
      BY Zenon
    <2>2. m \in Commands
      BY <2>1, Zenon DEF Commands
    <2>3. ps = ngx_write_channel(slot, fds, proc, W, m, full)
      BY <1>3, <2>1, Zenon DEF Signals
    <2>4. ps[p] \in Gets(proc[p], m)
      BY <1>6, <2>3, WriteGets, Zenon
    <2>5. (\A s \in W : Channel(slot, fds, s) # p) => ps[p] = proc[p]
      BY <1>6, <2>3, WriteNone
    <2>6. QED
      BY <1>5, <2>2, <2>4, <2>5, GetsFrame
  <1>10. ASSUME NEW p \in Procs
         PROVE  /\ Child(proc'[p]) /\ proc'[p].st = proc[p].st
                /\ Told(proc'[p]) => \/ Told(proc[p]) \/ p \in K
                                     \/ \E s \in W : Channel(slot, fds, s) = p
    <2>1. proc'[p] = IF p \in K THEN [ps[p] EXCEPT !.told = TRUE] ELSE ps[p]
      BY <1>3, Zenon DEF Signals
    <2>2. QED
      BY <1>9, <2>1, Killed
  <1>11. ASSUME NEW s \in W, NEW p \in Procs, Channel(slot, fds, s) = p
         PROVE  slot[s].pid = p
    <2>1. slot[s].fd # NoFd /\ p = fds[slot[s].fd]
      BY <1>11, Sizes DEF Channel, Closed
    <2>2. QED
      BY <1>5, <1>6, <2>1, Zenon DEF SlotsOK
  <1>12. Right(slot', last', proc')
    <2> SUFFICES ASSUME NEW p \in Procs, proc'[p].st = "run", Told(proc'[p])
                 PROVE  \E t \in Used(slot', last') : slot'[t].pid = p /\ slot'[t].exiting
      BY Zenon DEF Right
    <2>1. PICK t \in Used(slot, last) : slot[t].pid = p /\ (t \in M \/ slot[t].exiting)
      <3>1. CASE Told(proc[p])
        BY <1>5, <1>10, <3>1, Zenon DEF Right
      <3>2. CASE p \in K
        BY <1>3, <1>6, <3>2, Zenon DEF Signals
      <3>3. CASE \E s \in W : Channel(slot, fds, s) = p
        BY <1>6, <1>11, <3>3, Zenon
      <3>4. QED
        BY <1>10, <3>1, <3>2, <3>3, Zenon
    <2>2. t \notin G
      BY <1>3, <1>10, <2>1, Zenon DEF Signals
    <2>3. t \in Slots
      BY Zenon DEF Used
    <2>4. QED
      BY <1>7, <1>8, <2>1, <2>2, <2>3, Zenon
  <1>13. Keeps(slot, last, fds, spawned, slot', last', fds', proc')
    <2>1. ASSUME NEW t \in Used(slot, last)
          PROVE  slot'[t].exited => proc'[slot[t].pid].st = "gone"
      <3>1. t \in Slots /\ slot[t].pid \in Procs
        BY <1>5, Zenon DEF Used, Entries
      <3>2. t \in G => proc[slot[t].pid].st = "gone"
        BY <1>3, Zenon DEF Signals
      <3>3. slot[t].exited => proc[slot[t].pid].st = "gone"
        BY <1>5, Zenon DEF SlotsOK
      <3>4. QED
        BY <1>7, <1>10, <3>1, <3>2, <3>3, Zenon
    <2>2. proc' = [p \in Procs |-> proc'[p]]
      BY <1>3, Zenon DEF Signals
    <2>3. \A t \in Used(slot, last) : slot'[t].pid = slot[t].pid /\ slot'[t].fd = slot[t].fd
      BY <1>7, Zenon DEF Used
    <2>4. QED
      BY <1>5, <1>7, <1>8, <1>10, <1>12, <2>1, <2>2, <2>3, Zenon DEF Keeps
  <1>14. Good(slot, last, fds, proc, spawned)'
    BY <1>1, <1>13, KeptGood, Zenon
  <1>15. MasterOK'
    BY <1>1, <1>4 DEF MasterOK
  <1>16. QED
    BY <1>14, <1>15, Zenon DEF RightInv

\* A child that has left is told nothing.
LEMMA Left ==
    ASSUME NEW x \in {"dead", "gone"}
    PROVE  LET c == [NoProc EXCEPT !.st = x]
           IN  Child(c) /\ ~Told(c) /\ c.st = x
  <1>1. PICK o, k, q, t, y, u, v :
            /\ NoProc = [st |-> "none", own |-> o, kind |-> k, inbox |-> <<>>, reads |-> q,
                         told |-> t, missed |-> y, table |-> u, fds |-> v]
            /\ ~t
    BY Zenon DEF NoProc
  <1>2. [NoProc EXCEPT !.st = x] =
            [st |-> x, own |-> o, kind |-> k, inbox |-> <<>>, reads |-> q,
             told |-> t, missed |-> y, table |-> u, fds |-> v]
    BY <1>1
  <1>3. <<>> \in Seq(Commands) /\ DOMAIN <<>> = {}
    OBVIOUS
  <1>4. QED
    BY <1>1, <1>2, <1>3, Zenon DEF Child, Told

\* Waiting for the dead keeps the invariant: a slot is marked with its child.
LEMMA WaitRight ==
    ASSUME Counting, RightInv, Wait, ~stale'
    PROVE  RightInv'
  <1>1. ~stale /\ MasterOK /\ Good(slot, last, fds, proc, spawned)
    BY Zenon DEF RightInv, Wait
  <1>2. PICK D : D = {p \in Procs : proc[p].st = "dead"}
    BY Zenon
  <1>3. /\ proc' = [p \in Procs |->
                      IF p \in D THEN [NoProc EXCEPT !.st = "gone"] ELSE proc[p]]
        /\ slot' = [s \in Slots |->
                      IF s < last /\ slot[s].pid \in D
                      THEN [slot[s] EXCEPT !.exited = TRUE] ELSE slot[s]]
        /\ UNCHANGED <<last, pslot, fds, reloading, bounds, stale>>
        /\ ReapFrom(0)
    BY <1>2, Zenon DEF Wait
  <1>4. /\ slot \in [Slots -> Entries] /\ last \in 0..MaxProcesses
        /\ proc = [p \in Procs |-> proc[p]] /\ (\A p \in Procs : Child(proc[p]))
        /\ Names(fds, spawned) /\ SlotsOK(slot, last, fds, proc, spawned)
        /\ Right(slot, last, proc)
    BY <1>1, Zenon DEF Good
  <1>5. /\ slot' \in [Slots -> Entries]
        /\ \A s \in Slots :
            /\ slot'[s].pid = slot[s].pid /\ slot'[s].fd = slot[s].fd
            /\ slot'[s].exiting = slot[s].exiting
            /\ slot'[s].exited => slot[s].exited \/ slot[s].pid \in D
    BY <1>3, <1>4, Zenon DEF Entries
  <1>6. Used(slot', last') = Used(slot, last)
    BY <1>3, <1>5, Zenon DEF Used
  <1>7. ASSUME NEW p \in Procs
        PROVE  /\ Child(proc'[p])
               /\ p \in D => proc'[p].st = "gone"
               /\ p \notin D => proc'[p] = proc[p]
    BY <1>3, <1>4, Left, Zenon
  <1>8. Right(slot', last', proc')
    <2> SUFFICES ASSUME NEW p \in Procs, proc'[p].st = "run", Told(proc'[p])
                 PROVE  \E t \in Used(slot', last') : slot'[t].pid = p /\ slot'[t].exiting
      BY Zenon DEF Right
    <2>1. proc'[p] = proc[p]
      BY <1>7, Zenon
    <2>2. PICK t \in Used(slot, last) : slot[t].pid = p /\ slot[t].exiting
      BY <1>4, <2>1, Zenon DEF Right
    <2>3. t \in Slots
      BY Zenon DEF Used
    <2>4. QED
      BY <1>5, <1>6, <2>2, <2>3, Zenon
  <1>9. ASSUME NEW t \in Used(slot, last)
        PROVE  /\ slot'[t].pid = slot[t].pid /\ slot'[t].fd = slot[t].fd
               /\ slot'[t].exited => proc'[slot[t].pid].st = "gone"
    <2>1. t \in Slots /\ slot[t].pid \in Procs
      BY <1>4, Zenon DEF Used, Entries
    <2>2. slot[t].exited => proc[slot[t].pid].st = "gone"
      BY <1>4, Zenon DEF SlotsOK
    <2>3. QED
      BY <1>5, <1>7, <2>1, <2>2, Zenon
  <1>10. Keeps(slot, last, fds, spawned, slot', last', fds', proc')
    <2>1. proc' = [p \in Procs |-> proc'[p]]
      BY <1>3, Zenon
    <2>2. QED
      BY <1>3, <1>4, <1>5, <1>6, <1>7, <1>8, <1>9, <2>1, Zenon DEF Keeps
  <1>11. Good(slot, last, fds, proc, spawned)'
    BY <1>1, <1>3, <1>10, KeptGood, Zenon DEF bounds
  <1>12. MasterOK'
    <2>1. /\ pc' \in {"idle", "reap"} /\ i' \in Int
          /\ pc' = "reap" => i' \in Used(slot', last') /\ slot'[i'].exited
      BY <1>3, ReapGoesOn, Zenon
    <2>2. QED
      BY <1>1, <1>3, <2>1, Zenon DEF MasterOK, bounds
  <1>13. QED
    BY <1>11, <1>12, Zenon DEF RightInv

\* What is left alone in a child that has read a command.
LEMMA HandledFrame ==
    ASSUME NEW c, Child(c), c.inbox # <<>>,
           NEW d \in Handled([c EXCEPT !.inbox = Tail(@)], Head(c.inbox))
    PROVE  /\ Child(d) /\ d.st = c.st /\ d.own = c.own /\ d.missed = c.missed
           /\ (Told(d) => Told(c))
  <1>1. PICK b, m, a : b = c.inbox /\ m = Head(b) /\ a = Tail(b)
    BY Zenon
  <1>2. PICK l \in Nat : l = Len(b)
    BY <1>1 DEF Child
  <1>3. /\ l > 0 /\ m = b[1] /\ m \in Commands /\ a \in Seq(Commands)
        /\ DOMAIN a = 1..(l - 1) /\ DOMAIN b = 1..l
        /\ \A k \in 1..(l - 1) : a[k] = b[k + 1]
    BY <1>1, <1>2, Shorter, Zenon DEF Child
  <1>4. PICK e : e = [st |-> c.st, own |-> c.own, kind |-> c.kind, inbox |-> a,
                      reads |-> c.reads, told |-> c.told, missed |-> c.missed,
                      table |-> c.table, fds |-> c.fds]
    BY Zenon
  <1>5. e = [c EXCEPT !.inbox = Tail(@)]
    BY <1>1, <1>4 DEF Child
  <1>6. ASSUME NEW k \in DOMAIN a PROVE \E j \in DOMAIN b : a[k] = b[j]
    BY <1>2, <1>3
  <1>7. Told(e) => Told(c)
    BY <1>1, <1>4, <1>6, ZenonT(30) DEF Told
  <1>8. d \in Handled(e, m)
    BY <1>1, <1>5, Zenon
  <1>9. m.cmd \in {"QUIT", "TERM", "OPEN", "CLOSE", "BARE"}
    BY <1>3, Zenon DEF Commands
  <1>10. Child(e)
    BY <1>3, <1>4, Zenon DEF Child
  <1>11. ASSUME NEW q, NEW t, NEW f,
                d = [st |-> c.st, own |-> c.own, kind |-> c.kind, inbox |-> a,
                     reads |-> q, told |-> c.told, missed |-> c.missed,
                     table |-> t, fds |-> f]
         PROVE  /\ Child(d) /\ d.st = c.st /\ d.own = c.own /\ d.missed = c.missed
                /\ (Told(d) => Told(c))
    <2>1. d.inbox = e.inbox /\ d.told = e.told
      BY <1>4, <1>11, Zenon
    <2>2. Told(d) => Told(e)
      BY <2>1, Zenon DEF Told
    <2>3. QED
      BY <1>3, <1>7, <1>11, <2>2, Zenon DEF Child
  <1>12. CASE m.cmd \in {"QUIT", "TERM"}
    <2>1. d = [e EXCEPT !.told = TRUE]
      BY <1>8, <1>12, Zenon DEF Handled
    <2>2. 1 \in DOMAIN b
      BY <1>2, <1>3
    <2>3. Told(c)
      BY <1>1, <1>3, <1>12, <2>2, Zenon DEF Told
    <2>4. QED
      BY <1>4, <1>10, <2>1, <2>3, Killed, Zenon
  <1>13. CASE m.cmd = "OPEN"
    <2>1. d = [e EXCEPT !.table[m.slot] = Lowest(e.fds), !.fds[Lowest(e.fds)] = m.chan]
      BY <1>8, <1>13, Zenon DEF Handled
    <2>2. PICK t, f : t = [e.table EXCEPT ![m.slot] = Lowest(e.fds)]
                      /\ f = [e.fds EXCEPT ![Lowest(e.fds)] = m.chan]
      BY Zenon
    <2>3. d = [e EXCEPT !.table = t, !.fds = f]
      BY <2>1, <2>2, Zenon
    <2>4. QED
      BY <1>4, <1>11, <2>3, Zenon
  <1>14. CASE m.cmd = "CLOSE"
    <2>1. d = CloseChannel(e, m.slot)
      BY <1>8, <1>14, Zenon DEF Handled
    <2>2. CASE e.table[m.slot] = NoFd
      BY <1>4, <1>7, <1>10, <2>1, <2>2, Zenon DEF CloseChannel
    <2>3. CASE e.table[m.slot] # NoFd
      <3>1. PICK t, f : t = [e.table EXCEPT ![m.slot] = NoFd]
                        /\ f = [e.fds EXCEPT ![e.table[m.slot]] = Closed]
        BY Zenon
      <3>2. d = [e EXCEPT !.table = t, !.fds = f]
        BY <2>1, <2>3, <3>1, Zenon DEF CloseChannel
      <3>3. QED
        BY <1>4, <1>11, <3>2, Zenon
    <2>4. QED
      BY <2>2, <2>3, Zenon
  <1>15. CASE m.cmd = "BARE"
    <2>1. d \in Bare(e, m.slot)
      BY <1>8, <1>15, Zenon DEF Handled
    <2>2. CASE d = [e EXCEPT !.reads = FALSE, !.inbox = <<>>]
      <3>1. <<>> \in Seq(Commands) /\ DOMAIN <<>> = {}
        OBVIOUS
      <3>2. d = [st |-> c.st, own |-> c.own, kind |-> c.kind, inbox |-> <<>>,
                 reads |-> FALSE, told |-> c.told, missed |-> c.missed,
                 table |-> c.table, fds |-> c.fds]
        BY <1>4, <2>2, Zenon
      <3>3. QED
        BY <3>1, <3>2, Zenon DEF Child, Told
    <2>3. ASSUME NEW n \in Fds, d = [e EXCEPT !.table[m.slot] = n]
          PROVE  /\ Child(d) /\ d.st = c.st /\ d.own = c.own /\ d.missed = c.missed
                 /\ (Told(d) => Told(c))
      <3>1. PICK t : t = [e.table EXCEPT ![m.slot] = n]
        BY Zenon
      <3>2. d = [e EXCEPT !.table = t]
        BY <2>3, <3>1, Zenon
      <3>3. QED
        BY <1>4, <1>11, <3>2, Zenon
    <2>4. QED
      BY <2>1, <2>2, <2>3, Zenon DEF Bare
  <1>16. QED
    BY <1>9, <1>12, <1>13, <1>14, <1>15, Zenon

\* One child changes, and is told no more than it was.
LEMMA OneChild ==
    ASSUME RightInv, ~stale, NEW p \in Procs, NEW c, proc' = [proc EXCEPT ![p] = c],
           Child(c), c.st = "run" => proc[p].st = "run", proc[p].st # "gone",
           Told(c) => Told(proc[p]),
           UNCHANGED <<mvars, spawned, fails, stale>>
    PROVE  RightInv'
  <1>1. MasterOK /\ Good(slot, last, fds, proc, spawned)
    BY Zenon DEF RightInv
  <1>2. /\ slot \in [Slots -> Entries] /\ last \in 0..MaxProcesses
        /\ proc = [q \in Procs |-> proc[q]] /\ (\A q \in Procs : Child(proc[q]))
        /\ Names(fds, spawned) /\ SlotsOK(slot, last, fds, proc, spawned)
        /\ Right(slot, last, proc)
    BY <1>1, Zenon DEF Good
  <1>3. proc' = [q \in Procs |-> IF q = p THEN c ELSE proc[q]]
    BY <1>2, Zenon
  <1>4. \A q \in Procs : /\ Child(proc'[q]) /\ (proc'[q].st = "run" => proc[q].st = "run")
                         /\ proc[q].st = "gone" => proc'[q].st = "gone"
                         /\ Told(proc'[q]) => Told(proc[q])
    BY <1>2, <1>3, Zenon
  <1>5. Right(slot, last, proc')
    BY <1>2, <1>4, Zenon DEF Right
  <1>6. Keeps(slot, last, fds, spawned, slot, last, fds, proc')
    <2>1. \A t \in Used(slot, last) : slot[t].pid \in Procs /\ (slot[t].exited => proc[slot[t].pid].st = "gone")
      BY <1>2, Zenon DEF SlotsOK, Used, Entries
    <2>2. QED
      BY <1>2, <1>3, <1>4, <1>5, <2>1, Zenon DEF Keeps
  <1>7. Good(slot, last, fds, proc', spawned)
    BY <1>1, <1>6, KeptGood, Zenon
  <1>8. QED
    BY <1>1, <1>7, Zenon DEF RightInv, MasterOK, mvars

\* Every step keeps the invariant.
LEMMA NextRight ==
    ASSUME Counting, RightInv, [Next]_vars
    PROVE  RightInv'
  <1> SUFFICES ASSUME ~stale' PROVE RightInv'
    BY Zenon DEF RightInv
  <1>1. CASE StartOne
    BY <1>1, StartRight, Zenon
  <1>2. CASE StartsDone
    <2>1. ~stale /\ MasterOK /\ Good(slot, last, fds, proc, spawned)
      BY <1>2, Zenon DEF RightInv, StartsDone
    <2>2. reloading' = FALSE /\ UNCHANGED <<last, pslot, fds, spawned, fails, stale>>
      BY <1>2, Zenon DEF StartsDone
    <2>3. CASE reloading
      <3>1. PICK full : ngx_signal_worker_processes("QUIT", full)
        BY <1>2, <2>3, Zenon DEF StartsDone
      <3>2. QED
        BY <2>1, <2>2, <3>1, SignalRight, Zenon
    <2>4. CASE ~reloading
      <3>1. pc' = "idle" /\ i' = 0 /\ UNCHANGED <<slot, proc>>
        BY <1>2, <2>4, Zenon DEF StartsDone
      <3>2. i' \in Int
        BY <3>1
      <3>3. MasterOK'
        BY <2>1, <2>2, <3>1, <3>2, Zenon DEF MasterOK
      <3>4. QED
        BY <2>1, <2>2, <3>1, <3>3, Zenon DEF RightInv
    <2>5. QED
      BY <2>3, <2>4, Zenon
  <1>3. CASE Wait
    BY <1>3, WaitRight, Zenon
  <1>4. CASE ReapSlot
    BY <1>4, ReapRight, Zenon
  <1>5. CASE Reload
    BY <1>5 DEF Reload, RightInv, MasterOK
  <1>6. ASSUME NEW sig \in {"QUIT", "TERM"}, Shutdown(sig)
        PROVE  RightInv'
    <2>1. ~stale /\ MasterOK
      BY <1>6, Zenon DEF RightInv, Shutdown
    <2>2. PICK full : ngx_signal_worker_processes(sig, full)
      BY <1>6, Zenon DEF Shutdown
    <2>3. UNCHANGED <<last, pslot, fds, spawned, fails, stale, reloading>>
      BY <1>6, Zenon DEF Shutdown
    <2>4. QED
      BY <2>1, <2>2, <2>3, SignalRight, Zenon DEF MasterOK
  <1>7. ASSUME NEW p \in Procs, ngx_channel_handler(p)
        PROVE  RightInv'
    <2>1. ~stale /\ Good(slot, last, fds, proc, spawned)
      BY <1>7, Zenon DEF RightInv, ngx_channel_handler
    <2>2. Child(proc[p]) /\ proc[p].st = "run" /\ proc[p].inbox # <<>>
      BY <1>7, <2>1, Zenon DEF Good, ngx_channel_handler
    <2>3. PICK c \in Handled([proc[p] EXCEPT !.inbox = Tail(@)], Head(proc[p].inbox)) :
              proc' = [proc EXCEPT ![p] = c]
      BY <1>7, Zenon DEF ngx_channel_handler
    <2>4. Child(c) /\ c.st = proc[p].st /\ (Told(c) => Told(proc[p]))
      BY <2>2, HandledFrame, Zenon
    <2>5. UNCHANGED <<mvars, spawned, fails, stale>>
      BY <1>7, Zenon DEF ngx_channel_handler, bounds
    <2>6. QED
      BY <2>1, <2>2, <2>3, <2>4, <2>5, OneChild, Zenon
  <1>8. ASSUME NEW p \in Procs, Leaves(p)
        PROVE  RightInv'
    <2>1. ~stale /\ proc[p].st = "run" /\ UNCHANGED <<mvars, spawned, fails, stale>>
      BY <1>8, Zenon DEF Leaves
    <2>2. PICK c : c = [NoProc EXCEPT !.st = "dead"]
      BY Zenon
    <2>3. proc' = [proc EXCEPT ![p] = c]
      BY <1>8, <2>2, Zenon DEF Leaves
    <2>4. Child(c) /\ ~Told(c) /\ c.st = "dead"
      BY <2>2, Left, Zenon
    <2>5. QED
      BY <2>1, <2>3, <2>4, OneChild, Zenon
  <1>9. CASE UNCHANGED vars
    BY <1>9, Zenon DEF RightInv, MasterOK, vars, mvars, bounds
  <1>10. QED
    BY <1>1, <1>2, <1>3, <1>4, <1>5, <1>6, <1>7, <1>8, <1>9, Zenon DEF Next, Master

\* At the start there is no child.
LEMMA InitRight ==
    ASSUME Init
    PROVE  RightInv
  <1>1. \A p \in Procs : proc[p] = NoProc
    BY Zenon DEF Init
  <1>2. Child(NoProc) /\ ~Told(NoProc) /\ NoProc.st = "none"
    <2>1. PICK u, v : NoProc = [st |-> "none", own |-> 0, kind |-> "worker",
                                inbox |-> <<>>, reads |-> FALSE, told |-> FALSE,
                                missed |-> FALSE, table |-> u, fds |-> v]
      BY Zenon DEF NoProc
    <2>2. <<>> \in Seq(Commands) /\ DOMAIN <<>> = {}
      OBVIOUS
    <2>3. QED
      BY <2>1, <2>2, Zenon DEF Child, Told
  <1>3. NoSlot \in Entries
    BY Zenon DEF NoSlot, Entries
  <1>4. slot \in [Slots -> Entries] /\ Used(slot, last) = {}
    BY <1>3, Sizes DEF Init, Used
  <1>5. Names(fds, spawned)
    BY DEF Init, Names, Closed
  <1>6. proc = [p \in Procs |-> proc[p]]
    BY Zenon DEF Init
  <1>7. Good(slot, last, fds, proc, spawned)
    <2>1. last \in 0..MaxProcesses /\ spawned \in 0..MaxSpawns
      BY Sizes DEF Init
    <2>2. QED
      BY <1>1, <1>2, <1>4, <1>5, <1>6, <2>1, Zenon DEF Good, SlotsOK, Right
  <1>8. MasterOK
    <2>1. pslot \in Slots /\ fails \in 0..MaxFails
      BY Sizes DEF Init, Slots
    <2>2. reloading = FALSE /\ pc = "start" /\ i = 1
      BY Zenon DEF Init
    <2>3. i \in Int /\ i > 0
      BY <2>2
    <2>4. QED
      BY <2>1, <2>2, <2>3, Zenon DEF MasterOK
  <1>9. QED
    BY <1>7, <1>8, Zenon DEF RightInv

\* Then nobody is told to leave but who is marked.
LEMMA RightFollows == RightInv => RightChild
  <1> SUFFICES ASSUME RightInv, ~stale, NEW p \in Procs, Runs(p),
                      \/ proc[p].told
                      \/ \E k \in DOMAIN proc[p].inbox :
                          proc[p].inbox[k].cmd \in {"QUIT", "TERM"}
               PROVE  Marked(p)
    BY Zenon DEF RightChild
  <1>1. PICK s \in Used(slot, last) : slot[s].pid = p /\ slot[s].exiting
    BY Zenon DEF RightInv, Good, Right, Runs, Told
  <1>2. QED
    BY <1>1, Zenon DEF Marked, Used

-----------------------------------------------------------------------------
(* What the children know.                                                 *)

\* The channel of a slot that is used is its child's, and no other's.
LEMMA ChannelIs ==
    ASSUME NEW tb, NEW l, NEW f, NEW ps, NEW m, SlotsOK(tb, l, f, ps, m),
           NEW p \in Procs, NEW o \in Used(tb, l), tb[o].pid = p,
           NEW t \in Used(tb, l), Channel(tb, f, t) = p
    PROVE  t = o
  <1>1. p # Closed
    BY Sizes DEF Closed
  <1>2. tb[t].fd # NoFd /\ f[tb[t].fd] = p
    BY <1>1, Zenon DEF Channel
  <1>3. tb[t].pid = p
    BY <1>2, Zenon DEF SlotsOK
  <1>4. QED
    BY <1>3, Zenon DEF SlotsOK

\* What is written reaches the child of a slot that is a target once, or not.
LEMMA ToldOnce ==
    ASSUME Counting, NEW tb, NEW l, NEW f, NEW qs, NEW m, SlotsOK(tb, l, f, qs, m), NEW ps,
           NEW targets \in SUBSET Used(tb, l), NEW o \in targets, NEW p \in Procs,
           tb[o].pid = p, tb[o].fd # NoFd, ps[p].reads, Child(ps[p]),
           NEW msg \in Commands, NEW full
    PROVE  LET d == ngx_write_channel(tb, f, ps, targets, msg, full)[p]
           IN  d.missed \/ OneMore(ps[p], d, msg)
  <1>1. targets \in SUBSET Slots
    BY Zenon DEF Used
  <1>2. PICK n \in Nat : Reaches(tb, f, ps, targets, msg, full, p, n)
    BY <1>1, WriteCount, Zenon
  <1>3. \A t \in targets : Channel(tb, f, t) = p <=> t = o
    <2>1. Channel(tb, f, o) = p
      BY Zenon DEF SlotsOK, Channel
    <2>2. ASSUME NEW t \in targets, Channel(tb, f, t) = p PROVE t = o
      BY <2>2, ChannelIs
    <2>3. QED
      BY <2>1, <2>2, Zenon
  <1>4. n = 1 /\ ngx_write_channel(tb, f, ps, targets, msg, full)[p] = Sent(ps[p], p, 1, msg, full)
    BY <1>2, <1>3, Zenon DEF Reaches
  <1>5. PICK c, d : c = ps[p] /\ d = Sent(c, p, 1, msg, full)
    BY Zenon
  <1>6. CASE p \in full
    <2>1. d = [c EXCEPT !.missed = TRUE]
      BY <1>5, <1>6 DEF Sent
    <2>2. Child(c)
      BY <1>5, Zenon
    <2>3. d.missed
      BY <2>1, <2>2, Zenon DEF Child
    <2>4. QED
      BY <1>4, <1>5, <2>3, Zenon
  <1>7. CASE p \notin full
    <2>1. d = [c EXCEPT !.inbox = @ \o [k \in 1..1 |-> msg]]
      BY <1>5, <1>7 DEF Sent
    <2>2. Child(c)
      BY <1>5, Zenon
    <2>3. OneMore(c, d, msg)
      BY <2>1, <2>2, GetsOnce, Zenon
    <2>4. QED
      BY <1>4, <1>5, <2>3, Zenon
  <1>8. QED
    BY <1>6, <1>7, Zenon

\* One more command to read.
LEMMA InboxLonger ==
    ASSUME NEW b, NEW d, NEW msg, Longer(b, d, msg), NEW own, NEW f,
           NEW m \in Nat, NEW k \in Nat, m <= k, InboxOK(b, own, f, m),
           msg.cmd # "BARE", msg.cmd \in {"OPEN", "CLOSE"} => msg.slot # own,
           msg.cmd = "OPEN" => /\ msg.chan = k /\ m < k
                               /\ \A n \in Fds : f[n] # k
    PROVE  InboxOK(d, own, f, k)
  <1>1. PICK l \in Nat : l = Len(b)
    BY DEF Longer
  <1>2. /\ b \in Seq(Commands) /\ DOMAIN b = 1..l /\ DOMAIN d = 1..(l + 1)
        /\ (\A j \in 1..l : d[j] = b[j]) /\ d[l + 1] = msg
    BY <1>1 DEF Longer
  <1>3. \A j : j \in DOMAIN d <=> j \in DOMAIN b \/ j = l + 1
    BY <1>1, <1>2
  <1>4. PICK z : z = l + 1
    BY Zenon
  <1>5. /\ d[z] = msg /\ z \notin DOMAIN b /\ (\A j \in DOMAIN b : d[j] = b[j])
        /\ \A j : j \in DOMAIN d <=> j \in DOMAIN b \/ j = z
    BY <1>1, <1>2, <1>3, <1>4
  <1>6. \A j : j \in Announced(d) <=> j \in Announced(b) \/ (j = z /\ msg.cmd = "OPEN")
    BY <1>5, Zenon DEF Announced
  <1>7. \A j \in Announced(b) : /\ d[j] = b[j] /\ b[j].chan \in Nat /\ b[j].chan <= m
                                /\ b[j].chan # Closed
    <2>1. ASSUME NEW j \in Announced(b) PROVE b[j].chan \in Nat
      <3>1. b[j] \in Commands /\ b[j].cmd = "OPEN"
        BY <1>2 DEF Announced
      <3>2. b[j].chan \in Procs \cup {Closed}
        BY <3>1, Zenon DEF Commands
      <3>3. QED
        BY <3>2, Sizes DEF Closed
    <2>2. \A j \in Announced(b) : d[j] = b[j]
      BY <1>5, Zenon DEF Announced
    <2>3. QED
      BY <2>1, <2>2, Zenon DEF InboxOK
  <1>8. \A j \in DOMAIN d : /\ d[j].cmd # "BARE"
                            /\ d[j].cmd \in {"OPEN", "CLOSE"} => d[j].slot # own
    BY <1>5 DEF InboxOK
  <1>9. \A j \in Announced(d) : /\ d[j].chan # Closed /\ d[j].chan <= k
                                /\ \A n \in Fds : f[n] # d[j].chan
    <2>1. ASSUME NEW j \in Announced(b)
          PROVE  /\ d[j].chan # Closed /\ d[j].chan <= k
                 /\ \A n \in Fds : f[n] # d[j].chan
      <3>1. d[j] = b[j] /\ b[j].chan # Closed /\ \A n \in Fds : f[n] # b[j].chan
        BY <1>7, Zenon DEF InboxOK
      <3>2. b[j].chan <= k
        BY <1>7
      <3>3. QED
        BY <3>1, <3>2, Zenon
    <2>2. msg.cmd = "OPEN" => msg.chan # Closed /\ msg.chan <= k
      BY DEF Closed
    <2>3. QED
      BY <1>5, <1>6, <2>1, <2>2, Zenon
  <1>10. \A j, n \in Announced(d) : d[j].chan = d[n].chan => j = n
    <2>1. msg.cmd = "OPEN" => \A j \in Announced(b) : b[j].chan # msg.chan
      BY <1>7
    <2>2. \A j, n \in Announced(b) : b[j].chan = b[n].chan => j = n
      BY Zenon DEF InboxOK
    <2>3. QED
      BY <1>5, <1>6, <1>7, <2>1, <2>2
  <1>11. QED
    BY <1>8, <1>9, <1>10, Zenon DEF InboxOK

\* One command less to read.
LEMMA InboxShorter ==
    ASSUME NEW b \in Seq(Commands), b # <<>>, NEW own, NEW f, NEW m, InboxOK(b, own, f, m),
           NEW g, \A n \in Fds : \/ g[n] \in {f[n], Closed}
                                 \/ Head(b).cmd = "OPEN" /\ g[n] = Head(b).chan
    PROVE  InboxOK(Tail(b), own, g, m)
  <1>1. PICK l \in Nat : l = Len(b)
    OBVIOUS
  <1>2. /\ l > 0 /\ Head(b) = b[1] /\ DOMAIN Tail(b) = 1..(l - 1) /\ DOMAIN b = 1..l
        /\ \A k \in 1..(l - 1) : Tail(b)[k] = b[k + 1]
    BY <1>1, Shorter, Zenon
  <1>3. \A k \in DOMAIN Tail(b) : /\ k + 1 \in DOMAIN b /\ Tail(b)[k] = b[k + 1] /\ k + 1 # 1
                                  /\ k \in Int
    BY <1>1, <1>2
  <1>4. 1 \in DOMAIN b
    BY <1>1, <1>2
  <1>5. PICK a : a = Tail(b)
    BY Zenon
  <1>6. \A k \in DOMAIN a : k + 1 \in DOMAIN b /\ a[k] = b[k + 1] /\ k + 1 # 1 /\ k \in Int
    BY <1>3, <1>5, Zenon
  <1>7. \A k \in DOMAIN a : /\ a[k].cmd # "BARE"
                            /\ a[k].cmd \in {"OPEN", "CLOSE"} => a[k].slot # own
    BY <1>6, Zenon DEF InboxOK
  <1>8. \A k \in Announced(a) : k \in DOMAIN a /\ k + 1 \in Announced(b)
    BY <1>6, Zenon DEF Announced
  <1>9. \A j, k \in Announced(a) : a[j].chan = a[k].chan => j = k
    <2> SUFFICES ASSUME NEW j \in Announced(a), NEW k \in Announced(a), a[j].chan = a[k].chan
                 PROVE  j = k
      BY Zenon
    <2>1. j + 1 = k + 1
      BY <1>6, <1>8, ZenonT(30) DEF InboxOK
    <2>2. j \in Int /\ k \in Int
      BY <1>6, <1>8, Zenon
    <2>3. QED
      BY <2>1, <2>2
  <1>10. ASSUME NEW k \in Announced(a)
         PROVE  /\ a[k].chan # Closed /\ a[k].chan <= m
                /\ \A n \in Fds : g[n] # a[k].chan
    <2>1. PICK j \in Announced(b) : a[k] = b[j] /\ j # 1
      BY <1>6, <1>8, Zenon
    <2>2. /\ b[j].chan # Closed /\ b[j].chan <= m /\ \A n \in Fds : f[n] # b[j].chan
      BY Zenon DEF InboxOK
    <2>3. Head(b).cmd = "OPEN" => Head(b).chan # b[j].chan
      <3>1. Head(b).cmd = "OPEN" => 1 \in Announced(b)
        BY <1>2, <1>4, Zenon DEF Announced
      <3>2. QED
        BY <1>2, <2>1, <3>1, Zenon DEF InboxOK
    <2>4. QED
      BY <2>1, <2>2, <2>3, Zenon
  <1>11. QED
    BY <1>5, <1>7, <1>9, <1>10, Zenon DEF InboxOK

\* A child with one more command to read.
LEMMA HeardOK ==
    ASSUME NEW c, NEW d, NEW msg, OneMore(c, d, msg), NEW m \in Nat, NEW k \in Nat, m <= k,
           TableOK(c, m), msg.cmd # "BARE",
           msg.cmd \in {"OPEN", "CLOSE"} => msg.slot # c.own,
           msg.cmd = "OPEN" => msg.chan = k /\ m < k
    PROVE  TableOK(d, k)
  <1>1. /\ Longer(c.inbox, d.inbox, msg) /\ d.own = c.own
        /\ d.table = c.table /\ d.fds = c.fds /\ d.reads = c.reads
    BY Zenon DEF OneMore
  <1>2. c.reads /\ NumbersOK(c.own, c.table, c.fds, m) /\ InboxOK(c.inbox, c.own, c.fds, m)
    BY Zenon DEF TableOK
  <1>3. c.fds \in [Fds -> Procs \cup {Closed}] /\ \A n \in Fds : c.fds[n] <= m
    BY <1>2, Zenon DEF NumbersOK, Names
  <1>4. \A n \in Fds : c.fds[n] \in Nat
    BY <1>3, Sizes DEF Closed
  <1>5. \A n \in Fds : c.fds[n] <= k /\ (m < k => c.fds[n] # k)
    BY <1>3, <1>4
  <1>6. NumbersOK(c.own, c.table, c.fds, k)
    BY <1>2, <1>5, Zenon DEF NumbersOK, Names
  <1>7. InboxOK(d.inbox, c.own, c.fds, k)
    BY <1>1, <1>2, <1>5, InboxLonger
  <1>8. QED
    BY <1>1, <1>2, <1>6, <1>7, Zenon DEF TableOK

\* What a new child knows, and that it is told nothing.
LEMMA ForkedKnows ==
    ASSUME NEW tb, NEW l, NEW f, NEW m, NEW s, NEW tb2, NEW ps, NEW l2,
           tb \in [Slots -> Entries], m \in Nat,
           Names(f, m), SlotsOK(tb, l, f, ps, m), Agree(tb, l, f, ps, m),
           s \in Slots, s \notin Used(tb, l),
           \A t \in Slots : t # s => tb2[t] = tb[t],
           tb2 \in [Slots -> Entries],
           NEW c, c.own = s, c.reads, c.inbox = <<>>,
           c.table = [t \in Slots |-> tb2[t].fd], c.fds = f
    PROVE  /\ TableOK(c, m)
           /\ \A t \in Slots \ {s} : Learns(c.inbox, Holds(c, t), t, Chan(tb2, t))
  <1>1. \A t \in Slots \ {s} : /\ c.table[t] = tb[t].fd /\ tb[t].fd \in Fds \cup {NoFd}
                               /\ tb2[t] = tb[t]
    BY DEF Entries
  <1>2. \A t \in Slots : tb[t].fd # NoFd <=> t \in Used(tb, l)
    BY Zenon DEF Agree
  <1>3. \A t \in Slots : tb[t].fd # NoFd => f[tb[t].fd] = tb[t].pid /\ tb[t].pid # Closed
    <2>1. ASSUME NEW t \in Slots, tb[t].fd # NoFd
          PROVE  f[tb[t].fd] = tb[t].pid /\ tb[t].pid # Closed
      <3>1. t \in Used(tb, l)
        BY <1>2, <2>1, Zenon
      <3>2. f[tb[t].fd] = tb[t].pid
        BY <2>1, <3>1, Zenon DEF SlotsOK
      <3>3. tb[t].pid \in Procs
        BY <3>1, Zenon DEF Used, Entries
      <3>4. QED
        BY <3>2, <3>3, ProcsOpen, Zenon
    <2>2. QED
      BY <2>1, Zenon
  <1>4. NumbersOK(s, c.table, f, m)
    <2>1. c.table \in [Slots -> Fds \cup {NoFd}]
      BY ZenonT(30) DEF Entries
    <2>2. \A t \in Slots \ {s} : c.table[t] # NoFd => f[c.table[t]] # Closed
      BY <1>1, <1>3
    <2>3. ASSUME NEW t \in Slots \ {s}, NEW u \in Slots \ {s}, c.table[t] = c.table[u],
                 c.table[t] # NoFd
          PROVE  t = u
      <3>1. tb[t].pid = tb[u].pid /\ t \in Used(tb, l) /\ u \in Used(tb, l)
        BY <1>1, <1>2, <1>3, <2>3
      <3>2. QED
        BY <3>1, Zenon DEF SlotsOK
    <2>4. ASSUME NEW n \in Fds, f[n] # Closed
          PROVE  \E t \in Slots \ {s} : c.table[t] = n
      <3>1. PICK t \in Slots : tb[t].fd = n
        BY <2>4, Zenon DEF Agree
      <3>2. n # NoFd
        BY Sizes DEF NoFd
      <3>3. t # s
        BY <1>2, <3>1, <3>2, Zenon
      <3>4. QED
        BY <1>1, <3>1, <3>3, Zenon
    <2>5. QED
      BY <2>1, <2>2, <2>3, <2>4, Zenon DEF NumbersOK
  <1>5. DOMAIN <<>> = {}
    BY EmptyDomain, Zenon
  <1>6. InboxOK(<<>>, s, f, m)
    BY <1>5, Zenon DEF InboxOK, Announced
  <1>7. TableOK(c, m)
    BY <1>4, <1>6, Zenon DEF TableOK
  <1>8. ASSUME NEW t \in Slots \ {s} PROVE Learns(<<>>, Holds(c, t), t, Chan(tb2, t))
    <2>1. Holds(c, t) = Chan(tb2, t)
      BY <1>1, <1>3 DEF Holds, Chan
    <2>2. Opens(<<>>, t) = {} /\ Closes(<<>>, t) = {}
      BY <1>5, Zenon DEF Opens, Closes
    <2>3. QED
      BY <2>1, <2>2, Zenon DEF Learns
  <1>9. QED
    BY <1>7, <1>8, Zenon

(* A spawn keeps the children's knowledge: the new child has it from the   *)
(* master, and the others are told, or miss it.                            *)
LEMMA SpawnAgree ==
    ASSUME Counting, NEW tb, NEW l, NEW f, NEW ps, NEW m, NEW s, NEW tb2, NEW l2, NEW g, NEW P,
           NEW c, NEW full, Good(tb, l, f, ps, m), Agree(tb, l, f, ps, m),
           Forks(tb, l, f, ps, m, s, tb2, l2, g, P, c, full)
    PROVE  Agree(tb2, l2, g, P, m + 1)
  <1>1. PICK n, q : n = Lowest(f) /\ q = m + 1
    BY Zenon
  <1>2. /\ Good(tb, l, f, ps, m) /\ Agree(tb, l, f, ps, m)
        /\ Spawns(tb, l, f, ps, m, s, tb2, l2, g, P)
        /\ c.st = "run" /\ c.own = s /\ c.reads /\ c.inbox = <<>> /\ ~c.missed /\ Child(c)
        /\ c.table = [t \in Slots |-> tb2[t].fd] /\ c.fds = f
        /\ P = ngx_pass_open_channel(tb2, g, [ps EXCEPT ![q] = c], l2, s, full)
    BY <1>1, Zenon DEF Forks
  <1>3. /\ m < MaxSpawns /\ s \in Slots /\ s \notin Used(tb, l)
        /\ g = [f EXCEPT ![n] = q]
        /\ (\A t \in Slots : t # s => tb2[t] = tb[t])
        /\ tb2[s].pid = q /\ tb2[s].fd = n /\ tb2 \in [Slots -> Entries]
        /\ l2 \in 0..MaxProcesses /\ Used(tb2, l2) = Used(tb, l) \cup {s}
        /\ \A p \in Procs : p # q => P[p].st = ps[p].st
    BY <1>1, <1>2, Zenon DEF Spawns
  <1>4. /\ tb \in [Slots -> Entries] /\ Names(f, m) /\ SlotsOK(tb, l, f, ps, m)
        /\ ps = [p \in Procs |-> ps[p]] /\ (\A p \in Procs : Child(ps[p]))
        /\ m \in 0..MaxSpawns
    BY <1>2, Zenon DEF Good
  <1>5. m \in Nat /\ q \in Nat /\ q \in Procs /\ m < q /\ m <= q /\ q # Closed
    BY <1>1, <1>3, <1>4, Sizes DEF Procs, Closed
  <1>6. n \in Fds /\ f[n] = Closed /\ n # NoFd
    BY <1>1, <1>3, <1>4, <1>5, LowestFree, Sizes DEF NoFd
  <1>7. Good(tb2, l2, g, P, q)
    BY <1>1, <1>2, SpawnGood, Zenon
  <1>8. SlotsOK(tb2, l2, g, P, q) /\ f \in [Fds -> Procs \cup {Closed}]
    BY <1>4, <1>7, Zenon DEF Good, Names
  <1>9. \A t \in Slots : tb[t].fd # NoFd <=> t \in Used(tb, l)
    BY <1>2, Zenon DEF Agree
  <1>10. \A t \in Slots : tb2[t].fd # NoFd <=> t \in Used(tb2, l2)
    BY <1>3, <1>6, <1>9, Zenon
  <1>11. ASSUME NEW k \in Fds, g[k] # Closed PROVE \E t \in Slots : tb2[t].fd = k
    <2>1. CASE k = n
      BY <1>3, <2>1, Zenon
    <2>2. CASE k # n
      <3>1. f[k] # Closed
        BY <1>3, <1>8, <1>11, <2>2, Zenon
      <3>2. PICK t \in Slots : tb[t].fd = k
        BY <1>2, <3>1, Zenon DEF Agree
      <3>3. k # NoFd
        BY Sizes DEF NoFd
      <3>4. t # s
        BY <1>3, <1>9, <3>2, <3>3, Zenon
      <3>5. QED
        BY <1>3, <3>2, <3>4, Zenon
    <2>3. QED
      BY <2>1, <2>2, Zenon
  <1>12. /\ \A t \in Slots : t # s => Chan(tb2, t) = Chan(tb, t)
         /\ Chan(tb, s) = Closed /\ Chan(tb2, s) = q
    BY <1>3, <1>6, <1>9, Zenon DEF Chan
  <1>13. PICK T, msg, ps2 :
            /\ T = {t \in Slots : t < l2 /\ t # s /\ tb2[t].pid # NoPid /\ tb2[t].fd # NoFd}
            /\ msg = [cmd |-> "OPEN", slot |-> s, chan |-> q]
            /\ ps2 = [ps EXCEPT ![q] = c]
    BY Zenon
  <1>14. Channel(tb2, g, s) = q
    BY <1>3, <1>6, <1>8, Zenon DEF Channel
  <1>15. P = ngx_write_channel(tb2, g, ps2, T, msg, full)
    <2>1. (IF tb2[s].fd = NoFd THEN "BARE" ELSE "OPEN") = "OPEN"
      BY <1>3, <1>6, Zenon
    <2>2. msg.chan = q
      BY <1>13, Zenon
    <2>3. P = IF msg.cmd = "OPEN" /\ msg.chan = Closed THEN ps2
              ELSE ngx_write_channel(tb2, g, ps2, T, msg, full)
      BY <1>2, <1>13, <1>14, <2>1, Zenon DEF ngx_pass_open_channel
    <2>4. QED
      BY <1>5, <2>2, <2>3, Zenon
  <1>16. T \in SUBSET Used(tb2, l2) /\ T \in SUBSET Slots /\ s \notin T
    BY <1>13, Zenon DEF Used
  <1>17. /\ msg \in Commands /\ msg.cmd = "OPEN" /\ msg.slot = s /\ msg.chan = q
    BY <1>3, <1>5, <1>13, Zenon DEF Commands
  <1>18. ps2[q] = c /\ \A p \in Procs : p # q => ps2[p] = ps[p]
    BY <1>4, <1>5, <1>13, Zenon
  <1>19. s \in Used(tb2, l2)
    BY <1>3, Zenon
  <1>20. P[q] = c
    <2>1. ASSUME NEW t \in T PROVE Channel(tb2, g, t) # q
      <3>1. t \in Used(tb2, l2) /\ t # s
        BY <1>16, Zenon
      <3>2. Channel(tb2, g, t) = q => t = s
        BY <1>3, <1>5, <1>8, <1>19, <3>1, ChannelIs
      <3>3. QED
        BY <3>1, <3>2, Zenon
    <2>2. P[q] = ps2[q]
      BY <1>5, <1>15, <1>16, <2>1, WriteNone
    <2>3. QED
      BY <1>18, <2>2, Zenon
  <1>21. ASSUME NEW p \in Procs, p # q, P[p].st = "run"
         PROVE  /\ ps[p].st = "run" /\ Child(ps[p]) /\ P[p].own = ps[p].own
                /\ ps[p].missed => P[p].missed
                /\ ps[p].own \in Used(tb, l) /\ tb[ps[p].own].pid = p
                /\ ps[p].own # s /\ tb2[ps[p].own] = tb[ps[p].own]
    <2>1. ps[p].st = "run" /\ Child(ps[p]) /\ ps2[p] = ps[p]
      BY <1>3, <1>4, <1>18, <1>21, Zenon
    <2>2. P[p] \in Gets(ps2[p], msg)
      BY <1>15, <1>16, WriteGets, Zenon
    <2>3. P[p].own = ps[p].own /\ (ps[p].missed => P[p].missed)
      BY <1>17, <2>1, <2>2, GetsFrame
    <2>4. ps[p].own \in Used(tb, l) /\ tb[ps[p].own].pid = p
      BY <1>2, <2>1, Zenon DEF Agree
    <2>5. ps[p].own # s /\ tb2[ps[p].own] = tb[ps[p].own]
      BY <1>3, <2>4, Zenon DEF Used
    <2>6. QED
      BY <2>1, <2>3, <2>4, <2>5, Zenon
  <1>22. ASSUME NEW p \in Procs, P[p].st = "run"
         PROVE  P[p].own \in Used(tb2, l2) /\ tb2[P[p].own].pid = p
    <2>1. CASE p = q
      BY <1>2, <1>3, <1>19, <1>20, <2>1, Zenon
    <2>2. CASE p # q
      BY <1>3, <1>21, <1>22, <2>2
    <2>3. QED
      BY <2>1, <2>2, Zenon
  <1>23. /\ TableOK(c, m)
         /\ \A t \in Slots \ {s} : Learns(c.inbox, Holds(c, t), t, Chan(tb2, t))
    BY <1>2, <1>3, <1>4, <1>5, ForkedKnows
  <1>24. TableOK(c, q)
    <2>1. \A k \in Fds : f[k] \in Nat /\ f[k] <= m
      BY <1>4, <1>8, Sizes DEF Names, Closed
    <2>2. \A k \in Fds : f[k] <= q
      BY <1>5, <2>1
    <2>3. DOMAIN <<>> = {}
      OBVIOUS
    <2>4. NumbersOK(c.own, c.table, c.fds, q)
      BY <1>2, <1>23, <2>2, Zenon DEF TableOK, NumbersOK, Names
    <2>5. InboxOK(c.inbox, c.own, c.fds, q)
      BY <1>2, <2>3, Zenon DEF InboxOK, Announced
    <2>6. QED
      BY <1>2, <2>4, <2>5, Zenon DEF TableOK
  <1>25. ASSUME NEW p \in Procs, p # q, P[p].st = "run", ~P[p].missed
         PROVE  /\ TableOK(P[p], q)
                /\ \A t \in Slots \ {P[p].own} :
                      Learns(P[p].inbox, Holds(P[p], t), t, Chan(tb2, t))
    <2>1. PICK a, d, o : a = ps[p] /\ d = P[p] /\ o = ps[p].own
      BY Zenon
    <2>2. /\ a.st = "run" /\ Child(a) /\ ~a.missed /\ d.own = o /\ a.own = o
          /\ o \in Used(tb, l) /\ tb[o].pid = p /\ o # s /\ tb2[o] = tb[o]
      BY <1>21, <1>25, <2>1, Zenon
    <2>3. /\ TableOK(a, m)
          /\ \A t \in Slots \ {o} : Learns(a.inbox, Holds(a, t), t, Chan(tb, t))
      BY <1>2, <2>1, <2>2, Zenon DEF Agree
    <2>4. o \in T
      <3>1. o \in Slots /\ o \in Used(tb2, l2) /\ tb2[o].fd # NoFd
        BY <1>3, <1>10, <2>2, Zenon DEF Used
      <3>2. QED
        BY <1>13, <2>2, <3>1, Zenon DEF Used
    <2>5. tb2[o].pid = p /\ tb2[o].fd # NoFd /\ ps2[p] = a /\ a.reads
      BY <1>13, <1>18, <1>25, <2>1, <2>2, <2>3, <2>4, Zenon DEF TableOK
    <2>6. OneMore(a, d, msg)
      <3>1. ps2[p].reads /\ Child(ps2[p])
        BY <2>2, <2>5, Zenon
      <3>2. P[p].missed \/ OneMore(ps2[p], P[p], msg)
        BY <1>8, <1>15, <1>16, <1>17, <2>4, <2>5, <3>1, ToldOnce, Zenon
      <3>3. QED
        BY <1>25, <2>1, <2>5, <3>2, Zenon
    <2>7. TableOK(d, q)
      BY <1>5, <1>17, <2>2, <2>3, <2>6, HeardOK, Zenon
    <2>8. Longer(a.inbox, d.inbox, msg) /\ d.table = a.table /\ d.fds = a.fds
      BY <2>6, Zenon DEF OneMore
    <2>9. ASSUME NEW t \in Slots \ {o}
          PROVE  Learns(d.inbox, Holds(d, t), t, Chan(tb2, t))
      <3>1. Holds(d, t) = Holds(a, t) /\ Learns(a.inbox, Holds(a, t), t, Chan(tb, t))
        BY <2>3, <2>8, Zenon DEF Holds
      <3>2. CASE t = s
        <4>1. Learns(a.inbox, Holds(a, t), t, Closed) /\ Chan(tb2, t) = msg.chan
              /\ msg.chan # Closed /\ msg.slot = t
          BY <1>5, <1>12, <1>17, <3>1, <3>2, Zenon
        <4>2. Learns(d.inbox, Holds(a, t), t, msg.chan)
          BY <1>17, <2>8, <4>1, LearnsOpened, Zenon
        <4>3. QED
          BY <3>1, <4>1, <4>2, Zenon
      <3>3. CASE t # s
        <4>1. Chan(tb2, t) = Chan(tb, t) /\ msg.slot # t
          BY <1>12, <1>17, <3>3, Zenon
        <4>2. Learns(d.inbox, Holds(a, t), t, Chan(tb, t))
          BY <2>8, <3>1, <4>1, LearnsOther, Zenon
        <4>3. QED
          BY <3>1, <4>1, <4>2, Zenon
      <3>4. QED
        BY <3>2, <3>3, Zenon
    <2>10. QED
      BY <2>1, <2>2, <2>7, <2>9, Zenon
  <1>26. ASSUME NEW p \in Procs, P[p].st = "run", ~P[p].missed
         PROVE  /\ TableOK(P[p], q)
                /\ \A t \in Slots \ {P[p].own} :
                      Learns(P[p].inbox, Holds(P[p], t), t, Chan(tb2, t))
    <2>1. CASE p = q
      BY <1>2, <1>20, <1>23, <1>24, <2>1, Zenon
    <2>2. CASE p # q
      BY <1>25, <1>26, <2>2, Zenon
    <2>3. QED
      BY <2>1, <2>2, Zenon
  <1>27. Agree(tb2, l2, g, P, q)
    BY <1>10, <1>11, <1>22, <1>26, Zenon DEF Agree
  <1>28. QED
    BY <1>1, <1>27, Zenon

(* The slot x of a child that is gone is freed, its channel closed, and    *)
(* the running children told.                                              *)
Frees(tb, l, f, ps, m, x, tb2, l2, g, P) ==
    /\ Good(tb, l, f, ps, m) /\ Agree(tb, l, f, ps, m)
    /\ x \in Used(tb, l) /\ tb[x].exited
    /\ g = [f EXCEPT ![tb[x].fd] = Closed]
    /\ Used(tb2, l2) = Used(tb, l) \ {x} /\ tb2[x].fd = NoFd
    /\ \A t \in Slots : t # x => tb2[t] = tb[t]
    /\ \A p \in Procs :
        /\ P[p].st = ps[p].st /\ P[p].own = ps[p].own /\ (ps[p].missed => P[p].missed)
        /\ ps[p].st = "run" /\ ~P[p].missed =>
              OneMore(ps[p], P[p], [cmd |-> "CLOSE", slot |-> x])

\* The children learn that a channel was closed, or miss it.
LEMMA CloseAgree ==
    ASSUME NEW tb, NEW l, NEW f, NEW ps, NEW m, NEW x, NEW tb2, NEW l2, NEW g, NEW P,
           Frees(tb, l, f, ps, m, x, tb2, l2, g, P)
    PROVE  Agree(tb2, l2, g, P, m)
  <1>1. /\ Good(tb, l, f, ps, m) /\ Agree(tb, l, f, ps, m)
        /\ x \in Used(tb, l) /\ tb[x].exited
        /\ g = [f EXCEPT ![tb[x].fd] = Closed]
        /\ Used(tb2, l2) = Used(tb, l) \ {x} /\ tb2[x].fd = NoFd
        /\ \A t \in Slots : t # x => tb2[t] = tb[t]
    BY Zenon DEF Frees
  <1>2. PICK msg : msg = [cmd |-> "CLOSE", slot |-> x]
    BY Zenon
  <1>3. \A p \in Procs :
          /\ P[p].st = ps[p].st /\ P[p].own = ps[p].own /\ (ps[p].missed => P[p].missed)
          /\ ps[p].st = "run" /\ ~P[p].missed => OneMore(ps[p], P[p], msg)
    BY <1>2, Zenon DEF Frees
  <1>4. msg.cmd = "CLOSE" /\ msg.slot = x
    BY <1>2, Zenon
  <1>5. /\ m \in Nat /\ m <= m /\ SlotsOK(tb, l, f, ps, m) /\ x \in Slots
        /\ f \in [Fds -> Procs \cup {Closed}]
    BY <1>1, Sizes DEF Good, Used, Names
  <1>6. \A t \in Slots : tb[t].fd # NoFd <=> t \in Used(tb, l)
    BY <1>1, Zenon DEF Agree
  <1>7. \A t \in Slots : tb2[t].fd # NoFd <=> t \in Used(tb2, l2)
    BY <1>1, <1>6, Zenon
  <1>8. ASSUME NEW k \in Fds, g[k] # Closed PROVE \E t \in Slots : tb2[t].fd = k
    <2>1. k # tb[x].fd /\ f[k] # Closed
      BY <1>1, <1>5, <1>8, Zenon
    <2>2. PICK t \in Slots : tb[t].fd = k
      BY <1>1, <2>1, Zenon DEF Agree
    <2>3. QED
      BY <1>1, <2>1, <2>2, Zenon
  <1>9. /\ \A t \in Slots : t # x => Chan(tb2, t) = Chan(tb, t)
        /\ Chan(tb2, x) = Closed
    BY <1>1, Zenon DEF Chan
  <1>10. ps[tb[x].pid].st = "gone"
    BY <1>1, <1>5, Zenon DEF SlotsOK
  <1>11. ASSUME NEW p \in Procs, P[p].st = "run"
         PROVE  /\ ps[p].st = "run" /\ P[p].own = ps[p].own /\ P[p].own # x
                /\ P[p].own \in Used(tb2, l2) /\ tb2[P[p].own].pid = p
    <2>1. ps[p].st = "run" /\ P[p].own = ps[p].own
      BY <1>3, <1>11, Zenon
    <2>2. ps[p].own \in Used(tb, l) /\ tb[ps[p].own].pid = p
      BY <1>1, <2>1, Zenon DEF Agree
    <2>3. ps[p].own # x /\ ps[p].own \in Slots
      BY <1>10, <2>1, <2>2, Zenon DEF Used
    <2>4. QED
      BY <1>1, <2>1, <2>2, <2>3, Zenon
  <1>12. ASSUME NEW p \in Procs, P[p].st = "run", ~P[p].missed
         PROVE  /\ TableOK(P[p], m)
                /\ \A t \in Slots \ {P[p].own} :
                      Learns(P[p].inbox, Holds(P[p], t), t, Chan(tb2, t))
    <2>1. PICK a, d, o : a = ps[p] /\ d = P[p] /\ o = ps[p].own
      BY Zenon
    <2>2. /\ a.st = "run" /\ ~a.missed /\ d.own = o /\ a.own = o /\ o # x
          /\ OneMore(a, d, msg)
      BY <1>3, <1>11, <1>12, <2>1, Zenon
    <2>3. /\ TableOK(a, m)
          /\ \A t \in Slots \ {o} : Learns(a.inbox, Holds(a, t), t, Chan(tb, t))
      BY <1>1, <2>1, <2>2, Zenon DEF Agree
    <2>4. TableOK(d, m)
      BY <1>4, <1>5, <2>2, <2>3, HeardOK, Zenon
    <2>5. Longer(a.inbox, d.inbox, msg) /\ d.table = a.table /\ d.fds = a.fds
      BY <2>2, Zenon DEF OneMore
    <2>6. ASSUME NEW t \in Slots \ {o}
          PROVE  Learns(d.inbox, Holds(d, t), t, Chan(tb2, t))
      <3>1. Holds(d, t) = Holds(a, t) /\ Learns(a.inbox, Holds(a, t), t, Chan(tb, t))
        BY <2>3, <2>5, Zenon DEF Holds
      <3>2. CASE t = x
        <4>1. Learns(d.inbox, Holds(a, t), t, Closed)
          BY <1>4, <2>5, <3>1, <3>2, LearnsClosed, Zenon
        <4>2. QED
          BY <1>9, <3>1, <3>2, <4>1, Zenon
      <3>3. CASE t # x
        <4>1. Chan(tb2, t) = Chan(tb, t) /\ msg.slot # t
          BY <1>4, <1>9, <3>3, Zenon
        <4>2. Learns(d.inbox, Holds(a, t), t, Chan(tb, t))
          BY <2>5, <3>1, <4>1, LearnsOther, Zenon
        <4>3. QED
          BY <3>1, <4>1, <4>2, Zenon
      <3>4. QED
        BY <3>2, <3>3, Zenon
    <2>7. QED
      BY <2>1, <2>2, <2>4, <2>6, Zenon
  <1>13. QED
    BY <1>7, <1>8, <1>11, <1>12, Zenon DEF Agree

(* The table is changed only in its marks, and a child that runs is as it  *)
(* was, or has one more command that is about no channel, or is told.      *)
Stays(tb, l, f, ps, m, tb2, P) ==
    /\ Agree(tb, l, f, ps, m) /\ m \in Nat /\ Used(tb2, l) = Used(tb, l)
    /\ \A t \in Slots : tb2[t].pid = tb[t].pid /\ tb2[t].fd = tb[t].fd
    /\ \A p \in Procs : P[p].st = "run" =>
        /\ ps[p].st = "run" /\ P[p].own = ps[p].own /\ (ps[p].missed => P[p].missed)
        /\ ~P[p].missed =>
            /\ P[p].reads = ps[p].reads
            /\ P[p].table = ps[p].table /\ P[p].fds = ps[p].fds
            /\ \/ P[p].inbox = ps[p].inbox
               \/ \E sig \in {"QUIT", "TERM"} :
                    Longer(ps[p].inbox, P[p].inbox, [cmd |-> sig])

\* Then the children know what they knew.
LEMMA StaysAgree ==
    ASSUME NEW tb, NEW l, NEW f, NEW ps, NEW m, NEW tb2, NEW P,
           Stays(tb, l, f, ps, m, tb2, P)
    PROVE  Agree(tb2, l, f, P, m)
  <1>1. /\ Agree(tb, l, f, ps, m) /\ m \in Nat /\ m <= m /\ Used(tb2, l) = Used(tb, l)
        /\ \A t \in Slots : tb2[t].pid = tb[t].pid /\ tb2[t].fd = tb[t].fd
    BY NatRefl, ZenonT(30) DEF Stays
  <1>2. \A t \in Slots : Chan(tb2, t) = Chan(tb, t)
    BY <1>1, Zenon DEF Chan
  <1>3. ASSUME NEW p \in Procs, P[p].st = "run"
        PROVE  P[p].own \in Used(tb2, l) /\ tb2[P[p].own].pid = p
    <2>1. ps[p].own \in Used(tb, l) /\ tb[ps[p].own].pid = p /\ P[p].own = ps[p].own
      BY <1>1, <1>3, Zenon DEF Stays, Agree
    <2>2. QED
      BY <1>1, <2>1, Zenon DEF Used
  <1>4. ASSUME NEW p \in Procs, P[p].st = "run", ~P[p].missed
        PROVE  /\ TableOK(P[p], m)
               /\ \A t \in Slots \ {P[p].own} :
                     Learns(P[p].inbox, Holds(P[p], t), t, Chan(tb2, t))
    <2>1. PICK a, d, o : a = ps[p] /\ d = P[p] /\ o = ps[p].own
      BY Zenon
    <2>2. /\ a.st = "run" /\ ~a.missed /\ d.own = o /\ a.own = o
          /\ d.reads = a.reads /\ d.table = a.table /\ d.fds = a.fds
          /\ \/ d.inbox = a.inbox
             \/ \E sig \in {"QUIT", "TERM"} : Longer(a.inbox, d.inbox, [cmd |-> sig])
      BY <1>4, <2>1, Zenon DEF Stays
    <2>3. /\ TableOK(a, m)
          /\ \A t \in Slots \ {o} : Learns(a.inbox, Holds(a, t), t, Chan(tb, t))
      BY <1>1, <2>1, <2>2, Zenon DEF Agree
    <2>4. \A t \in Slots \ {o} : Holds(d, t) = Holds(a, t) /\ Chan(tb2, t) = Chan(tb, t)
      BY <1>2, <2>2, Zenon DEF Holds
    <2>5. a.reads /\ NumbersOK(a.own, a.table, a.fds, m) /\ InboxOK(a.inbox, a.own, a.fds, m)
      BY <2>3, Zenon DEF TableOK
    <2>6. CASE d.inbox = a.inbox
      BY <2>1, <2>2, <2>3, <2>4, <2>5, <2>6, Zenon DEF TableOK
    <2>7. ASSUME NEW sig \in {"QUIT", "TERM"}, Longer(a.inbox, d.inbox, [cmd |-> sig])
          PROVE  /\ TableOK(d, m)
                 /\ \A t \in Slots \ {o} :
                       Learns(d.inbox, Holds(d, t), t, Chan(tb2, t))
      <3>1. PICK msg : msg = [cmd |-> sig]
        BY Zenon
      <3>2. msg.cmd \notin {"BARE", "OPEN", "CLOSE"} /\ Longer(a.inbox, d.inbox, msg)
        BY <2>7, <3>1, Zenon
      <3>3. InboxOK(d.inbox, o, a.fds, m)
        BY <1>1, <2>2, <2>5, <3>2, InboxLonger
      <3>4. TableOK(d, m)
        BY <2>2, <2>5, <3>3, Zenon DEF TableOK
      <3>5. ASSUME NEW t \in Slots \ {o} PROVE Learns(d.inbox, Holds(d, t), t, Chan(tb2, t))
        <4>1. Learns(a.inbox, Holds(a, t), t, Chan(tb, t))
          BY <2>3, Zenon
        <4>2. Learns(d.inbox, Holds(a, t), t, Chan(tb, t))
          BY <3>2, <4>1, LearnsOther, Zenon
        <4>3. QED
          BY <2>4, <4>2, Zenon
      <3>6. QED
        BY <3>4, <3>5, Zenon
    <2>8. QED
      BY <2>1, <2>2, <2>6, <2>7, Zenon
  <1>5. \A t \in Slots : tb2[t].fd # NoFd <=> t \in Used(tb2, l)
    BY <1>1, Zenon DEF Agree
  <1>6. \A n \in Fds : f[n] # Closed => \E t \in Slots : tb2[t].fd = n
    BY <1>1 DEF Agree
  <1>7. QED
    BY <1>3, <1>4, <1>5, <1>6, Zenon DEF Agree

\* Starting a child keeps what the children know.
LEMMA StartPeers ==
    ASSUME Counting, RightInv, PeersInv, StartOne, ~failed'
    PROVE  Agree(slot, last, fds, proc, spawned)'
  <1>1. PICK full \in Fulls : StartsChild(full) \/ failed' = TRUE
    BY Zenon DEF StartOne, StartsChild
  <1>2. StartsChild(full) /\ failed' = failed
    BY <1>1, Zenon DEF StartsChild
  <1>3. ~stale /\ MasterOK /\ Good(slot, last, fds, proc, spawned)
        /\ Agree(slot, last, fds, proc, spawned)
    BY <1>2, Zenon DEF RightInv, PeersInv
  <1>4. Kinds[i] \in {"worker", "loader"} /\ reloading \in BOOLEAN
    BY <1>3, KindsAssumption DEF MasterOK, StartOne
  <1>5. PICK s \in Slots :
          \E c : /\ Forks(slot, last, fds, proc, spawned, s, slot', last', fds', proc', c, full)
                 /\ pslot' = s /\ spawned' = spawned + 1 /\ fails' = fails
    BY <1>2, <1>3, <1>4, StartForks, Zenon
  <1>6. PICK c : Forks(slot, last, fds, proc, spawned, s, slot', last', fds', proc', c, full)
    BY <1>5, Zenon
  <1>7. Agree(slot', last', fds', proc', spawned + 1)
    BY <1>3, <1>6, SpawnAgree, Zenon
  <1>8. QED
    BY <1>5, <1>7, Zenon

\* The children that run are told of the channel that is closed.
LEMMA ReapTells ==
    ASSUME Counting, RightInv, ~stale, Agree(slot, last, fds, proc, spawned), pc = "reap",
           NEW f, NEW tb, NEW fr, NEW ps, NEW full, Reaped(f, tb, fr, ps, full),
           NEW p \in Procs
    PROVE  /\ ps[p].st = proc[p].st /\ ps[p].own = proc[p].own
           /\ proc[p].missed => ps[p].missed
           /\ proc[p].st = "run" /\ ~ps[p].missed => OneMore(proc[p], ps[p], CloseMsg)
  <1>1. MasterOK /\ Good(slot, last, fds, proc, spawned) /\ ReapedOK(f, tb, fr, ps)
    BY ReapedFacts, Zenon DEF RightInv
  <1>2. i \in Used(slot, last) /\ slot[i].exited /\ i \in Slots
    BY <1>1, Zenon DEF MasterOK, Used
  <1>3. ps = ngx_write_channel(tb, f, proc, CloseTo(tb), CloseMsg, full)
    BY Zenon DEF Reaped
  <1>4. CloseMsg \in Commands
    BY <1>2, Zenon DEF CloseMsg, Commands
  <1>5. CloseTo(tb) \in SUBSET Slots /\ CloseTo(tb) \in SUBSET Used(tb, last)
    BY Zenon DEF CloseTo, Used
  <1>6. Child(proc[p])
    BY <1>1, Zenon DEF Good
  <1>7. ps[p] \in Gets(proc[p], CloseMsg)
    BY <1>3, <1>5, WriteGets, Zenon
  <1>8. /\ ps[p].st = proc[p].st /\ ps[p].own = proc[p].own
        /\ proc[p].missed => ps[p].missed
    BY <1>4, <1>6, <1>7, GetsFrame, Zenon
  <1>9. ASSUME proc[p].st = "run", ~ps[p].missed
        PROVE  OneMore(proc[p], ps[p], CloseMsg)
    <2>1. PICK o : o = proc[p].own
      BY Zenon
    <2>2. /\ o \in Used(slot, last) /\ slot[o].pid = p
      BY <1>9, <2>1, Zenon DEF Agree
    <2>3. proc[p].reads
      BY <1>8, <1>9, Zenon DEF Agree, TableOK
    <2>4. slot[o].fd # NoFd /\ o \in Slots
      BY <2>2, Zenon DEF Agree, Used
    <2>5. ~slot[o].exited
      <3>1. slot[o].exited => proc[p].st = "gone"
        BY <1>1, <2>2, Zenon DEF Good, SlotsOK
      <3>2. QED
        BY <1>9, <3>1, Zenon
    <2>6. tb[o] = slot[o]
      BY <1>1, <1>2, <2>4, <2>5, Zenon DEF ReapedOK
    <2>7. o \in CloseTo(tb)
      BY <2>2, <2>4, <2>5, <2>6, Zenon DEF CloseTo, Used
    <2>8. SlotsOK(tb, last, f, ps, spawned)
      BY <1>1, Zenon DEF ReapedOK, Good
    <2>9. LET d == ngx_write_channel(tb, f, proc, CloseTo(tb), CloseMsg, full)[p]
          IN  d.missed \/ OneMore(proc[p], d, CloseMsg)
      BY <1>4, <1>5, <1>6, <2>2, <2>3, <2>4, <2>6, <2>7, <2>8, ToldOnce, Zenon
    <2>10. QED
      BY <1>3, <1>9, <2>9, Zenon
  <1>10. QED
    BY <1>8, <1>9, Zenon

\* Reaping a slot keeps what the children know.
LEMMA ReapPeers ==
    ASSUME Counting, RightInv, PeersInv, ReapSlot, ~failed'
    PROVE  Agree(slot, last, fds, proc, spawned)'
  <1>1. PICK f, tb, fr, ps, full :
          /\ Reaped(f, tb, fr, ps, full)
          /\ \/ Respawns(f, tb, ps, full)
             \/ RespawnFails(f, tb, ps)
             \/ SlotFreed(f, tb, fr, ps)
    BY ReapCases, Zenon
  <1>2. /\ failed' = failed
        /\ \/ Respawns(f, tb, ps, full)
           \/ SlotFreed(f, tb, fr, ps)
    BY <1>1, Zenon DEF Respawns, RespawnFails, SlotFreed
  <1>3. ~stale /\ MasterOK /\ Good(slot, last, fds, proc, spawned)
        /\ Agree(slot, last, fds, proc, spawned) /\ pc = "reap"
    BY <1>2, Zenon DEF RightInv, PeersInv, ReapSlot
  <1>4. i \in Used(slot, last) /\ slot[i].exited /\ i \in Slots
    BY <1>3, Zenon DEF MasterOK, Used
  <1>5. ReapedOK(f, tb, fr, ps)
    BY <1>1, <1>3, ReapedFacts, Zenon
  <1>6. f = [fds EXCEPT ![slot[i].fd] = Closed]
    <2>1. slot[i].fd # NoFd
      BY <1>3, <1>4, Zenon DEF Agree
    <2>2. QED
      BY <1>1, <2>1, Zenon DEF Reaped
  <1>7. \A p \in Procs :
          /\ ps[p].st = proc[p].st /\ ps[p].own = proc[p].own
          /\ proc[p].missed => ps[p].missed
          /\ proc[p].st = "run" /\ ~ps[p].missed => OneMore(proc[p], ps[p], CloseMsg)
    BY <1>1, <1>3, ReapTells, Zenon
  <1>8. Agree(fr, last, f, ps, spawned)
    <2>1. /\ Used(fr, last) = Used(slot, last) \ {i} /\ fr[i].fd = NoFd
          /\ \A t \in Slots : t # i => fr[t] = slot[t]
      BY <1>5, Zenon DEF ReapedOK
    <2>2. Frees(slot, last, fds, proc, spawned, i, fr, last, f, ps)
      BY <1>3, <1>4, <1>6, <1>7, <2>1, Zenon DEF Frees, CloseMsg
    <2>3. QED
      BY <2>2, CloseAgree, Zenon
  <1>9. ASSUME i = last - 1 PROVE Agree(tb, last - 1, f, ps, spawned)
    <2>1. /\ Used(tb, last - 1) = Used(slot, last) \ {i} /\ tb[i].fd = NoFd
          /\ \A t \in Slots : t # i => tb[t] = slot[t]
      BY <1>5, <1>9, Zenon DEF ReapedOK
    <2>2. Frees(slot, last, fds, proc, spawned, i, tb, last - 1, f, ps)
      BY <1>3, <1>4, <1>6, <1>7, <2>1, Zenon DEF Frees, CloseMsg
    <2>3. QED
      BY <2>2, CloseAgree, Zenon
  <1>10. CASE Respawns(f, tb, ps, full)
    <2>1. PICK c : Forks(fr, last, f, ps, spawned, i, slot', last', fds', proc', c, full)
      BY <1>3, <1>5, <1>10, ReapForks, Zenon
    <2>2. Good(fr, last, f, ps, spawned)
      BY <1>5, Zenon DEF ReapedOK
    <2>3. Agree(slot', last', fds', proc', spawned + 1)
      BY <1>8, <2>1, <2>2, SpawnAgree, Zenon
    <2>4. spawned' = spawned + 1
      BY <1>10, Zenon DEF Respawns
    <2>5. QED
      BY <2>3, <2>4, Zenon
  <1>11. CASE SlotFreed(f, tb, fr, ps)
    BY <1>8, <1>9, <1>11, Zenon DEF SlotFreed
  <1>12. QED
    BY <1>2, <1>10, <1>11, Zenon

\* Telling the workers to leave keeps what the children know.
LEMMA SignalPeers ==
    ASSUME Counting, Good(slot, last, fds, proc, spawned), Agree(slot, last, fds, proc, spawned),
           NEW sig \in {"QUIT", "TERM"}, NEW full, ngx_signal_worker_processes(sig, full),
           UNCHANGED <<last, fds, spawned>>
    PROVE  Agree(slot, last, fds, proc, spawned)'
  <1>1. PICK M, G, K, W, ps : /\ M = {s \in Slots : Meant(s, sig)}
                              /\ Signals(sig, M, G, K, W, ps, full)
    BY SignalIs, Zenon
  <1>2. /\ slot \in [Slots -> Entries] /\ (\A p \in Procs : Child(proc[p]))
        /\ SlotsOK(slot, last, fds, proc, spawned) /\ spawned \in Nat
    BY Sizes DEF Good
  <1>3. W \in SUBSET Used(slot, last) /\ W \in SUBSET Slots
    BY <1>1, Zenon DEF Used, Meant, Signals
  <1>4. ASSUME NEW s \in Slots
        PROVE  slot'[s].pid = slot[s].pid /\ slot'[s].fd = slot[s].fd
    <2>1. PICK e : e = slot[s] /\ e \in Entries
      BY <1>2, Zenon
    <2>2. slot'[s] = IF s \in G THEN [e EXCEPT !.exited = TRUE, !.exiting = FALSE]
                     ELSE IF s \in M THEN [e EXCEPT !.exiting = TRUE]
                     ELSE IF s < last THEN [e EXCEPT !.just = FALSE]
                     ELSE e
      BY <1>1, <2>1, Zenon DEF Signals
    <2>3. QED
      BY <2>1, <2>2, Zenon DEF Entries
  <1>5. Used(slot', last) = Used(slot, last)
    BY <1>4, Zenon DEF Used
  <1>6. PICK msg : msg = [cmd |-> sig]
    BY Zenon
  <1>7. msg \in Commands
    BY <1>6, Zenon DEF Commands
  <1>8. ps = ngx_write_channel(slot, fds, proc, W, msg, full)
    BY <1>1, <1>6, Zenon DEF Signals
  <1>9. ASSUME NEW p \in Procs
        PROVE  /\ Child(ps[p]) /\ ps[p].st = proc[p].st /\ ps[p].own = proc[p].own
               /\ proc[p].missed => ps[p].missed
    <2>1. ps[p] \in Gets(proc[p], msg)
      BY <1>3, <1>8, WriteGets, Zenon
    <2>2. QED
      BY <1>2, <1>7, <2>1, GetsFrame, ZenonT(30)
  <1>10. ASSUME NEW p \in Procs, proc[p].st = "run", ~ps[p].missed
         PROVE  ps[p] = proc[p] \/ OneMore(proc[p], ps[p], msg)
    <2>1. PICK o : o = proc[p].own
      BY Zenon
    <2>2. o \in Used(slot, last) /\ slot[o].pid = p
      BY <1>10, <2>1, Zenon DEF Agree
    <2>3. slot[o].fd # NoFd
      BY <2>2, Zenon DEF Agree, Used
    <2>4. proc[p].reads
      BY <1>9, <1>10, Zenon DEF Agree, TableOK
    <2>5. CASE o \in W
      <3>1. LET d == ngx_write_channel(slot, fds, proc, W, msg, full)[p]
            IN  d.missed \/ OneMore(proc[p], d, msg)
        BY <1>2, <1>3, <1>7, <2>2, <2>3, <2>4, <2>5, ToldOnce, Zenon
      <3>2. QED
        BY <1>8, <1>10, <3>1, Zenon
    <2>6. CASE o \notin W
      <3>1. ASSUME NEW t \in W, Channel(slot, fds, t) = p PROVE FALSE
        <4>1. t = o
          BY <1>2, <1>3, <2>2, <3>1, ChannelIs, Zenon
        <4>2. QED
          BY <2>6, <4>1, Zenon
      <3>2. QED
        BY <1>3, <1>8, <3>1, WriteNone
    <2>7. QED
      BY <2>5, <2>6, Zenon
  <1>11. ASSUME NEW p \in Procs
         PROVE  /\ proc'[p].st = ps[p].st /\ proc'[p].own = ps[p].own
                /\ proc'[p].reads = ps[p].reads /\ proc'[p].missed = ps[p].missed
                /\ proc'[p].inbox = ps[p].inbox /\ proc'[p].table = ps[p].table
                /\ proc'[p].fds = ps[p].fds
    <2>1. proc'[p] = IF p \in K THEN [ps[p] EXCEPT !.told = TRUE] ELSE ps[p]
      BY <1>1, Zenon DEF Signals
    <2>2. Child(ps[p])
      BY <1>9, Zenon
    <2>3. CASE p \in K
      BY <2>1, <2>2, <2>3, Killed, ZenonT(30)
    <2>4. CASE p \notin K
      BY <2>1, <2>4, Zenon
    <2>5. QED
      BY <2>3, <2>4, Zenon
  <1>12. ASSUME NEW p \in Procs, proc'[p].st = "run"
         PROVE  /\ proc[p].st = "run" /\ proc'[p].own = proc[p].own
                /\ proc[p].missed => proc'[p].missed
                /\ ~proc'[p].missed =>
                    /\ proc'[p].reads = proc[p].reads
                    /\ proc'[p].table = proc[p].table /\ proc'[p].fds = proc[p].fds
                    /\ \/ proc'[p].inbox = proc[p].inbox
                       \/ \E x \in {"QUIT", "TERM"} :
                            Longer(proc[p].inbox, proc'[p].inbox, [cmd |-> x])
    <2>1. /\ proc[p].st = "run" /\ proc'[p].own = proc[p].own
          /\ proc[p].missed => proc'[p].missed
      BY <1>9, <1>11, <1>12, Zenon
    <2>2. ASSUME ~proc'[p].missed
          PROVE  /\ proc'[p].reads = proc[p].reads
                 /\ proc'[p].table = proc[p].table /\ proc'[p].fds = proc[p].fds
                 /\ \/ proc'[p].inbox = proc[p].inbox
                    \/ Longer(proc[p].inbox, proc'[p].inbox, msg)
      BY <1>10, <1>11, <2>1, <2>2, Zenon DEF OneMore
    <2>3. QED
      BY <1>6, <2>1, <2>2, Zenon
  <1>13. Stays(slot, last, fds, proc, spawned, slot', proc')
    BY <1>2, <1>4, <1>5, <1>12, Zenon DEF Stays
  <1>14. Agree(slot', last, fds, proc', spawned)
    BY <1>13, StaysAgree, Zenon
  <1>15. QED
    BY <1>14, Zenon

\* So does waiting for the dead.
LEMMA WaitPeers ==
    ASSUME Good(slot, last, fds, proc, spawned), Agree(slot, last, fds, proc, spawned), Wait
    PROVE  Agree(slot, last, fds, proc, spawned)'
  <1>1. PICK D : D = {p \in Procs : proc[p].st = "dead"}
    BY Zenon
  <1>2. /\ proc' = [p \in Procs |->
                      IF p \in D THEN [NoProc EXCEPT !.st = "gone"] ELSE proc[p]]
        /\ slot' = [s \in Slots |->
                      IF s < last /\ slot[s].pid \in D
                      THEN [slot[s] EXCEPT !.exited = TRUE] ELSE slot[s]]
        /\ last' = last /\ fds' = fds /\ spawned' = spawned
    BY <1>1, Zenon DEF Wait, bounds
  <1>3. slot \in [Slots -> Entries] /\ spawned \in Nat
    BY Sizes DEF Good
  <1>4. \A s \in Slots : slot'[s].pid = slot[s].pid /\ slot'[s].fd = slot[s].fd
    BY <1>2, <1>3, Zenon DEF Entries
  <1>5. Used(slot', last) = Used(slot, last)
    BY <1>4, Zenon DEF Used
  <1>6. ASSUME NEW p \in Procs, proc'[p].st = "run" PROVE proc'[p] = proc[p]
    <2>1. [NoProc EXCEPT !.st = "gone"].st = "gone"
      BY Left, Zenon
    <2>2. QED
      BY <1>2, <1>6, <2>1, Zenon
  <1>7. Stays(slot, last, fds, proc, spawned, slot', proc')
    BY <1>3, <1>4, <1>5, <1>6, Zenon DEF Stays
  <1>8. QED
    BY <1>2, <1>7, StaysAgree, Zenon

\* And a child that leaves.
LEMMA LeavesPeers ==
    ASSUME Good(slot, last, fds, proc, spawned), Agree(slot, last, fds, proc, spawned),
           NEW p \in Procs, Leaves(p)
    PROVE  Agree(slot, last, fds, proc, spawned)'
  <1>1. /\ proc' = [proc EXCEPT ![p] = [NoProc EXCEPT !.st = "dead"]]
        /\ slot' = slot /\ last' = last /\ fds' = fds /\ spawned' = spawned
    BY Zenon DEF Leaves, mvars
  <1>2. proc = [q \in Procs |-> proc[q]] /\ spawned \in Nat
    BY Sizes DEF Good
  <1>3. ASSUME NEW q \in Procs, proc'[q].st = "run" PROVE proc'[q] = proc[q]
    <2>1. PICK c : c = [NoProc EXCEPT !.st = "dead"]
      BY Zenon
    <2>2. c.st = "dead"
      BY <2>1, Left, Zenon
    <2>3. proc' = [r \in Procs |-> IF r = p THEN c ELSE proc[r]]
      BY <1>1, <1>2, <2>1, Zenon
    <2>4. QED
      BY <1>3, <2>2, <2>3, Zenon
  <1>4. Stays(slot, last, fds, proc, spawned, slot, proc')
    BY <1>2, <1>3, Zenon DEF Stays
  <1>5. QED
    BY <1>1, <1>4, StaysAgree, Zenon

\* There is a number for a channel that has none.
LEMMA LowestOther ==
    ASSUME Counting, NEW f, NEW m \in Nat, Names(f, m), m <= MaxSpawns, NEW q \in Procs, q <= m,
           \A n \in Fds : f[n] # q
    PROVE  Lowest(f) \in Fds /\ f[Lowest(f)] = Closed
  <1> DEFINE F == {n \in Fds : f[n] = Closed}
  <1>1. F # {}
    <2> SUFFICES ASSUME F = {} PROVE FALSE
      BY Zenon
    <2>1. q \in Nat /\ q \in 1..m
      BY Sizes
    <2>2. f \in [Fds -> (1..m) \ {q}]
      <3>1. f \in [Fds -> Procs \cup {Closed}] /\ \A n \in Fds : f[n] <= m
        BY Zenon DEF Names
      <3>2. ASSUME NEW n \in Fds PROVE f[n] \in (1..m) \ {q}
        BY <3>1, Sizes DEF Closed
      <3>3. QED
        BY <3>1, <3>2, Zenon
    <2>3. f \in Injection(Fds, (1..m) \ {q})
      BY <2>2, Zenon DEF Names, Injection, IsInjective
    <2>4. MaxSpawns + MaxFails <= m - 1
      BY <2>1, <2>3, Zenon DEF Counting
    <2>5. QED
      BY <2>4, Sizes
  <1>2. F \in SUBSET Nat
    BY Sizes, Zenon
  <1>3. Min(F) \in F
    BY <1>1, <1>2, Least, Zenon
  <1>4. QED
    BY <1>3, Zenon DEF Lowest

\* Slot s of table tab now has channel q, and the other slots what they had.
Renumbered(own, tab, f, m, s, q, tab2, g) ==
    /\ NumbersOK(own, tab2, g, m)
    /\ (IF tab2[s] = NoFd THEN Closed ELSE g[tab2[s]]) = q
    /\ \A k \in Fds : g[k] \in {f[k], q}
    /\ \A t \in Slots : t # s /\ t # own =>
         tab2[t] = tab[t] /\ (tab[t] # NoFd => g[tab[t]] = f[tab[t]])

\* A channel that is received gets a number of its own.
LEMMA NumberOpened ==
    ASSUME Counting, NEW own, NEW tab, NEW f, NEW m \in Nat, m <= MaxSpawns, NumbersOK(own, tab, f, m),
           NEW s \in Slots, s # own, tab[s] = NoFd, NEW q \in Procs, q <= m,
           \A k \in Fds : f[k] # q,
           NEW tab2, tab2 = [tab EXCEPT ![s] = Lowest(f)],
           NEW g, g = [f EXCEPT ![Lowest(f)] = q]
    PROVE  Renumbered(own, tab, f, m, s, q, tab2, g)
  <1>0. PICK n : n = Lowest(f)
    BY Zenon
  <1>1. /\ own \in Slots /\ tab \in [Slots -> Fds \cup {NoFd}] /\ Names(f, m)
        /\ \A t \in Slots \ {own} : tab[t] # NoFd => f[tab[t]] # Closed
        /\ \A t, u \in Slots \ {own} : tab[t] = tab[u] /\ tab[t] # NoFd => t = u
        /\ \A k \in Fds : f[k] # Closed => \E t \in Slots \ {own} : tab[t] = k
    BY Zenon DEF NumbersOK
  <1>2. n \in Fds /\ f[n] = Closed
    BY <1>0, <1>1, LowestOther, Zenon
  <1>3. n # NoFd /\ q # Closed
    BY <1>2, Sizes DEF NoFd, Closed
  <1>4. f \in [Fds -> Procs \cup {Closed}]
    BY <1>1, Zenon DEF Names
  <1>5. Names(g, m)
    <2>1. \A p \in Procs :
             (\A k \in Fds : f[k] # p) => \A l \in Nat : m <= l /\ p <= l =>
                 Names([f EXCEPT ![n] = p], l)
      BY <1>1, <1>2, NamesKept, Zenon
    <2>2. m <= m
      OBVIOUS
    <2>3. QED
      BY <1>0, <2>1, <2>2, Zenon
  <1>6. tab2 \in [Slots -> Fds \cup {NoFd}] /\ tab2[s] = n /\ \A t \in Slots : t # s => tab2[t] = tab[t]
    BY <1>0, <1>1, <1>2, Zenon
  <1>7. g[n] = q /\ \A k \in Fds : k # n => g[k] = f[k]
    BY <1>0, <1>2, <1>4, Zenon
  <1>8. \A t \in Slots \ {own} : tab[t] # NoFd => tab[t] \in Fds /\ tab[t] # n
    BY <1>1, <1>2, Zenon
  <1>9. \A t \in Slots \ {own} : tab2[t] # NoFd => g[tab2[t]] # Closed
    BY <1>1, <1>3, <1>6, <1>7, <1>8
  <1>10. \A t, u \in Slots \ {own} : tab2[t] = tab2[u] /\ tab2[t] # NoFd => t = u
    BY <1>1, <1>3, <1>6, <1>8, ZenonT(30)
  <1>11. ASSUME NEW k \in Fds, g[k] # Closed
         PROVE  \E t \in Slots \ {own} : tab2[t] = k
    <2>1. CASE k = n
      BY <1>6, <2>1, Zenon
    <2>2. CASE k # n
      <3>1. PICK t \in Slots \ {own} : tab[t] = k
        BY <1>1, <1>7, <1>11, <2>2, Zenon
      <3>2. t # s
        BY <3>1, Sizes DEF NoFd
      <3>3. QED
        BY <1>6, <3>1, <3>2, Zenon
    <2>3. QED
      BY <2>1, <2>2, Zenon
  <1>12. NumbersOK(own, tab2, g, m)
    BY <1>1, <1>5, <1>6, <1>9, <1>10, <1>11, Zenon DEF NumbersOK
  <1>13. QED
    BY <1>3, <1>6, <1>7, <1>8, <1>12, Zenon DEF Renumbered

\* A channel that is closed takes its number with it, and no other.
LEMMA NumberClosed ==
    ASSUME NEW own, NEW tab, NEW f, NEW m \in Nat, NumbersOK(own, tab, f, m),
           NEW s \in Slots, s # own, tab[s] # NoFd,
           NEW tab2, tab2 = [tab EXCEPT ![s] = NoFd],
           NEW g, g = [f EXCEPT ![tab[s]] = Closed]
    PROVE  Renumbered(own, tab, f, m, s, Closed, tab2, g)
  <1>1. /\ own \in Slots /\ tab \in [Slots -> Fds \cup {NoFd}] /\ Names(f, m)
        /\ \A t \in Slots \ {own} : tab[t] # NoFd => f[tab[t]] # Closed
        /\ \A t, u \in Slots \ {own} : tab[t] = tab[u] /\ tab[t] # NoFd => t = u
        /\ \A k \in Fds : f[k] # Closed => \E t \in Slots \ {own} : tab[t] = k
    BY Zenon DEF NumbersOK
  <1>2. PICK n \in Fds : n = tab[s]
    BY <1>1, Zenon
  <1>3. f \in [Fds -> Procs \cup {Closed}]
    BY <1>1, Zenon DEF Names
  <1>4. Names(g, m)
    BY <1>1, <1>2, NamesKept, Zenon
  <1>5. /\ tab2 \in [Slots -> Fds \cup {NoFd}] /\ tab2[s] = NoFd
        /\ \A t \in Slots : t # s => tab2[t] = tab[t]
    BY <1>1, Zenon
  <1>6. g[n] = Closed /\ \A k \in Fds : k # n => g[k] = f[k]
    BY <1>2, <1>3, Zenon
  <1>7. \A t \in Slots \ {own} : t # s /\ tab[t] # NoFd => tab[t] \in Fds /\ tab[t] # n
    BY <1>1, <1>2, Zenon
  <1>8. \A t \in Slots \ {own} : tab2[t] # NoFd => g[tab2[t]] # Closed
    BY <1>1, <1>5, <1>6, <1>7
  <1>9. \A t, u \in Slots \ {own} : tab2[t] = tab2[u] /\ tab2[t] # NoFd => t = u
    BY <1>1, <1>5, Zenon
  <1>10. ASSUME NEW k \in Fds, g[k] # Closed
         PROVE  \E t \in Slots \ {own} : tab2[t] = k
    <2>1. k # n /\ f[k] # Closed
      BY <1>6, <1>10, Zenon
    <2>2. PICK t \in Slots \ {own} : tab[t] = k
      BY <1>1, <2>1, Zenon
    <2>3. QED
      BY <1>2, <1>5, <2>1, <2>2, Zenon
  <1>11. NumbersOK(own, tab2, g, m)
    BY <1>1, <1>4, <1>5, <1>8, <1>9, <1>10, Zenon DEF NumbersOK
  <1>12. QED
    BY <1>5, <1>6, <1>7, <1>11, Zenon DEF Renumbered

\* Child d is c with other commands to read, table and numbers.
Becomes(c, d, b, t, f) ==
    d.inbox = b /\ d.reads = c.reads /\ d.own = c.own /\ d.table = t /\ d.fds = f

\* Child c with other commands to read.
LEMMA OtherInbox ==
    ASSUME NEW c, Child(c), NEW a, NEW e,
           e = [st |-> c.st, own |-> c.own, kind |-> c.kind, inbox |-> a,
                reads |-> c.reads, told |-> c.told, missed |-> c.missed,
                table |-> c.table, fds |-> c.fds]
    PROVE  [c EXCEPT !.inbox = a] = e
  <1>1. c = [st |-> c.st, own |-> c.own, kind |-> c.kind, inbox |-> c.inbox,
             reads |-> c.reads, told |-> c.told, missed |-> c.missed,
             table |-> c.table, fds |-> c.fds]
    BY Zenon DEF Child
  <1>2. QED
    BY <1>1

\* What a command does to the table and the numbers of a child.
LEMMA HandledIs ==
    ASSUME NEW c, Child(c), c.inbox # <<>>, NEW h, h = Head(c.inbox), h.cmd # "BARE",
           NEW d \in Handled([c EXCEPT !.inbox = Tail(@)], h)
    PROVE  /\ h \in Commands /\ h.cmd \in {"QUIT", "TERM", "OPEN", "CLOSE"}
           /\ h.cmd \in {"QUIT", "TERM"} => Becomes(c, d, Tail(c.inbox), c.table, c.fds)
           /\ h.cmd = "OPEN" =>
                Becomes(c, d, Tail(c.inbox), [c.table EXCEPT ![h.slot] = Lowest(c.fds)],
                        [c.fds EXCEPT ![Lowest(c.fds)] = h.chan])
           /\ h.cmd = "CLOSE" /\ c.table[h.slot] = NoFd =>
                Becomes(c, d, Tail(c.inbox), c.table, c.fds)
           /\ h.cmd = "CLOSE" /\ c.table[h.slot] # NoFd =>
                Becomes(c, d, Tail(c.inbox), [c.table EXCEPT ![h.slot] = NoFd],
                        [c.fds EXCEPT ![c.table[h.slot]] = Closed])
  <1>1. PICK a : a = Tail(c.inbox)
    BY Zenon
  <1>2. PICK e : e = [st |-> c.st, own |-> c.own, kind |-> c.kind, inbox |-> a,
                      reads |-> c.reads, told |-> c.told, missed |-> c.missed,
                      table |-> c.table, fds |-> c.fds]
    BY Zenon
  <1>3. e = [c EXCEPT !.inbox = Tail(@)]
    <2>1. [c EXCEPT !.inbox = a] = e
      BY <1>2, OtherInbox, Zenon
    <2>2. [c EXCEPT !.inbox = Tail(@)] = [c EXCEPT !.inbox = a]
      BY <1>1, Zenon
    <2>3. QED
      BY <2>1, <2>2, Zenon
  <1>4. d \in Handled(e, h)
    BY <1>3, Zenon
  <1>5. h \in Commands
    <2>1. PICK b : b = c.inbox /\ b \in Seq(Commands) /\ b # <<>>
      BY Zenon DEF Child
    <2>2. Head(b) \in Commands
      BY <2>1, Shorter, Zenon
    <2>3. QED
      BY <2>1, <2>2, Zenon
  <1>6. h.cmd \in {"QUIT", "TERM", "OPEN", "CLOSE"}
    BY <1>5, Zenon DEF Commands
  <1>7. e.table = c.table /\ e.fds = c.fds
    BY <1>2, Zenon
  <1>8. ASSUME h.cmd \in {"QUIT", "TERM"} PROVE Becomes(c, d, a, c.table, c.fds)
    <2>1. d = [e EXCEPT !.told = TRUE]
      BY <1>4, <1>8, Zenon DEF Handled
    <2>2. QED
      BY <1>2, <2>1, Zenon DEF Becomes
  <1>9. ASSUME NEW t, NEW f, d = [e EXCEPT !.table = t, !.fds = f]
        PROVE  Becomes(c, d, a, t, f)
    BY <1>2, <1>9, Zenon DEF Becomes
  <1>10. ASSUME h.cmd = "OPEN"
         PROVE  Becomes(c, d, a, [c.table EXCEPT ![h.slot] = Lowest(c.fds)],
                        [c.fds EXCEPT ![Lowest(c.fds)] = h.chan])
    <2>1. d = [e EXCEPT !.table[h.slot] = Lowest(e.fds), !.fds[Lowest(e.fds)] = h.chan]
      BY <1>4, <1>10, Zenon DEF Handled
    <2>2. PICK t, f : t = [c.table EXCEPT ![h.slot] = Lowest(c.fds)]
                      /\ f = [c.fds EXCEPT ![Lowest(c.fds)] = h.chan]
      BY Zenon
    <2>3. d = [e EXCEPT !.table = t, !.fds = f]
      BY <1>7, <2>1, <2>2, Zenon
    <2>4. QED
      BY <1>9, <2>2, <2>3, Zenon
  <1>11. ASSUME h.cmd = "CLOSE", c.table[h.slot] = NoFd
         PROVE  Becomes(c, d, a, c.table, c.fds)
    <2>1. d = CloseChannel(e, h.slot)
      BY <1>4, <1>11, Zenon DEF Handled
    <2>2. d = e
      BY <1>7, <1>11, <2>1, Zenon DEF CloseChannel
    <2>3. QED
      BY <1>2, <2>2, Zenon DEF Becomes
  <1>12. ASSUME h.cmd = "CLOSE", c.table[h.slot] # NoFd
         PROVE  Becomes(c, d, a, [c.table EXCEPT ![h.slot] = NoFd],
                        [c.fds EXCEPT ![c.table[h.slot]] = Closed])
    <2>1. d = CloseChannel(e, h.slot)
      BY <1>4, <1>12, Zenon DEF Handled
    <2>2. PICK t, f : t = [c.table EXCEPT ![h.slot] = NoFd]
                      /\ f = [c.fds EXCEPT ![c.table[h.slot]] = Closed]
      BY Zenon
    <2>3. d = [e EXCEPT !.table = t, !.fds = f]
      BY <1>7, <1>12, <2>1, <2>2, Zenon DEF CloseChannel
    <2>4. QED
      BY <1>9, <2>2, <2>3, Zenon
  <1>13. QED
    BY <1>1, <1>5, <1>6, <1>8, <1>10, <1>11, <1>12, Zenon

\* A child that reads a command knows what it knew before, or has it.
LEMMA HandledKnows ==
    ASSUME Counting, NEW c, Child(c), c.inbox # <<>>, NEW m \in Nat, m <= MaxSpawns, TableOK(c, m),
           NEW tb, \A s \in Slots \ {c.own} : Learns(c.inbox, Holds(c, s), s, Chan(tb, s)),
           NEW d \in Handled([c EXCEPT !.inbox = Tail(@)], Head(c.inbox))
    PROVE  /\ TableOK(d, m)
           /\ \A s \in Slots \ {c.own} : Learns(d.inbox, Holds(d, s), s, Chan(tb, s))
  <1>1. PICK b, h, a : b = c.inbox /\ h = Head(b) /\ a = Tail(b)
    BY Zenon
  <1>2. b \in Seq(Commands) /\ b # <<>>
    BY <1>1, Zenon DEF Child
  <1>3. c.reads /\ NumbersOK(c.own, c.table, c.fds, m) /\ InboxOK(b, c.own, c.fds, m)
    BY <1>1, Zenon DEF TableOK
  <1>4. 1 \in DOMAIN b /\ b[1] = h
    BY <1>1, <1>2, Shorter
  <1>5. h.cmd # "BARE" /\ (h.cmd \in {"OPEN", "CLOSE"} => h.slot # c.own)
    BY <1>3, <1>4, Zenon DEF InboxOK
  <1>6. h.cmd = "OPEN" => /\ h.chan # Closed /\ h.chan <= m
                          /\ \A n \in Fds : c.fds[n] # h.chan
    <2>1. h.cmd = "OPEN" => 1 \in Announced(b)
      BY <1>4, Zenon DEF Announced
    <2>2. QED
      BY <1>3, <1>4, <2>1, Zenon DEF InboxOK
  <1>7. /\ h \in Commands /\ h.cmd \in {"QUIT", "TERM", "OPEN", "CLOSE"}
        /\ h.cmd \in {"QUIT", "TERM"} => Becomes(c, d, a, c.table, c.fds)
        /\ h.cmd = "OPEN" =>
             Becomes(c, d, a, [c.table EXCEPT ![h.slot] = Lowest(c.fds)],
                     [c.fds EXCEPT ![Lowest(c.fds)] = h.chan])
        /\ h.cmd = "CLOSE" /\ c.table[h.slot] = NoFd =>
             Becomes(c, d, a, c.table, c.fds)
        /\ h.cmd = "CLOSE" /\ c.table[h.slot] # NoFd =>
             Becomes(c, d, a, [c.table EXCEPT ![h.slot] = NoFd],
                     [c.fds EXCEPT ![c.table[h.slot]] = Closed])
    BY <1>1, <1>5, HandledIs, Zenon
  <1>8. h.cmd \in {"OPEN", "CLOSE"} => h.slot \in Slots
    BY <1>7, Zenon DEF Commands
  <1>9. h.cmd = "OPEN" => h.chan \in Procs
    BY <1>6, <1>7, Zenon DEF Commands
  <1>10. ASSUME NEW s \in Slots \ {c.own}
         PROVE  /\ ~(h.cmd \in {"OPEN", "CLOSE"} /\ h.slot = s) =>
                       Learns(a, Holds(c, s), s, Chan(tb, s))
                /\ h.cmd = "CLOSE" /\ h.slot = s => Learns(a, Closed, s, Chan(tb, s))
                /\ h.cmd = "OPEN" /\ h.slot = s =>
                       Holds(c, s) = Closed /\ Learns(a, h.chan, s, Chan(tb, s))
    <2>1. PICK g, v : g = Holds(c, s) /\ v = Chan(tb, s)
      BY Zenon
    <2>2. Learns(b, g, s, v)
      BY <1>1, <2>1, Zenon
    <2>3. /\ ~(Head(b).cmd \in {"OPEN", "CLOSE"} /\ Head(b).slot = s) =>
                Learns(Tail(b), g, s, v)
          /\ Head(b).cmd = "CLOSE" /\ Head(b).slot = s => Learns(Tail(b), Closed, s, v)
          /\ Head(b).cmd = "OPEN" /\ Head(b).slot = s =>
                g = Closed /\ Learns(Tail(b), Head(b).chan, s, v)
      BY <1>2, <2>2, LearnsByReading, Zenon
    <2>4. QED
      BY <1>1, <2>1, <2>3, Zenon
  <1>11. ASSUME NEW t, NEW f, Becomes(c, d, a, t, f), NumbersOK(c.own, t, f, m),
                \A n \in Fds : \/ f[n] \in {c.fds[n], Closed}
                               \/ h.cmd = "OPEN" /\ f[n] = h.chan
         PROVE  TableOK(d, m)
    <2>1. InboxOK(a, c.own, f, m)
      <3>1. PICK own, g : own = c.own /\ g = c.fds
        BY Zenon
      <3>2. InboxOK(b, own, g, m)
        BY <1>3, <3>1, Zenon
      <3>3. \A n \in Fds : \/ f[n] \in {g[n], Closed}
                           \/ Head(b).cmd = "OPEN" /\ f[n] = Head(b).chan
        BY <1>1, <1>11, <3>1, Zenon
      <3>4. InboxOK(Tail(b), own, f, m)
        BY <1>2, <3>2, <3>3, InboxShorter, Zenon
      <3>5. QED
        BY <1>1, <3>1, <3>4, Zenon
    <2>2. QED
      BY <1>3, <1>11, <2>1, Zenon DEF TableOK, Becomes
  <1>12. ASSUME Becomes(c, d, a, c.table, c.fds)
         PROVE  TableOK(d, m) /\ d.inbox = a /\ \A s \in Slots : Holds(d, s) = Holds(c, s)
    <2>1. TableOK(d, m)
      BY <1>3, <1>11, <1>12, Zenon
    <2>2. QED
      BY <1>12, <2>1, Zenon DEF Becomes, Holds
  <1>13. CASE h.cmd \in {"QUIT", "TERM"}
    <2>1. h.cmd \notin {"OPEN", "CLOSE"}
      BY <1>13, Zenon
    <2>2. TableOK(d, m) /\ d.inbox = a /\ \A s \in Slots : Holds(d, s) = Holds(c, s)
      BY <1>7, <1>12, <1>13, Zenon
    <2>3. ASSUME NEW s \in Slots \ {c.own} PROVE Learns(d.inbox, Holds(d, s), s, Chan(tb, s))
      BY <1>10, <2>1, <2>2, Zenon
    <2>4. QED
      BY <2>2, <2>3, Zenon
  <1>14. CASE h.cmd = "OPEN"
    <2>1. PICK n, x, t, f : /\ n = Lowest(c.fds) /\ x = h.slot
                            /\ t = [c.table EXCEPT ![x] = n]
                            /\ f = [c.fds EXCEPT ![n] = h.chan]
      BY Zenon
    <2>2. Becomes(c, d, a, t, f)
      BY <1>7, <1>14, <2>1, Zenon
    <2>3. x \in Slots /\ x # c.own
      BY <1>5, <1>8, <1>14, <2>1, Zenon
    <2>4. Holds(c, x) = Closed
      BY <1>10, <1>14, <2>1, <2>3, Zenon
    <2>5. c.table[x] = NoFd
      <3>1. \A s \in Slots \ {c.own} : c.table[s] # NoFd => c.fds[c.table[s]] # Closed
        BY <1>3, Zenon DEF NumbersOK
      <3>2. c.table[x] # NoFd => c.fds[c.table[x]] # Closed
        BY <2>3, <3>1, Zenon
      <3>3. QED
        BY <2>4, <3>2, Zenon DEF Holds
    <2>6. Renumbered(c.own, c.table, c.fds, m, x, h.chan, t, f)
      BY <1>3, <1>6, <1>9, <1>14, <2>1, <2>3, <2>5, NumberOpened, Zenon
    <2>7. TableOK(d, m)
      BY <1>11, <1>14, <2>2, <2>6 DEF Renumbered
    <2>8. d.inbox = a /\ d.table = t /\ d.fds = f
      BY <2>2, Zenon DEF Becomes
    <2>9. Holds(d, x) = h.chan
      BY <2>6, <2>8, Zenon DEF Holds, Renumbered
    <2>10. \A s \in Slots : s # x /\ s # c.own => Holds(d, s) = Holds(c, s)
      BY <2>6, <2>8, Zenon DEF Holds, Renumbered
    <2>11. ASSUME NEW s \in Slots \ {c.own} PROVE Learns(d.inbox, Holds(d, s), s, Chan(tb, s))
      <3>1. CASE s = x
        BY <1>10, <1>14, <2>1, <2>8, <2>9, <3>1, Zenon
      <3>2. CASE s # x
        BY <1>10, <1>14, <2>1, <2>8, <2>10, <3>2, Zenon
      <3>3. QED
        BY <3>1, <3>2, Zenon
    <2>12. QED
      BY <2>7, <2>11, Zenon
  <1>15. CASE h.cmd = "CLOSE"
    <2>1. PICK x : x = h.slot
      BY Zenon
    <2>2. x \in Slots /\ x # c.own
      BY <1>5, <1>8, <1>15, <2>1, Zenon
    <2>3. /\ TableOK(d, m) /\ d.inbox = a /\ Holds(d, x) = Closed
          /\ \A s \in Slots : s # x /\ s # c.own => Holds(d, s) = Holds(c, s)
      <3>1. CASE c.table[x] = NoFd
        <4>1. TableOK(d, m) /\ d.inbox = a /\ \A s \in Slots : Holds(d, s) = Holds(c, s)
          BY <1>7, <1>12, <1>15, <2>1, <3>1, Zenon
        <4>2. Holds(c, x) = Closed
          BY <3>1, Zenon DEF Holds
        <4>3. QED
          BY <2>2, <4>1, <4>2, Zenon
      <3>2. CASE c.table[x] # NoFd
        <4>1. PICK t, f : t = [c.table EXCEPT ![x] = NoFd]
                          /\ f = [c.fds EXCEPT ![c.table[x]] = Closed]
          BY Zenon
        <4>2. Becomes(c, d, a, t, f)
          BY <1>7, <1>15, <2>1, <3>2, <4>1, Zenon
        <4>3. Renumbered(c.own, c.table, c.fds, m, x, Closed, t, f)
          BY <1>3, <2>2, <3>2, <4>1, NumberClosed, Zenon
        <4>4. TableOK(d, m)
          BY <1>11, <4>2, <4>3, Zenon DEF Renumbered
        <4>5. d.inbox = a /\ d.table = t /\ d.fds = f
          BY <4>2, Zenon DEF Becomes
        <4>6. QED
          BY <4>3, <4>4, <4>5, Zenon DEF Holds, Renumbered
      <3>3. QED
        BY <3>1, <3>2, Zenon
    <2>4. ASSUME NEW s \in Slots \ {c.own} PROVE Learns(d.inbox, Holds(d, s), s, Chan(tb, s))
      <3>1. CASE s = x
        BY <1>10, <1>15, <2>1, <2>3, <3>1, Zenon
      <3>2. CASE s # x
        BY <1>10, <1>15, <2>1, <2>3, <3>2, Zenon
      <3>3. QED
        BY <3>1, <3>2, Zenon
    <2>5. QED
      BY <2>3, <2>4, Zenon
  <1>16. QED
    BY <1>7, <1>13, <1>14, <1>15, Zenon

\* A child that reads a command keeps what the children know.
LEMMA HandlerPeers ==
    ASSUME Counting, Good(slot, last, fds, proc, spawned), Agree(slot, last, fds, proc, spawned),
           NEW p \in Procs, ngx_channel_handler(p)
    PROVE  Agree(slot, last, fds, proc, spawned)'
  <1>1. PICK c : c = proc[p]
    BY Zenon
  <1>2. /\ c.st = "run" /\ c.inbox # <<>> /\ slot' = slot /\ last' = last /\ fds' = fds
        /\ spawned' = spawned
    BY <1>1, Zenon DEF ngx_channel_handler, mvars, bounds
  <1>3. PICK d \in Handled([c EXCEPT !.inbox = Tail(@)], Head(c.inbox)) :
            proc' = [proc EXCEPT ![p] = d]
    BY <1>1, Zenon DEF ngx_channel_handler
  <1>4. /\ proc = [q \in Procs |-> proc[q]] /\ Child(c) /\ spawned \in Nat
        /\ spawned <= MaxSpawns
    BY <1>1, Sizes DEF Good
  <1>5. d.st = "run" /\ d.own = c.own /\ d.missed = c.missed
    BY <1>2, <1>3, <1>4, HandledFrame, Zenon
  <1>6. proc'[p] = d /\ \A q \in Procs : q # p => proc'[q] = proc[q]
    BY <1>3, <1>4, Zenon
  <1>7. ASSUME NEW q \in Procs, proc'[q].st = "run"
        PROVE  proc'[q].own \in Used(slot, last) /\ slot[proc'[q].own].pid = q
    <2>1. proc[q].st = "run" /\ proc'[q].own = proc[q].own
      BY <1>1, <1>2, <1>5, <1>6, <1>7, Zenon
    <2>2. QED
      BY <2>1, Zenon DEF Agree
  <1>8. ASSUME ~d.missed
        PROVE  /\ TableOK(d, spawned)
               /\ \A s \in Slots \ {d.own} : Learns(d.inbox, Holds(d, s), s, Chan(slot, s))
    <2>1. /\ TableOK(c, spawned)
          /\ \A s \in Slots \ {c.own} : Learns(c.inbox, Holds(c, s), s, Chan(slot, s))
      BY <1>1, <1>2, <1>5, <1>8, Zenon DEF Agree
    <2>2. /\ TableOK(d, spawned)
          /\ \A s \in Slots \ {c.own} : Learns(d.inbox, Holds(d, s), s, Chan(slot, s))
      BY <1>2, <1>3, <1>4, <2>1, HandledKnows, Zenon
    <2>3. QED
      BY <1>5, <2>2, Zenon
  <1>9. ASSUME NEW q \in Procs, proc'[q].st = "run", ~proc'[q].missed
        PROVE  /\ TableOK(proc'[q], spawned)
               /\ \A s \in Slots \ {proc'[q].own} :
                     Learns(proc'[q].inbox, Holds(proc'[q], s), s, Chan(slot, s))
    <2>1. CASE q = p
      BY <1>6, <1>8, <1>9, <2>1, Zenon
    <2>2. CASE q # p
      BY <1>6, <1>9, <2>2, Zenon DEF Agree
    <2>3. QED
      BY <2>1, <2>2, Zenon
  <1>10. Agree(slot, last, fds, proc', spawned)
    BY <1>7, <1>9, Zenon DEF Agree
  <1>11. QED
    BY <1>2, <1>10, Zenon

\* Every step keeps what the children know.
LEMMA NextPeers ==
    ASSUME Counting, RightInv, PeersInv, [Next]_vars
    PROVE  PeersInv'
  <1>1. stale' => failed'
    <2>1. stale => failed
      BY Zenon DEF PeersInv
    <2>2. \/ UNCHANGED <<failed, stale>>
          \/ failed' /\ stale' \in BOOLEAN
          \/ failed' = TRUE
      BY Zenon DEF Next, Master, StartOne, StartsDone, Wait, ReapSlot, Reload, Shutdown,
                   ngx_channel_handler, Leaves, vars
    <2>3. QED
      BY <2>1, <2>2, Zenon
  <1>2. ASSUME ~failed', failed' = failed
        PROVE  /\ Good(slot, last, fds, proc, spawned)
               /\ Agree(slot, last, fds, proc, spawned)
    BY <1>2, Zenon DEF RightInv, PeersInv
  <1>3. ASSUME ~failed' PROVE Agree(slot, last, fds, proc, spawned)'
    <2>1. CASE StartOne
      BY <1>3, <2>1, StartPeers, Zenon
    <2>2. CASE StartsDone
      <3>1. UNCHANGED <<last, fds, spawned, failed>>
        BY <2>2, Zenon DEF StartsDone
      <3>2. Good(slot, last, fds, proc, spawned) /\ Agree(slot, last, fds, proc, spawned)
        BY <1>2, <1>3, <3>1, Zenon
      <3>3. CASE reloading
        <4>1. PICK full : ngx_signal_worker_processes("QUIT", full)
          BY <2>2, <3>3, Zenon DEF StartsDone
        <4>2. QED
          BY <3>1, <3>2, <4>1, SignalPeers, Zenon
      <3>4. CASE ~reloading
        <4>1. UNCHANGED <<slot, proc>>
          BY <2>2, <3>4, Zenon DEF StartsDone
        <4>2. QED
          BY <3>1, <3>2, <4>1, Zenon
      <3>5. QED
        BY <3>3, <3>4, Zenon
    <2>3. CASE Wait
      <3>1. failed' = failed
        BY <2>3, Zenon DEF Wait
      <3>2. QED
        BY <1>2, <1>3, <2>3, <3>1, WaitPeers, Zenon
    <2>4. CASE ReapSlot
      BY <1>3, <2>4, ReapPeers, Zenon
    <2>5. CASE Reload
      <3>1. UNCHANGED <<slot, last, fds, proc, spawned, failed>>
        BY <2>5, Zenon DEF Reload
      <3>2. QED
        BY <1>2, <1>3, <3>1, Zenon
    <2>6. ASSUME NEW sig \in {"QUIT", "TERM"}, Shutdown(sig)
          PROVE  Agree(slot, last, fds, proc, spawned)'
      <3>1. UNCHANGED <<last, fds, spawned, failed>>
        BY <2>6, Zenon DEF Shutdown
      <3>2. PICK full : ngx_signal_worker_processes(sig, full)
        BY <2>6, Zenon DEF Shutdown
      <3>3. QED
        BY <1>2, <1>3, <3>1, <3>2, SignalPeers, Zenon
    <2>7. ASSUME NEW p \in Procs, ngx_channel_handler(p)
          PROVE  Agree(slot, last, fds, proc, spawned)'
      <3>1. failed' = failed
        BY <2>7, Zenon DEF ngx_channel_handler
      <3>2. QED
        BY <1>2, <1>3, <2>7, <3>1, HandlerPeers, Zenon
    <2>8. ASSUME NEW p \in Procs, Leaves(p)
          PROVE  Agree(slot, last, fds, proc, spawned)'
      <3>1. failed' = failed
        BY <2>8, Zenon DEF Leaves
      <3>2. QED
        BY <1>2, <1>3, <2>8, <3>1, LeavesPeers, Zenon
    <2>9. CASE UNCHANGED vars
      <3>1. UNCHANGED <<slot, last, fds, proc, spawned, failed>>
        BY <2>9, Zenon DEF vars, mvars, bounds
      <3>2. QED
        BY <1>2, <1>3, <3>1, Zenon
    <2>10. QED
      BY <2>1, <2>2, <2>3, <2>4, <2>5, <2>6, <2>7, <2>8, <2>9, Zenon DEF Next, Master
  <1>4. QED
    BY <1>1, <1>3, Zenon DEF PeersInv

\* At the start there is no child.
LEMMA InitPeers ==
    ASSUME Init
    PROVE  PeersInv
  <1>1. \A p \in Procs : proc[p].st = "none"
    BY Zenon DEF Init, NoProc
  <1>2. Used(slot, last) = {}
    BY Sizes DEF Init, Used
  <1>3. \A s \in Slots : slot[s].fd = NoFd
    BY Zenon DEF Init, NoSlot
  <1>4. \A n \in Fds : fds[n] = Closed
    BY Zenon DEF Init
  <1>5. Agree(slot, last, fds, proc, spawned)
    BY <1>1, <1>2, <1>3, <1>4, Zenon DEF Agree
  <1>6. ~stale
    BY Zenon DEF Init
  <1>7. QED
    BY <1>5, <1>6, Zenon DEF PeersInv

\* Then a child that has read its commands agrees with the master.
LEMMA PeersFollow == IInv => PeersAgree
  <1> SUFFICES ASSUME IInv, ~failed, NEW p \in Procs, Runs(p), proc[p].inbox = <<>>,
                      ~proc[p].missed
               PROVE  /\ \A s \in Slots \ {proc[p].own} :
                           Peer(p, s) = IF s < last THEN Channel(slot, fds, s) ELSE Closed
                      /\ \A n \in Fds : proc[p].fds[n] # Closed =>
                           \E s \in Slots : proc[p].table[s] = n
    BY Zenon DEF PeersAgree
  <1>1. Good(slot, last, fds, proc, spawned) /\ Agree(slot, last, fds, proc, spawned)
    BY Zenon DEF IInv, RightInv, PeersInv
  <1>2. PICK c : c = proc[p]
    BY Zenon
  <1>3. /\ TableOK(c, spawned)
        /\ \A s \in Slots \ {c.own} : Learns(<<>>, Holds(c, s), s, Chan(slot, s))
    BY <1>1, <1>2, ZenonT(30) DEF Agree, Runs
  <1>4. \A n \in Fds : c.fds[n] # Closed => \E s \in Slots : c.table[s] = n
    BY <1>3, Zenon DEF TableOK, NumbersOK
  <1>5. ASSUME NEW s \in Slots \ {c.own}
        PROVE  Peer(p, s) = IF s < last THEN Channel(slot, fds, s) ELSE Closed
    <2>1. Opens(<<>>, s) = {} /\ Closes(<<>>, s) = {}
      BY DEF Opens, Closes
    <2>2. Learns(<<>>, Holds(c, s), s, Chan(slot, s))
      BY <1>3, Zenon
    <2>3. Holds(c, s) = Chan(slot, s)
      BY <2>1, <2>2, Zenon DEF Learns
    <2>4. Peer(p, s) = Holds(c, s)
      BY <1>2, Zenon DEF Peer, Holds
    <2>5. s \in Slots
      BY Zenon
    <2>6. CASE slot[s].fd = NoFd
      BY <2>3, <2>4, <2>6, Zenon DEF Chan, Channel
    <2>7. CASE slot[s].fd # NoFd
      <3>1. s \in Used(slot, last) /\ s < last
        BY <1>1, <2>5, <2>7, Zenon DEF Agree, Used
      <3>2. fds[slot[s].fd] = slot[s].pid
        BY <1>1, <2>7, <3>1, Zenon DEF Good, SlotsOK
      <3>3. QED
        BY <2>3, <2>4, <2>7, <3>1, <3>2, Zenon DEF Chan, Channel
    <2>8. QED
      BY <2>6, <2>7, Zenon
  <1>6. QED
    BY <1>2, <1>4, <1>5, Zenon

-----------------------------------------------------------------------------
(* Counting, and the theorems.                                             *)

INSTANCE FiniteSetTheorems

\* A set of numbers that is not empty has a least one.
LEMMA LeastOne ==
    ASSUME NEW S \in SUBSET Nat, S # {}
    PROVE  Min(S) \in S /\ \A y \in S : Min(S) <= y
  <1> DEFINE T == {0..x : x \in S}
  <1>1. T \subseteq FiniteSubsetsOf(Nat)
    <2> SUFFICES ASSUME NEW x \in S PROVE 0..x \in FiniteSubsetsOf(Nat)
      BY Zenon
    <2>1. IsFiniteSet(0..x) /\ 0..x \in SUBSET Nat
      BY FS_Interval
    <2>2. QED
      BY <2>1, Zenon DEF FiniteSubsetsOf
  <1>2. T # {}
    BY Zenon
  <1>3. PICK U \in T : \A V \in T : ~(<<V, U>> \in StrictSubsetOrdering(Nat))
    BY Zenon, <1>1, <1>2, WFMin, FS_StrictSubsetOrderingWellFounded
  <1>4. PICK x \in S : U = 0..x
    BY Zenon
  <1>5. ASSUME NEW y \in S PROVE x <= y
    <2> SUFFICES ASSUME y < x PROVE FALSE
      OBVIOUS
    <2>1. 0..y \in SUBSET Nat /\ 0..x \in SUBSET Nat /\ 0..y \subseteq 0..x
      OBVIOUS
    <2>2. x \in 0..x /\ x \notin 0..y
      OBVIOUS
    <2>3. <<0..y, 0..x>> \in StrictSubsetOrdering(Nat)
      BY <2>1, <2>2, Zenon DEF StrictSubsetOrdering
    <2>4. QED
      BY Zenon, <1>3, <1>4, <2>3
  <1>6. \E z \in S : \A y \in S : z <= y
    BY <1>5, Zenon
  <1>7. QED
    BY <1>6, Zenon DEF Min

\* What the lemmas above use of finite sets holds.
LEMMA CountingHolds == Counting
  <1>1. ASSUME NEW S \in SUBSET Slots
        PROVE  /\ Cardinality(S) \in Nat
               /\ S = {} => Cardinality(S) = 0
               /\ \A s \in Slots : S = {s} => Cardinality(S) = 1
    <2>1. IsFiniteSet(Slots)
      BY Sizes, FS_Interval DEF Slots
    <2>2. Cardinality(S) \in Nat
      BY <2>1, FS_Subset, FS_CardinalityType, Zenon
    <2>3. QED
      BY <2>2, FS_EmptySet, FS_Singleton, Zenon
  <1>2. ASSUME NEW m \in Nat, NEW q \in Nat, Injection(Fds, (1..m) \ {q}) # {}
        PROVE  MaxSpawns + MaxFails <= IF q \in 1..m THEN m - 1 ELSE m
    <2>1. PICK S : S = (1..m) \ {q}
      BY Zenon
    <2>2. IsFiniteSet(1..m) /\ Cardinality(1..m) = m
      BY FS_Interval
    <2>3. IsFiniteSet(S) /\ Cardinality(S) = IF q \in 1..m THEN m - 1 ELSE m
      <3>1. CASE q \in 1..m
        BY <2>1, <2>2, <3>1, FS_RemoveElement, Zenon
      <3>2. CASE q \notin 1..m
        <4>1. S = 1..m
          BY <2>1, <3>2, Zenon
        <4>2. QED
          BY <2>2, <3>2, <4>1, Zenon
      <3>3. QED
        BY <3>1, <3>2, Zenon
    <2>4. Cardinality(Fds) <= Cardinality(S)
      BY <1>2, <2>1, <2>3, FS_Injection, Zenon
    <2>5. Cardinality(Fds) = MaxSpawns + MaxFails
      <3>1. PICK k \in Nat : k = MaxSpawns + MaxFails
        BY Sizes
      <3>2. Cardinality(1..k) = k
        BY FS_Interval
      <3>3. QED
        BY <3>1, <3>2, Zenon DEF Fds
    <2>6. QED
      BY <2>3, <2>4, <2>5, Zenon
  <1>3. QED
    BY <1>1, <1>2, LeastOne, Zenon DEF Counting

(* A child is told to leave only if the master means that child, whatever  *)
(* is started, reloaded, lost or killed, unless a failed respawn left its  *)
(* numbers behind.                                                         *)
THEOREM OnlyTheRightChild == Spec => []RightChild
  <1>1. RightInv /\ [Next]_vars => RightInv'
    BY CountingHolds, NextRight, Zenon
  <1>2. QED
    BY <1>1, InitRight, RightFollows, PTL DEF Spec

(* A child that has read all its commands, and missed none, has the        *)
(* channels the master has, and no other descriptor of a channel, whatever *)
(* is started, reloaded, replaced or killed, and however slots and numbers *)
(* are used again, as long as no spawn fails.                              *)
THEOREM PeersKnown == Spec => []PeersAgree
  <1>1. Init => IInv
    BY InitRight, InitPeers, Zenon DEF IInv
  <1>2. IInv /\ [Next]_vars => IInv'
    BY CountingHolds, NextRight, NextPeers, Zenon DEF IInv
  <1>3. QED
    BY <1>1, <1>2, PeersFollow, PTL DEF Spec
============================================================================
