------------------------------- MODULE Dyups -------------------------------
(***************************************************************************)
(* Dynamic upstreams in all the workers: ngx_http_upstream_dyups_module.   *)
(*                                                                         *)
(* Every worker has its own table of upstreams, here the map that          *)
(* DyupsTable implements.  A request to the API of one worker changes that *)
(* worker's table and leaves a message in a queue in shared memory; every  *)
(* other worker reads the queue from a timer, applies the messages it has  *)
(* not read and adds its pid to their readers.  The reader that finds as   *)
(* many readers as there are workers frees the message.  The zone's mutex  *)
(* is held over each of these handlers, so each is one step.  A worker     *)
(* that replaces a dead one puts its own pid in the place of the dead      *)
(* worker's, which it takes to be the one that has not read for the        *)
(* longest time.                                                           *)
(***************************************************************************)
EXTENDS Integers, Sequences, FiniteSets, Functions

CONSTANTS
    N,              \* worker_processes
    Names,          \* upstream names
    Vals,           \* what an update may give a name
    MaxSent,        \* bound: messages sent
    MaxCrashes,     \* bound: workers that die
    MaxFaults       \* bound: allocations that fail, and new workers that
                    \* wake up too early

ASSUME NAssumption == N \in Nat \ {0}

Workers == 1..N

Map == INSTANCE Upstreams WITH conf <- <<>>
Initial == Map!Initial
Broken  == Map!Broken
Absent  == Map!Absent

VARIABLES
    \* shared memory (ngx_dyups_shctx_t)
    queue,      \* the messages of msg_queue, which are in the order of their ids
    version,
    status,     \* the pids in the used slots of status, by increasing time
    \* each worker
    phase,      \* "down", "sleep" (in init_process) or "up"
    pid,
    conf,       \* the content of each name in the worker's table
    waiting,    \* the workers a sleeping worker expects to read meanwhile
    \* the environment
    lastPid, crashes, fails, lates,
    \* what the callers of the API were told (no variables of the code)
    truth,      \* the content the last change that was sent gives a name
    unsynced,   \* names whose last change failed in some worker
    known       \* names that were changed since a worker joined

shared == <<queue, version, status>>
local  == <<phase, pid, conf, waiting>>
env    == <<lastPid, crashes, fails, lates>>
ghost  == <<truth, unsynced, known>>
vars   == <<shared, local, env, ghost>>

----------------------------------------------------------------------------
(* The queue.                                                              *)

\* Mutant: one reader too many is waited for.
CompleteLate(m) == Cardinality(m.pids) = N + 1

Complete(m) == Cardinality(m.pids) = N
Unread(p) == {m \in queue : ~Complete(m) /\ p \notin m.pids}

\* Mutant: the count is not looked at before the reader is added.
MarkReadAlways(p, q) == {[m EXCEPT !.pids = @ \cup {p}] : m \in q}

(* What a reader leaves of a queue: the messages every worker has read are *)
(* destroyed, the others have the reader among their readers.              *)
MarkRead(p, q) ==
    {[m EXCEPT !.pids = @ \cup {p}] : m \in {n \in q : ~Complete(n)}}

\* The content a message gives its name.  The allocations for bad may fail.
ngx_dyups_sync_cmd(m, bad) == IF m.id = bad THEN Broken ELSE m.val

\* Mutant: the queue is read from its other end.
NewestReadFirst(ms) == CHOOSE m \in ms : \A k \in ms : m.id <= k.id

\* The message of ms that is read last.
Newest(ms) == CHOOSE m \in ms : \A k \in ms : k.id <= m.id

(* A table c after the messages ms, oldest first: the newest one about a   *)
(* name decides.                                                           *)
SyncAll(c, ms, bad) ==
    [n \in Names |->
        LET about == {m \in ms : m.name = n}
        IN  IF about = {} THEN c[n] ELSE ngx_dyups_sync_cmd(Newest(about), bad)]

(* A worker stamps its status slot, or the first unused one.  The used     *)
(* slots precede the unused ones, whose time is 0, so that the place of a  *)
(* slot in the array never matters.                                        *)
ToEnd(s, k) ==
    [i \in 1..Len(s) |-> IF i < k THEN s[i]
                         ELSE IF i < Len(s) THEN s[i + 1] ELSE s[k]]

Stamp(p) ==
    IF p \in Range(status)
    THEN ToEnd(status, CHOOSE k \in DOMAIN status : status[k] = p)
    ELSE IF Len(status) < N THEN Append(status, p)
    ELSE status

----------------------------------------------------------------------------
Init ==
    /\ queue = {} /\ version = 0
    /\ status = <<>>
    /\ phase = [w \in Workers |-> "down"]
    /\ pid = [w \in Workers |-> 0]
    /\ conf = [w \in Workers |-> [n \in Names |-> Initial]]
    /\ waiting = [w \in Workers |-> {}]
    /\ lastPid = 0 /\ crashes = 0 /\ fails = 0 /\ lates = 0
    /\ truth = [n \in Names |-> Initial]
    /\ unsynced = {}
    /\ known = [w \in Workers |-> {}]

(* The master forks the workers in order, and later one in the place of a  *)
(* dead one, with the upstreams of the configuration file.                 *)
(* ngx_http_dyups_init_process: if an update was ever sent, it sleeps for  *)
(* two periods of the read timer before it goes on.                        *)
Start(w) ==
    /\ phase[w] = "down"
    /\ w <= lastPid + 1
    /\ lastPid' = lastPid + 1
    /\ pid' = [pid EXCEPT ![w] = lastPid + 1]
    /\ conf' = [conf EXCEPT ![w] = [n \in Names |-> Initial]]
    /\ IF version = 0
       THEN /\ phase' = [phase EXCEPT ![w] = "up"]
            /\ known' = [known EXCEPT ![w] = Names]
            /\ UNCHANGED waiting
       ELSE /\ phase' = [phase EXCEPT ![w] = "sleep"]
            /\ waiting' = [waiting EXCEPT ![w] =
                             {v \in Workers : phase[v] = "up"}]
            /\ UNCHANGED known
    /\ UNCHANGED <<shared, crashes, fails, lates, truth, unsynced>>

ngx_dyups_purge_msg(opid, npid) ==
    {[m EXCEPT !.pids = {IF p = opid THEN npid ELSE p : p \in @}] : m \in queue}

(* The end of init_process, which takes the slot with the least time.  The *)
(* sleep is meant to be long enough for each running worker to read in the *)
(* meantime; it is too short when a worker has been busy all that time, or *)
(* could not read.                                                         *)
Wake(w) ==
    /\ phase[w] = "sleep"
    /\ \/ waiting[w] = {} /\ UNCHANGED lates
       \/ /\ waiting[w] # {} /\ fails + lates < MaxFaults
          /\ lates' = lates + 1
    /\ IF Len(status) < N
       THEN status' = Append(status, pid[w]) /\ UNCHANGED queue
       ELSE /\ status' = Append(Tail(status), pid[w])
            /\ queue' = ngx_dyups_purge_msg(Head(status), pid[w])
    /\ phase' = [phase EXCEPT ![w] = "up"]
    /\ waiting' = [waiting EXCEPT ![w] = {}]
    /\ UNCHANGED <<version, pid, conf, lastPid, crashes, fails, ghost>>

----------------------------------------------------------------------------
(* ngx_http_dyups_read_msg_locked.  The outcome o is AllRead, the id of a  *)
(* message whose allocations fail in w, or NoPool when there is no memory  *)
(* to read at all.                                                         *)
AllRead == 0
NoPool  == -1

Outcomes(w) ==
    {AllRead} \cup {m.id : m \in {n \in Unread(pid[w]) : n.val # Absent}}
              \cup IF queue = {} THEN {} ELSE {NoPool}

ReadQueue(w, o) == IF o = NoPool THEN queue ELSE MarkRead(pid[w], queue)
ReadConf(w, o) ==
    IF o = NoPool THEN conf[w] ELSE SyncAll(conf[w], Unread(pid[w]), o)

\* The names whose content the read leaves broken in w.
Missed(w, o) == {m.name : m \in {n \in Unread(pid[w]) : n.id = o}}

\* w stamps its slot and, unless it cannot, reads; more allocations fail.
Reads(w, o, more) ==
    /\ phase[w] = "up"
    /\ fails' = fails + more + IF o = AllRead THEN 0 ELSE 1
    /\ fails' = fails \/ fails' + lates <= MaxFaults
    /\ status' = Stamp(pid[w])
    /\ waiting' = IF o = NoPool THEN waiting
                  ELSE [v \in Workers |-> waiting[v] \ {w}]
    /\ UNCHANGED <<phase, pid, lastPid, crashes, lates>>

(* The timer handler.  A call of the API that is refused does the same.    *)
ngx_http_dyups_read_msg(w) ==
    \E o \in Outcomes(w) :
        /\ Reads(w, o, 0)
        /\ queue' = ReadQueue(w, o)
        /\ conf' = [conf EXCEPT ![w] = ReadConf(w, o)]
        /\ unsynced' = unsynced \cup Missed(w, o)
        /\ UNCHANGED <<version, truth, known>>

(* w gives name the content val and tells the others, with                 *)
(* ngx_http_dyups_send_msg: the sender is the first reader.  An older      *)
(* message about the name that could not be read undoes the change in w.   *)
Sends(w, o, name, val) ==
    /\ version < MaxSent
    /\ version' = version + 1
    /\ Reads(w, o, 0)
    /\ conf' = [conf EXCEPT ![w] = [ReadConf(w, o) EXCEPT ![name] = val]]
    /\ queue' = ReadQueue(w, o) \cup {[id |-> version + 1, name |-> name,
                                      val |-> val, pids |-> {pid[w]}]}
    /\ truth' = [truth EXCEPT ![name] = val]
    /\ unsynced' =
         IF o = NoPool /\ \E m \in Unread(pid[w]) : m.name = name
         THEN unsynced \cup {name}
         ELSE (unsynced \cup Missed(w, o)) \ {name}
    /\ known' = [v \in Workers |->
                    IF phase[v] = "up" THEN known[v] \cup {name} ELSE known[v]]

(* The slab has no room for the message: nobody else will know.            *)
SendFails(w, o, name, val) ==
    /\ Reads(w, o, 1)
    /\ conf' = [conf EXCEPT ![w] = [ReadConf(w, o) EXCEPT ![name] = val]]
    /\ queue' = ReadQueue(w, o)
    /\ unsynced' = unsynced \cup Missed(w, o) \cup {name}
    /\ UNCHANGED <<version, truth, known>>

(* An update through w's API.  The caller is told 200, or 500 when the     *)
(* message is not sent, or when the allocations for the update failed and  *)
(* left a broken upstream.                                                 *)
ngx_dyups_update_upstream(w, name, val) ==
    \E o \in Outcomes(w) :
        \/ Sends(w, o, name, val)
        \/ SendFails(w, o, name, val)
        \/ SendFails(w, o, name, Broken)

(* A deletion through w's API; nothing is sent for a name that is not      *)
(* there, which is a read and no more.                                     *)
ngx_dyups_delete_upstream(w, name) ==
    \E o \in Outcomes(w) :
        /\ ReadConf(w, o)[name] # Absent
        /\ Sends(w, o, name, Absent) \/ SendFails(w, o, name, Absent)

----------------------------------------------------------------------------
(* A worker dies, perhaps after it has read the first k messages of a read *)
(* it does not finish (the master then releases the mutex).                *)
Crash(w) ==
    /\ phase[w] # "down"
    /\ crashes < MaxCrashes
    /\ crashes' = crashes + 1
    /\ \E k \in IF phase[w] = "up" THEN 0..version ELSE {0} :
        queue' = MarkRead(pid[w], {m \in queue : m.id <= k})
                 \cup {m \in queue : m.id > k}
    /\ phase' = [phase EXCEPT ![w] = "down"]
    /\ waiting' = [v \in Workers |->
                    IF v = w THEN {} ELSE waiting[v] \ {w}]
    /\ known' = [known EXCEPT ![w] = {}]
    /\ conf' = [conf EXCEPT ![w] = [n \in Names |-> Initial]]
    /\ UNCHANGED <<version, status, pid, lastPid, fails, lates, truth, unsynced>>

Step(w) ==
    \/ Start(w)
    \/ Wake(w)
    \/ ngx_http_dyups_read_msg(w)
    \/ \E name \in Names, val \in Vals : ngx_dyups_update_upstream(w, name, val)
    \/ \E name \in Names : ngx_dyups_delete_upstream(w, name)
    \/ Crash(w)

Next == \E w \in Workers : Step(w)

Spec == Init /\ [][Next]_vars

(* The master replaces a dead worker, a new worker ends its sleep and a    *)
(* worker's read timer keeps firing (one of the three at a time).          *)
FairSpec ==
    /\ Spec
    /\ \A w \in Workers :
        WF_vars(Start(w) \/ Wake(w) \/ ngx_http_dyups_read_msg(w))

----------------------------------------------------------------------------
(* The status array keeps a slot per worker and holds only pids that were   *)
(* given out; so do the readers of the messages.                           *)
TypeOK ==
    /\ queue \subseteq [id : 1..version, name : Names, val : Vals \cup {Absent},
                        pids : SUBSET (1..lastPid)]
    /\ {version, lastPid, crashes, fails, lates} \subseteq Nat
    /\ status \in Seq(1..lastPid) /\ Len(status) <= N
    /\ phase \in [Workers -> {"down", "sleep", "up"}]
    /\ pid \in [Workers -> 0..lastPid]
    /\ conf \in [Workers -> [Names -> Vals \cup {Initial, Broken, Absent}]]
    /\ waiting \in [Workers -> SUBSET Workers]
    /\ truth \in [Names -> Vals \cup {Initial, Absent}]
    /\ unsynced \subseteq Names
    /\ known \in [Workers -> SUBSET Names]

(* The array of readers of a message has worker_processes elements and no  *)
(* reader writes past its end, whatever workers come and go.               *)
ReadersFit == \A m \in queue : Cardinality(m.pids) <= N

(* A worker with no unread message about a name has exactly the content    *)
(* the last acknowledged change gave that name, if the change came after   *)
(* the worker joined, failed nowhere, and no new worker woke up too early: *)
(* no message is freed, or marked as read, before each worker that has to  *)
(* apply it has done so, in order.                                         *)
SurvivorsInSync ==
    lates = 0 =>
        \A w \in Workers : \A name \in known[w] \ unsynced :
            \/ phase[w] # "up"
            \/ \E m \in Unread(pid[w]) : m.name = name
            \/ conf[w][name] = truth[name]

(* When updates stop, every message is freed in the end: neither a dead    *)
(* worker nor one that takes its place keeps a message from being read as  *)
(* often as there are workers.                                             *)
MessagesFreed == <>[](queue = {})

============================================================================
