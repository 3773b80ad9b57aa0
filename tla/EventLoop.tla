----------------------------- MODULE EventLoop -----------------------------
(***************************************************************************)
(* The event loop of the workers (src/event/ngx_event.c,                   *)
(* ngx_event_accept.c) with accept_mutex on.                               *)
(*                                                                         *)
(* In each iteration a worker tries the accept mutex.  With it, it has the *)
(* listening sockets in its epoll set and accepts from them; without it,   *)
(* it takes them out.  It frees the mutex before it runs the handlers of   *)
(* the connections, where it may take the read-write lock of an upstream   *)
(* zone (RwLock).  ngx_accept_mutex_held remembers the last attempt after  *)
(* the mutex was freed, and a worker short of connections skips the        *)
(* attempt for some iterations.  A worker may die anywhere; the master     *)
(* frees its accept mutex, nobody its read-write lock.                     *)
(*                                                                         *)
(* The accept mutex is used through trylock, unlock and force_unlock,      *)
(* whose steps are those of Mutex; Shmtx implements it.                    *)
(***************************************************************************)
EXTENDS RwLock

CONSTANTS
    First,          \* the workers running at first; the others of Procs
                    \* are the processes that replace dead ones
    Listening,      \* the listening sockets, all shared (no reuseport)
    Connections,    \* the free connections of a new worker
    Reserve,        \* connection_n / 8
    MaxPending,     \* bound: connections waiting in a listening socket
    MaxFaults,      \* bound: workers that die, failures of ngx_add_event()
                    \* and ngx_del_event(), and accept() without descriptors
    MaxZoneCalls    \* bound: uses of the zone's lock

ASSUME EventLoopAssumption ==
    /\ First \subseteq Procs
    /\ Connections \in Nat /\ Reserve \in Nat
    /\ MaxPending \in Nat /\ MaxFaults \in Nat /\ MaxZoneCalls \in Nat

Free == "free"      \* 0, the mutex nobody owns

ASSUME FreeAssumption == Free \notin Procs

VARIABLES
    mutex,      \* ngx_accept_mutex: the owner's pid, or Free
    step,       \* where each worker is in ngx_process_events_and_timers
    iter,       \* what its attempt at the mutex in this iteration gave
    held,       \* ngx_accept_mutex_held
    active,     \* the listening sockets in its epoll set
    disabled,   \* ngx_accept_disabled, 0 standing for the negative values
    free,       \* ngx_cycle->free_connection_n
    ready,      \* the accept events still to be handled
    pending,    \* the connections waiting in each listening socket
    timers,     \* the workers always have some timer set; it is chosen when
                \* it first makes a difference, in AcceptFull
    eventfailed, full,  \* a registration, an accept() has failed so far
    faults,     \* how many faults there were
    zonecalls   \* how often the zone's lock was used

loopvars == <<mutex, step, iter, held, active, disabled, free, ready, pending,
              timers, eventfailed, full, faults, zonecalls>>
vars == <<loopvars, rwvars>>

\* what most steps of the loop leave alone
rest == <<timers, eventfailed, full, faults, zonecalls, rwvars>>

Init ==
    /\ RwInit
    /\ mutex = Free
    /\ step = [w \in Procs |-> IF w \in First THEN "top" ELSE "unborn"]
    /\ iter = [w \in Procs |-> "none"]
    /\ held = [w \in Procs |-> FALSE]
    /\ active = [w \in Procs |-> {}]
    /\ disabled = [w \in Procs |-> 0]
    /\ free = [w \in Procs |-> Connections]
    /\ ready = [w \in Procs |-> {}]
    /\ pending = [l \in Listening |-> 0]
    /\ timers = FALSE
    /\ eventfailed = FALSE /\ full = FALSE /\ faults = 0 /\ zonecalls = 0

(* A fault, within the bound.                                              *)
Fault == faults < MaxFaults /\ faults' = faults + 1

StepTo(w, s) == step' = [step EXCEPT ![w] = s]

\* ngx_shmtx_unlock(): it frees nothing that is not its own.
Unlock(w) == mutex' = IF mutex = w THEN Free ELSE mutex

-----------------------------------------------------------------------------
(* ngx_process_events_and_timers: an overloaded worker does not try.       *)
SkipMutex(w) ==
    /\ step[w] = "top" /\ disabled[w] > 0
    /\ disabled' = [disabled EXCEPT ![w] = @ - 1]
    /\ iter' = [iter EXCEPT ![w] = "skip"]
    /\ StepTo(w, "poll")
    /\ UNCHANGED <<mutex, held, active, free, ready, pending, rest>>

(* ngx_disable_accept_events: all the sockets leave the epoll set, or some *)
(* stay because of a failure.                                              *)
ngx_disable_accept_events(w) ==
    active' = [active EXCEPT ![w] = {}] /\ UNCHANGED eventfailed

DisableFails(w) ==
    /\ eventfailed' = TRUE
    /\ \E some \in SUBSET active[w] \ {{}} :
        active' = [active EXCEPT ![w] = some]

\* Mutant: the events stay when the mutex is lost.
TrylockKeepsEvents(w) ==
    /\ step[w] = "top" /\ disabled[w] = 0
    /\ IF mutex = Free
       THEN /\ mutex' = w
            /\ iter' = [iter EXCEPT ![w] = "locked"]
            /\ StepTo(w, IF held[w] THEN "poll" ELSE "enable")
            /\ UNCHANGED <<held, active, eventfailed>>
       ELSE /\ iter' = [iter EXCEPT ![w] = "delay"]
            /\ StepTo(w, "poll")
            /\ held' = [held EXCEPT ![w] = FALSE]
            /\ UNCHANGED <<mutex, active, eventfailed>>
    /\ UNCHANGED <<disabled, free, ready, pending, timers, full, faults,
                   zonecalls, rwvars>>

(* ngx_trylock_accept_mutex.  A worker that lost the mutex to another      *)
(* takes the listening sockets out; if that fails it starts the iteration  *)
(* again.                                                                  *)
ngx_trylock_accept_mutex(w) ==
    /\ step[w] = "top" /\ disabled[w] = 0
    /\ \/ /\ mutex = Free
          /\ mutex' = w
          /\ iter' = [iter EXCEPT ![w] = "locked"]
          /\ StepTo(w, IF held[w] THEN "poll" ELSE "enable")
          /\ UNCHANGED <<held, active, eventfailed, faults>>
       \/ /\ mutex # Free /\ ~held[w]
          /\ iter' = [iter EXCEPT ![w] = "delay"]
          /\ StepTo(w, "poll")
          /\ UNCHANGED <<mutex, held, active, eventfailed, faults>>
       \/ /\ mutex # Free /\ held[w]
          /\ ngx_disable_accept_events(w)
          /\ iter' = [iter EXCEPT ![w] = "delay"]
          /\ StepTo(w, "poll")
          /\ held' = [held EXCEPT ![w] = FALSE]
          /\ UNCHANGED <<mutex, faults>>
       \/ /\ mutex # Free /\ held[w]
          /\ Fault
          /\ DisableFails(w)
          /\ UNCHANGED <<mutex, step, iter, held>>
    /\ UNCHANGED <<disabled, free, ready, pending, timers, full,
                   zonecalls, rwvars>>

(* ngx_enable_accept_events and the rest of trylock: the listening sockets *)
(* enter the epoll set, or only some of them and the mutex is freed.       *)
ngx_enable_accept_events(w) ==
    /\ step[w] = "enable"
    /\ \/ /\ active' = [active EXCEPT ![w] = Listening]
          /\ held' = [held EXCEPT ![w] = TRUE]
          /\ StepTo(w, "poll")
          /\ UNCHANGED <<mutex, eventfailed, faults>>
       \/ /\ Fault
          /\ eventfailed' = TRUE
          /\ \E some \in SUBSET Listening \ {Listening} :
                /\ active[w] \subseteq some
                /\ active' = [active EXCEPT ![w] = some]
          /\ Unlock(w)
          /\ StepTo(w, "top")
          /\ UNCHANGED held
    /\ UNCHANGED <<iter, disabled, free, ready, pending, timers, full,
                   zonecalls, rwvars>>

(* ngx_process_events: epoll_wait() reports the sockets of the set that    *)
(* have connections waiting, or returns for another reason.                *)
Reported(w) == {l \in active[w] : pending[l] > 0}

ngx_process_events(w) ==
    /\ step[w] = "poll"
    /\ ready' = [ready EXCEPT ![w] = Reported(w)]
    /\ StepTo(w, "accept")
    /\ UNCHANGED <<mutex, iter, held, active, disabled, free, pending, rest>>

(* The wait ends for certain when a socket is ready; after                 *)
(* accept_mutex_delay, if the worker tried the mutex in vain; and when a   *)
(* timer expires, which every open connection has.                         *)
MustWake(w) ==
    \/ Reported(w) # {}
    \/ iter[w] = "delay"
    \/ timers \/ free[w] < Connections

(* ngx_event_accept takes one connection (multi_accept is off), which      *)
(* another worker may have taken.  Without a free connection the socket is *)
(* closed at once.                                                         *)
ngx_event_accept(w, l) ==
    /\ step[w] = "accept" /\ l \in ready[w]
    /\ ready' = [ready EXCEPT ![w] = @ \ {l}]
    /\ IF pending[l] > 0
       THEN /\ pending' = [pending EXCEPT ![l] = @ - 1]
            /\ disabled' = [disabled EXCEPT
                  ![w] = IF free[w] < Reserve THEN Reserve - free[w] ELSE 0]
            /\ free' = [free EXCEPT ![w] = IF @ > 0 THEN @ - 1 ELSE 0]
       ELSE UNCHANGED <<pending, disabled, free>>
    /\ UNCHANGED <<mutex, step, iter, held, active, rest>>

(* ... and there are no descriptors left (EMFILE, ENFILE): the worker      *)
(* takes the listening sockets out and lets others accept.                 *)
AcceptFull(w, l) ==
    /\ step[w] = "accept" /\ l \in ready[w] /\ pending[l] > 0
    /\ Fault
    /\ full' = TRUE /\ timers' \in BOOLEAN
    /\ ready' = [ready EXCEPT ![w] = @ \ {l}]
    /\ \/ /\ ngx_disable_accept_events(w)
          /\ IF held[w] THEN Unlock(w) ELSE UNCHANGED mutex
          /\ held' = [held EXCEPT ![w] = FALSE]
          /\ disabled' = [disabled EXCEPT ![w] = 1]
       \/ DisableFails(w) /\ UNCHANGED <<mutex, held, disabled>>
    /\ UNCHANGED <<step, iter, free, pending, zonecalls, rwvars>>

\* Mutant: the mutex is kept until the next iteration.
UnlocksNever(w) ==
    /\ step[w] = "accept" /\ ready[w] = {}
    /\ StepTo(w, "handlers")
    /\ UNCHANGED <<mutex, iter, held, active, disabled, free, ready, pending,
                   rest>>

(* After the accept events the mutex is freed.                             *)
UnlockAcceptMutex(w) ==
    /\ step[w] = "accept" /\ ready[w] = {}
    /\ IF held[w] THEN Unlock(w) ELSE UNCHANGED mutex
    /\ StepTo(w, "handlers")
    /\ UNCHANGED <<iter, held, active, disabled, free, ready, pending, rest>>

-----------------------------------------------------------------------------
(* ngx_event_expire_timers and ngx_event_process_posted: the handlers of   *)
(* the connections.  One may close its connection, ...                     *)
CloseConnection(w) ==
    /\ step[w] = "handlers" /\ free[w] < Connections
    /\ free' = [free EXCEPT ![w] = @ + 1]
    /\ UNCHANGED <<mutex, step, iter, held, active, disabled, ready, pending,
                   rest>>

(* ... another take the lock of an upstream zone, once in an iteration.    *)
EnterZone(w) ==
    /\ step[w] = "handlers"
    /\ zonecalls < MaxZoneCalls
    /\ zonecalls' = zonecalls + 1
    /\ CallRwlock(w)
    /\ StepTo(w, "zone")
    /\ UNCHANGED <<mutex, iter, held, active, disabled, free, ready, pending,
                   timers, eventfailed, full, faults>>

InZone(w) ==
    /\ step[w] = "zone" /\ at[w] # "out"
    /\ RwStep(w)
    /\ UNCHANGED loopvars

EndIteration(w) ==
    /\ step[w] \in {"handlers", "zone"} /\ at[w] = "out"
    /\ StepTo(w, "top")
    /\ iter' = [iter EXCEPT ![w] = "none"]
    /\ UNCHANGED <<mutex, held, active, disabled, free, ready, pending, rest>>

-----------------------------------------------------------------------------
(* A client connects.                                                      *)
Arrive(l) ==
    /\ pending[l] < MaxPending
    /\ pending' = [pending EXCEPT ![l] = @ + 1]
    /\ UNCHANGED <<mutex, step, iter, held, active, disabled, free, ready,
                   rest>>

With(s) == {w \in Procs : step[w] = s}

(* A worker dies.  The kernel closes its epoll set and its connections.    *)
Crash(w) ==
    /\ step[w] \notin {"unborn", "dead", "reaped"}
    /\ Cardinality(With("dead")) < Cardinality(With("unborn"))
    /\ Fault
    /\ StepTo(w, "dead")
    /\ iter' = [iter EXCEPT ![w] = "none"]
    /\ held' = [held EXCEPT ![w] = FALSE]
    /\ active' = [active EXCEPT ![w] = {}]
    /\ disabled' = [disabled EXCEPT ![w] = 0]
    /\ free' = [free EXCEPT ![w] = Connections]
    /\ ready' = [ready EXCEPT ![w] = {}]
    /\ Goto(w, "out")
    /\ seen' = [seen EXCEPT ![w] = 0]
    /\ UNCHANGED <<mutex, pending, timers, eventfailed, full, zonecalls, lock,
                   readers, writers>>

\* Mutant: the master does not free the mutex.
ReapKeepsMutex(w) ==
    /\ step[w] = "dead"
    /\ \E v \in With("unborn") :
        step' = [step EXCEPT ![w] = "reaped", ![v] = "top"]
    /\ UNCHANGED <<mutex, iter, held, active, disabled, free, ready, pending,
                   rest>>

(* ngx_process_get_status, ngx_unlock_mutexes and ngx_reap_children: the   *)
(* master frees the mutex of the dead worker and starts another.           *)
ngx_unlock_mutexes(w) ==
    /\ step[w] = "dead"
    /\ \E v \in With("unborn") :
        step' = [step EXCEPT ![w] = "reaped", ![v] = "top"]
    /\ Unlock(w)
    /\ UNCHANGED <<iter, held, active, disabled, free, ready, pending, rest>>

LoopStep(w) ==
    \/ SkipMutex(w) \/ ngx_trylock_accept_mutex(w)
    \/ ngx_enable_accept_events(w)
    \/ \E l \in Listening : ngx_event_accept(w, l)
    \/ UnlockAcceptMutex(w)
    \/ InZone(w) \/ EndIteration(w)
    \/ ngx_unlock_mutexes(w)

Next ==
    \/ \E w \in Procs :
        \/ LoopStep(w)
        \/ ngx_process_events(w)
        \/ \E l \in Listening : AcceptFull(w, l)
        \/ CloseConnection(w) \/ EnterZone(w)
        \/ Crash(w)
    \/ \E l \in Listening : Arrive(l)

Spec == Init /\ [][Next]_vars

(* A worker that can go on does, in its loop and in its handlers; a wait   *)
(* ends when MustWake says so; the master reaps.                           *)
FairSpec ==
    /\ Spec
    /\ \A w \in Procs :
        /\ WF_vars(LoopStep(w))
        /\ WF_vars(ngx_process_events(w) /\ MustWake(w))

-----------------------------------------------------------------------------
TypeOK ==
    /\ RwTypeOK
    /\ mutex \in Procs \cup {Free}
    /\ step \in [Procs -> {"unborn", "top", "enable", "poll", "accept",
                           "handlers", "zone", "dead", "reaped"}]
    /\ iter \in [Procs -> {"none", "locked", "delay", "skip"}]
    /\ held \in [Procs -> BOOLEAN]
    /\ active \in [Procs -> SUBSET Listening]
    /\ disabled \in [Procs -> Nat]
    /\ free \in [Procs -> 0..Connections]
    /\ ready \in [Procs -> SUBSET Listening]
    /\ pending \in [Listening -> 0..MaxPending]
    /\ timers \in BOOLEAN
    /\ eventfailed \in BOOLEAN /\ full \in BOOLEAN
    /\ faults \in 0..MaxFaults
    /\ zonecalls \in 0..MaxZoneCalls

(* No worker runs the handlers of its connections, and none waits for a    *)
(* zone's lock, while it owns the accept mutex; the owner is in the part   *)
(* of the loop where it accepts, or dead and not yet reaped.  A worker     *)
(* that is blocked in a handler therefore stops no other from accepting.   *)
HandlersUnlocked ==
    \A w \in Procs :
        /\ mutex = w => step[w] \in {"enable", "poll", "accept", "dead"}
        /\ at[w] # "out" => mutex # w \/ step[w] = "dead"

(* Unless a registration has failed, the listening sockets are waited for  *)
(* only by the owner of the mutex, and by a worker that did not try for    *)
(* it because it is short of connections.                                  *)
ByTurn ==
    ~eventfailed =>
        \A w \in Procs : step[w] = "poll" /\ active[w] # {} =>
            mutex = w \/ iter[w] = "skip"

(* A zone's lock left behind by a dead worker.                             *)
Leaked == \E w \in readers \cup writers : step[w] \in {"dead", "reaped"}

(* Every waiting connection is taken in the end, whatever workers die and  *)
(* whatever registrations fail, unless a worker died with a zone's lock    *)
(* or the descriptors ran out in workers that have no timer.               *)
Accepting ==
    \A l \in Listening :
        []<>(pending[l] < MaxPending \/ Leaked \/ (full /\ ~timers))

=============================================================================
