------------------------------ MODULE Channels ------------------------------
(***************************************************************************)
(* The channels between the master and its children                        *)
(* (src/os/unix/ngx_channel.c and its users in ngx_process_cycle.c and     *)
(* ngx_process.c).                                                         *)
(*                                                                         *)
(* A child is forked with a pair of sockets.  The master writes commands   *)
(* to one end and keeps both; the child reads the other end.  The first    *)
(* end is inherited by, or passed to, the other children, which keep it in *)
(* their copies of the table of processes until they are told to close it. *)
(* Descriptors are numbers, the lowest free one first: a number that is    *)
(* kept after it was closed may come to name another child's channel.      *)
(*                                                                         *)
(* Master models what the commands do to the children, and signals; here   *)
(* is whether the commands arrive.  The detached new binary, which has no  *)
(* channel, and commands other than QUIT, TERMINATE, OPEN_CHANNEL and      *)
(* CLOSE_CHANNEL are left out.                                             *)
(***************************************************************************)
EXTENDS Integers, Sequences, FiniteSets, FiniteSetsExt

CONSTANTS
    Kinds,          \* what is started, in order: a sequence of "worker"
                    \* (respawned) and "loader" (not respawned)
    MaxProcesses,   \* NGX_MAX_PROCESSES
    MaxSpawns,      \* bound: children forked
    MaxReloads,     \* bound: SIGHUPs
    MaxDeaths,      \* bound: workers that die on their own
    MaxFails,       \* bound: spawns that fail
    MaxLost         \* bound: times a channel is found full

Slots == 0..(MaxProcesses - 1)
Procs == 1..MaxSpawns           \* a child, its pid and its channel
Fds   == 1..(MaxSpawns + MaxFails)  \* a number stands for the pair in the master
NoPid == -1
NoFd  == -1
Closed == 0

ASSUME KindsAssumption ==
    /\ Kinds \in Seq({"worker", "loader"}) /\ Len(Kinds) > 0
    /\ MaxProcesses \in Nat \ {0} /\ {MaxSpawns, MaxFails} \subseteq Nat

VARIABLES
    slot,       \* ngx_processes of the master
    last,       \* ngx_last_process
    pslot,      \* ngx_process_slot
    fds,        \* what each number means to the master
    pc, i,      \* where the master is, and the slot or kind it is at
    reap,       \* ngx_reap, set because kill() failed
    reloading,  \* the children being started are those of a reload
    shutdown,   \* the signal of a shutdown, if any
    proc,       \* the children
    spawned, reloads, deaths, fails, lost,  \* what the bounds count
    failed,     \* a spawn has failed
    stale       \* a failed respawn left its numbers in the table

mvars  == <<slot, last, pslot, fds, pc, i, reap, reloading, shutdown>>
bounds == <<spawned, reloads, deaths, fails, lost>>
vars   == <<mvars, proc, bounds, failed, stale>>

NoSlot == [pid |-> NoPid, fd |-> NoFd, exited |-> FALSE, exiting |-> FALSE,
           respawn |-> FALSE, just |-> FALSE]
NoProc == [st |-> "none", own |-> 0, kind |-> "worker", inbox |-> <<>>,
           reads |-> FALSE, told |-> FALSE, missed |-> FALSE,
           table |-> [s \in Slots |-> NoFd], fds |-> [n \in Fds |-> Closed]]

Init ==
    /\ slot = [s \in Slots |-> NoSlot] /\ last = 0 /\ pslot = 0
    /\ fds = [n \in Fds |-> Closed]
    /\ pc = "start" /\ i = 1 /\ reap = FALSE
    /\ reloading = FALSE /\ shutdown = "none"
    /\ proc = [p \in Procs |-> NoProc]
    /\ spawned = 0 /\ reloads = 0 /\ deaths = 0 /\ fails = 0 /\ lost = 0
    /\ failed = FALSE /\ stale = FALSE

-----------------------------------------------------------------------------
(* Writing to channels.  tb, f and ps are the master's table, its          *)
(* descriptors and the children; full are the children whose channel has   *)
(* no room.                                                                *)

Lowest(f) == Min({n \in Fds : f[n] = Closed})

\* The channel behind slot s, or Closed.
Channel(tb, f, s) == IF tb[s].fd = NoFd THEN Closed ELSE f[tb[s].fd]

(* ngx_write_channel to each slot of targets.  What is written to the      *)
(* channel of a child that is dead, or has closed its end, is lost without *)
(* an error: the master itself holds the other end.                        *)
ngx_write_channel(tb, f, ps, targets, msg, full) ==
    [p \in Procs |->
        LET n == Cardinality({s \in targets : Channel(tb, f, s) = p})
        IN  IF n = 0 \/ ~ps[p].reads THEN ps[p]
            ELSE IF p \in full THEN [ps[p] EXCEPT !.missed = TRUE]
            ELSE [ps[p] EXCEPT !.inbox = @ \o [k \in 1..n |-> msg]]]

(* ngx_pass_open_channel announces the channel of ngx_process_slot, which  *)
(* is that of the child just spawned, unless the spawn failed.  A message  *)
(* with a closed number is refused by sendmsg(); one with the number -1    *)
(* carries no descriptor.                                                  *)
ngx_pass_open_channel(tb, f, ps, l, s, full) ==
    LET targets == {t \in Slots : /\ t < l /\ t # s
                                  /\ tb[t].pid # NoPid /\ tb[t].fd # NoFd}
        msg == [cmd |-> IF tb[s].fd = NoFd THEN "BARE" ELSE "OPEN",
                slot |-> s, chan |-> Channel(tb, f, s)]
    IN  IF msg.cmd = "OPEN" /\ msg.chan = Closed
        THEN ps
        ELSE ngx_write_channel(tb, f, ps, targets, msg, full)

\* The children whose channel may be full in a step: one at most.
Fulls == {{}} \cup IF lost = MaxLost THEN {}
                  ELSE {{p} : p \in {q \in Procs : proc[q].reads}}

Full(full) == lost' = lost + Cardinality(full)

-----------------------------------------------------------------------------
(* ngx_spawn_process.                                                      *)

FirstFree == Min({s \in Slots : s < last /\ slot[s].pid = NoPid} \cup {last})

(* The child of number p in slot s: it has copies of the master's table    *)
(* and descriptors, and closes its own number.                             *)
Forked(tb, f, s, p, kind) ==
    [NoProc EXCEPT !.st = "run", !.own = s, !.kind = kind, !.reads = TRUE,
                   !.table = [t \in Slots |-> tb[t].fd],
                   !.fds = [f EXCEPT ![tb[s].fd] = Closed]]

(* How a spawn may fail: before the sockets are made, when they are set    *)
(* up, or in fork().  The last two close the sockets and keep the numbers; *)
(* the last one has set ngx_process_slot.                                  *)
Failures == {"socketpair", "setup", "fork"}

Fails(how) ==
    /\ how \in Failures
    /\ fails < MaxFails /\ fails' = fails + 1
    /\ UNCHANGED spawned

\* The table after a failed spawn in slot s.
FailedIn(tb, f, s, how) ==
    IF how = "socketpair" THEN tb ELSE [tb EXCEPT ![s].fd = Lowest(f)]

Started(kind) ==
    [NoSlot EXCEPT !.respawn = (kind = "worker"), !.just = reloading]

(* One child of ngx_start_worker_processes, ngx_start_cache_manager_       *)
(* processes or ngx_procs_start: it is spawned, or not, and announced.     *)
StartOne ==
    /\ pc = "start" /\ i <= Len(Kinds)
    /\ i' = i + 1
    /\ \E full \in Fulls :
        /\ Full(full)
        /\ \/ /\ FirstFree < MaxProcesses /\ spawned < MaxSpawns
              /\ LET s  == FirstFree
                     p  == spawned + 1
                     n  == Lowest(fds)
                     tb == [slot EXCEPT ![s] =
                              [Started(Kinds[i]) EXCEPT !.pid = p, !.fd = n]]
                     f  == [fds EXCEPT ![n] = p]
                     l  == IF s = last THEN last + 1 ELSE last
                     \* the parent notes the pid after the fork
                     ps == [proc EXCEPT ![p] =
                              Forked([slot EXCEPT ![s].fd = n], f, s, p, Kinds[i])]
                 IN  /\ slot' = tb /\ fds' = f /\ last' = l /\ pslot' = s
                     /\ proc' = ngx_pass_open_channel(tb, f, ps, l, s, full)
              /\ spawned' = spawned + 1
              /\ UNCHANGED <<fails, failed>>
           \/ \E how \in Failures :
              /\ IF FirstFree = MaxProcesses
                 THEN how = "socketpair" /\ UNCHANGED <<spawned, fails>>
                 ELSE Fails(how)
              /\ LET tb == FailedIn(slot, fds, FirstFree, how)
                     s  == IF how = "fork" THEN FirstFree ELSE pslot
                 IN  /\ slot' = tb /\ pslot' = s
                     /\ proc' = ngx_pass_open_channel(tb, fds, proc, last, s, full)
              /\ failed' = TRUE
              /\ UNCHANGED <<fds, last>>
    /\ UNCHANGED <<pc, reap, reloading, shutdown, reloads, deaths, stale>>

-----------------------------------------------------------------------------
(* ngx_signal_worker_processes: the command goes to the channel of each    *)
(* child that is meant; where that fails the signal is sent instead.       *)
Meant(s, sig) ==
    /\ s < last /\ slot[s].pid # NoPid /\ ~slot[s].just
    /\ ~(slot[s].exiting /\ sig = "QUIT")

\* Mutant: a command that does not fit into the channel is taken as sent.
WrittenFull(s, full) == Channel(slot, fds, s) # Closed

Written(s, full) == Channel(slot, fds, s) \notin full \cup {Closed}

ngx_signal_worker_processes(sig, full) ==
    LET meant   == {s \in Slots : Meant(s, sig)}
        written == {s \in meant : Written(s, full)}
        \* kill() fails for a child that was waited for
        gone    == {s \in meant \ written : proc[slot[s].pid].st = "gone"}
        killed  == {slot[s].pid : s \in meant \ (written \cup gone)}
        ps      == ngx_write_channel(slot, fds, proc, written,
                                     [cmd |-> sig], full)
    IN  /\ slot' = [s \in Slots |->
                      IF s \in gone
                      THEN [slot[s] EXCEPT !.exited = TRUE, !.exiting = FALSE]
                      ELSE IF s \in meant THEN [slot[s] EXCEPT !.exiting = TRUE]
                      ELSE IF s < last THEN [slot[s] EXCEPT !.just = FALSE]
                      ELSE slot[s]]
        /\ proc' = [p \in Procs |->
                      IF p \in killed THEN [ps[p] EXCEPT !.told = TRUE] ELSE ps[p]]
        /\ reap' = (reap \/ gone # {})
        /\ pc' = "idle" /\ i' = 0

(* After the children of a reload the others are told to quit.             *)
StartsDone ==
    /\ pc = "start" /\ i > Len(Kinds)
    /\ reloading' = FALSE
    /\ IF reloading
       THEN \E full \in Fulls :
                Full(full) /\ ngx_signal_worker_processes("QUIT", full)
       ELSE pc' = "idle" /\ i' = 0 /\ UNCHANGED <<slot, reap, proc, lost>>
    /\ UNCHANGED <<last, pslot, fds, shutdown, spawned, reloads, deaths, fails,
                   failed, stale>>

Reload ==
    /\ pc = "idle" /\ shutdown = "none" /\ reloads < MaxReloads
    /\ reloads' = reloads + 1
    /\ pc' = "start" /\ i' = 1 /\ reloading' = TRUE
    /\ UNCHANGED <<slot, last, pslot, fds, reap, shutdown, proc, spawned, deaths,
                   fails, lost, failed, stale>>

(* A graceful or a quick shutdown.                                         *)
Shutdown(sig) ==
    /\ pc = "idle" /\ shutdown = "none"
    /\ shutdown' = sig
    /\ \E full \in Fulls :
        Full(full) /\ ngx_signal_worker_processes(sig, full)
    /\ UNCHANGED <<last, pslot, fds, reloading, spawned, reloads, deaths, fails,
                   failed, stale>>

-----------------------------------------------------------------------------
(* ngx_reap_children goes on with the first slot from k on that is marked  *)
(* as exited, or ends.                                                     *)
ReapFrom(k) ==
    LET rest == {s \in Slots : /\ k <= s /\ s < last'
                               /\ slot'[s].pid # NoPid /\ slot'[s].exited}
    IN  IF rest = {} THEN pc' = "idle" /\ i' = 0 ELSE pc' = "reap" /\ i' = Min(rest)

(* SIGCHLD: all the dead are waited for, and ngx_reap_children begins.  If *)
(* kill() has asked for it, it begins with whatever signal comes next.     *)
Wait ==
    LET dead == {p \in Procs : proc[p].st = "dead"}
    IN  /\ pc = "idle" /\ (dead # {} \/ reap)
        /\ reap' = FALSE
        /\ proc' = [p \in Procs |->
                      IF p \in dead THEN [NoProc EXCEPT !.st = "gone"]
                      ELSE proc[p]]
        /\ slot' = [s \in Slots |->
                      IF s < last /\ slot[s].pid \in dead
                      THEN [slot[s] EXCEPT !.exited = TRUE] ELSE slot[s]]
        /\ UNCHANGED <<last, pslot, fds, reloading, shutdown, bounds, failed, stale>>
        /\ ReapFrom(0)

\* Mutant: the numbers of the channel are kept.
ForgetKeeps(tb, s) == tb

\* The table after the channel of slot s was closed.
Forget(tb, s) == [tb EXCEPT ![s].fd = NoFd]

(* ngx_reap_children at slot i.  The channel of a child that is gone is    *)
(* closed, here and, by a command, in the others; the child is respawned   *)
(* or its slot freed.                                                      *)
ReapSlot ==
    /\ pc = "reap"
    /\ \E full \in Fulls :
        LET f  == IF slot[i].fd = NoFd THEN fds ELSE [fds EXCEPT ![slot[i].fd] = Closed]
            tb == Forget(slot, i)
            ps == ngx_write_channel(tb, f, proc,
                     {s \in Slots : s < last /\ ~tb[s].exited /\ tb[s].pid # NoPid},
                     [cmd |-> "CLOSE", slot |-> i], full)
            p  == spawned + 1
            n  == Lowest(f)
        IN
        /\ Full(full)
        /\ \/ /\ slot[i].respawn /\ ~slot[i].exiting /\ shutdown = "none"
              /\ \/ /\ spawned < MaxSpawns
                    /\ LET tb2 == [tb EXCEPT ![i].pid = p, ![i].fd = n,
                                             ![i].exited = FALSE]
                           f2  == [f EXCEPT ![n] = p]
                           ps2 == [ps EXCEPT ![p] =
                                     Forked([tb EXCEPT ![i].fd = n], f2, i, p, "worker")]
                       IN  /\ slot' = tb2 /\ fds' = f2 /\ pslot' = i
                           /\ proc' = ngx_pass_open_channel(tb2, f2, ps2, last, i, full)
                    /\ spawned' = p
                    /\ UNCHANGED <<fails, failed, stale>>
                 \/ \E how \in Failures :
                    /\ Fails(how)
                    /\ slot' = FailedIn(tb, f, i, how)
                    /\ pslot' = IF how = "fork" THEN i ELSE pslot
                    /\ fds' = f /\ proc' = ps
                    /\ failed' = TRUE
                    /\ stale' = (stale \/ how # "socketpair")
              /\ UNCHANGED last
           \/ /\ ~(slot[i].respawn /\ ~slot[i].exiting /\ shutdown = "none")
              /\ IF i = last - 1
                 THEN last' = last - 1 /\ slot' = tb
                 ELSE slot' = [tb EXCEPT ![i].pid = NoPid] /\ UNCHANGED last
              /\ fds' = f /\ proc' = ps
              /\ UNCHANGED <<pslot, spawned, fails, failed, stale>>
    /\ UNCHANGED <<reap, reloading, shutdown, reloads, deaths>>
    /\ ReapFrom(i + 1)

-----------------------------------------------------------------------------
(* The children.                                                           *)

\* A message without a descriptor leaves the caller's buffer as it was: it
\* is an error, or the number of whatever was received before.
Bare(c, s) ==
    {[c EXCEPT !.reads = FALSE, !.inbox = <<>>]}
        \cup {[c EXCEPT !.table[s] = n] : n \in Fds}

\* Mutant: the descriptor is not closed.
CloseChannelLeaks(c, s) == [c EXCEPT !.table[s] = NoFd]

\* A slot whose channel was never announced holds -1, or the 0 it started
\* with: closing that closes no channel.
CloseChannel(c, s) ==
    IF c.table[s] = NoFd THEN c
    ELSE [c EXCEPT !.table[s] = NoFd, !.fds[c.table[s]] = Closed]

(* One message of ngx_channel_handler.                                     *)
Handled(c, m) ==
    CASE m.cmd \in {"QUIT", "TERM"} -> {[c EXCEPT !.told = TRUE]}
      [] m.cmd = "OPEN" ->
            LET n == Lowest(c.fds)
            IN  {[c EXCEPT !.table[m.slot] = n, !.fds[n] = m.chan]}
      [] m.cmd = "CLOSE" -> {CloseChannel(c, m.slot)}
      [] m.cmd = "BARE" -> Bare(c, m.slot)

ngx_channel_handler(p) ==
    /\ proc[p].st = "run" /\ proc[p].reads /\ proc[p].inbox # <<>>
    /\ \E c \in Handled([proc[p] EXCEPT !.inbox = Tail(@)], Head(proc[p].inbox)) :
        proc' = [proc EXCEPT ![p] = c]
    /\ UNCHANGED <<mvars, bounds, failed, stale>>

(* It leaves when told to; a loader also when its work is done, and a      *)
(* worker may die.                                                         *)
Leaves(p) ==
    /\ proc[p].st = "run"
    /\ proc' = [proc EXCEPT ![p] = [NoProc EXCEPT !.st = "dead"]]
    /\ deaths' = IF proc[p].told \/ proc[p].kind = "loader"
                 THEN deaths ELSE deaths + 1
    /\ deaths' <= MaxDeaths
    /\ UNCHANGED <<mvars, spawned, reloads, fails, lost, failed, stale>>

Master == StartOne \/ StartsDone \/ Wait \/ ReapSlot

Next ==
    \/ Master
    \/ Reload
    \/ \E sig \in {"QUIT", "TERM"} : Shutdown(sig)
    \/ \E p \in Procs : ngx_channel_handler(p) \/ Leaves(p)

Spec == Init /\ [][Next]_vars

(* The master and the children go on with what they have to do, and a      *)
(* child that was told to leave does.                                      *)
FairSpec ==
    /\ Spec
    /\ WF_vars(Master)
    /\ \A p \in Procs :
        /\ WF_vars(ngx_channel_handler(p))
        /\ WF_vars(proc[p].told /\ Leaves(p))

-----------------------------------------------------------------------------
Runs(p) == proc[p].st = "run"

\* The channel behind slot s in the table of child p.
Peer(p, s) ==
    IF proc[p].table[s] = NoFd THEN Closed ELSE proc[p].fds[proc[p].table[s]]

(* A child that has read all its commands, and missed none, has the peers  *)
(* the master has, and no other descriptor of a channel, however children  *)
(* are started, replaced and reaped, and slots and numbers used again, as  *)
(* long as no spawn fails (which makes the master announce a channel a     *)
(* second time, or keep a number it has closed).                           *)
PeersAgree ==
    ~failed =>
        \A p \in Procs : Runs(p) /\ proc[p].inbox = <<>> /\ ~proc[p].missed =>
            /\ \A s \in Slots \ {proc[p].own} :
                Peer(p, s) = IF s < last THEN Channel(slot, fds, s) ELSE Closed
            /\ \A n \in Fds : proc[p].fds[n] # Closed =>
                \E s \in Slots : proc[p].table[s] = n

\* The master has marked child p as told to leave.
Marked(p) == \E s \in Slots : s < last /\ slot[s].pid = p /\ slot[s].exiting

(* A child is told to leave, through its channel or by a signal, only      *)
(* if the master means that child: no command goes to the channel of       *)
(* another, unless a failed respawn left its numbers behind.               *)
RightChild ==
    ~stale => \A p \in Procs :
        Runs(p) /\ (\/ proc[p].told
                    \/ \E k \in DOMAIN proc[p].inbox :
                        proc[p].inbox[k].cmd \in {"QUIT", "TERM"})
        => Marked(p)

(* A child that is marked leaves, though its channel be full: the mark,    *)
(* which keeps it from being told again, is never set in vain, unless the  *)
(* child has closed its channel after a message without a descriptor.      *)
MarkedLeave ==
    \A p \in Procs :
        (Runs(p) /\ Marked(p)) ~> (~Runs(p) \/ ~proc[p].reads \/ stale)

=============================================================================
