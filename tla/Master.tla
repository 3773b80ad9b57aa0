------------------------------- MODULE Master -------------------------------
(***************************************************************************)
(* The master process and its children: ngx_master_process_cycle and the   *)
(* process table of src/os/unix/ngx_process_cycle.c and ngx_process.c, the *)
(* start of the children (workers, cache loader, Tengine's "processes"),   *)
(* the signal handler, reaping and respawning, reload, graceful and quick  *)
(* shutdown, and the upgrade to a new binary.                              *)
(*                                                                         *)
(* Signals are blocked outside sigsuspend(), so the handlers run only      *)
(* there; a signal sent earlier is pending, and two of the same number are *)
(* one.  The rest of an iteration is a sequence of steps, one per pc, that *)
(* interleave with the children.  A loop over the slots that can fork is   *)
(* one step per slot; one that cannot is a single step.                    *)
(*                                                                         *)
(* A command written to a child's channel and a signal sent to it have the *)
(* same effect on the child (ngx_channel_handler, ngx_signal_handler), and *)
(* the master uses the second when the first fails, so both are "cmd".     *)
(* That commands do arrive is the subject of Channels.                     *)
(***************************************************************************)
EXTENDS Integers, Sequences, FiniteSets

CONSTANTS Pids,          \* pids the system may hand out
          NoPid,         \* -1
          MaxProcesses,  \* NGX_MAX_PROCESSES
          Kinds,         \* what is started, in order: a sequence of Kind
          Admin,         \* signals the administrator may send
          MaxSignals,    \* bound on the signals the administrator sends
          MaxForkFails,  \* bound on failing spawns
          MaxDeaths      \* bound on children that die on their own

Kind == {"worker", "loader", "proc_off"}
AdminSignals == {"QUIT", "TERM", "HUP", "USR1", "USR2", "WINCH"}

NoBinary == "none"
FailedBinary == "failed"

ASSUME MasterAssumption ==
    /\ NoPid \notin Pids
    /\ NoBinary \notin Pids
    /\ FailedBinary \notin Pids
    /\ MaxProcesses \in Nat \ {0}
    /\ Kinds \in Seq(Kind) /\ Len(Kinds) > 0
    /\ Admin \subseteq AdminSignals
    /\ MaxSignals \in Nat
    /\ MaxForkFails \in Nat
    /\ MaxDeaths \in Nat

VARIABLES pc,        \* position in the master's loop
          flag,      \* the ngx_* flags that are set (ngx_reap, ngx_quit, ...)
          slot,      \* ngx_processes
          last,      \* ngx_last_process
          newbin,    \* ngx_new_binary: NoBinary, FailedBinary (-1) or a pid
          live,      \* live
          delay,     \* delay, in ms
          sigio,     \* sigio
          timer,     \* the interval timer is armed
          gen,       \* number of the configuration in force
          i,         \* loop index: slot being reaped, or child being started
          start,     \* how and then where: the ngx_start_* calls in progress
          pend,      \* signals pending for the master
          os,        \* the children as the kernel sees them
          sent, forkFails, deaths,   \* what the bounds count
          retired    \* history: a HUP was answered by the new-binary branch

mvars == <<pc, flag, slot, last, newbin, live, delay, sigio, timer, gen, i, start>>
bounds == <<sent, forkFails, deaths>>
vars == <<mvars, pend, os, bounds, retired>>

Slots == 0..(MaxProcesses - 1)

(* A child is absent, running, draining (a worker that finishes its        *)
(* connections after QUIT), or a zombie; "fatal" is a zombie with exit     *)
(* code 2.                                                                 *)
Running == {"run", "drain"}
Zombie  == {"zombie", "fatal"}
Proc == [st : {"none"} \cup Running \cup Zombie,
         kind : Kind \cup {"binary"}, cmd : SUBSET {"QUIT", "TERM"}]
NoProc == [st |-> "none", kind |-> "worker", cmd |-> {}]

Slot == [pid : Pids \cup {NoPid}, exiting : BOOLEAN, exited : BOOLEAN,
         detached : BOOLEAN, respawn : BOOLEAN, just : BOOLEAN,
         kind : Kind \cup {"binary"}, gen : Nat]
FreeSlot == [pid |-> NoPid, exiting |-> FALSE, exited |-> FALSE,
             detached |-> FALSE, respawn |-> FALSE, just |-> FALSE,
             kind |-> "worker", gen |-> 0]

Flags == {"reap", "quit", "terminate", "reconfigure", "restart", "reopen",
          "change_binary", "noaccept", "noaccepting", "alrm"}

\* Nothing is running: the start of ngx_master_process_cycle.
Init ==
    /\ pc = "start"
    /\ flag = {}
    /\ slot = [s \in Slots |-> FreeSlot]
    /\ last = 0
    /\ newbin = NoBinary
    /\ live = TRUE
    /\ delay = 0
    /\ sigio = 0
    /\ timer = FALSE
    /\ gen = 0
    /\ i = 1
    /\ start = [reload |-> FALSE, then |-> "top"]
    /\ pend = {}
    /\ os = [p \in Pids |-> NoProc]
    /\ sent = 0
    /\ forkFails = 0
    /\ deaths = 0
    /\ retired = FALSE

-----------------------------------------------------------------------------
(* ngx_spawn_process *)

\* The system does not reuse a pid the process table still holds.
FreePids == {p \in Pids : os[p].st = "none" /\ \A s \in Slots : s < last => slot[s].pid # p}

\* The slot a new child gets: the first hole, or the end of the table.
IsFreeSlot(s) ==
    /\ s \in 0..last
    /\ s < last => slot[s].pid = NoPid
    /\ \A t \in 0..(s - 1) : slot[t].pid # NoPid

(* socketpair(), fcntl() or fork() failed, or there is no pid left.        *)
ForkFails ==
    /\ \/ FreePids = {} /\ UNCHANGED forkFails
       \/ forkFails < MaxForkFails /\ forkFails' = forkFails + 1
    /\ UNCHANGED <<slot, last, os>>

\* The table is full.
NoSlotLeft == IsFreeSlot(MaxProcesses) /\ UNCHANGED <<slot, last, os, forkFails>>

NotSpawned == ForkFails \/ NoSlotLeft

Born(k) == [NoProc EXCEPT !.st = "run", !.kind = k]

\* A child in a new slot; the record c holds the type of the spawn.
SpawnedAs(p, c) ==
    \E s \in Slots :
        /\ IsFreeSlot(s)
        /\ slot' = [slot EXCEPT ![s] = [c EXCEPT !.pid = p]]
        /\ os' = [os EXCEPT ![p] = Born(c.kind)]
        /\ last' = IF s = last THEN last + 1 ELSE last
        /\ UNCHANGED forkFails

\* A child in the slot of the one that died: flags and type are kept.
SpawnAgain(s) ==
    \/ \E p \in FreePids :
          /\ slot' = [slot EXCEPT ![s].pid = p, ![s].exited = FALSE, ![s].gen = gen]
          /\ os' = [os EXCEPT ![p] = Born(slot[s].kind)]
          /\ live' = TRUE
          /\ UNCHANGED <<last, forkFails>>
    \/ ForkFails /\ UNCHANGED live

\* Mutant: every child is marked just_spawn, not only those of a reload.
StartRecord_AlwaysJust(k, reload) ==
    [FreeSlot EXCEPT !.kind = k, !.gen = gen, !.just = TRUE,
                     !.respawn = (k = "worker" \/ (k = "proc_off" /\ reload))]

(* The type with which ngx_start_worker_processes,                         *)
(* ngx_start_cache_manager_processes and ngx_procs_start spawn a child:    *)
(* on a reload every child is "just" spawned, and ngx_procs_start makes    *)
(* even a process with "respawn off" a respawning one.                     *)
StartRecord(k, reload) ==
    [FreeSlot EXCEPT !.kind = k, !.gen = gen, !.just = reload,
                     !.respawn = (k = "worker" \/ (k = "proc_off" /\ reload))]

(* The parts of the loop that a flag asks for, in their order, and where   *)
(* the loop goes from part n on when the flags are f.                      *)
Parts == <<"reconfigure", "restart", "reopen", "change_binary", "noaccept">>
From(n, f) ==
    LET due == {m \in n..5 : Parts[m] \in f}
    IN  IF due = {} THEN "top" ELSE Parts[CHOOSE m \in due : \A k \in due : m <= k]

\* One turn of the start of the children; after the last the loop goes on.
StartOne ==
    /\ pc = "start"
    /\ \/ \E p \in FreePids : SpawnedAs(p, StartRecord(Kinds[i], start.reload))
       \/ NotSpawned
    /\ IF i < Len(Kinds) THEN i' = i + 1 /\ UNCHANGED pc
       ELSE /\ i' = 1
            /\ pc' = IF start.then = "restarted" THEN From(3, flag) ELSE start.then
    /\ UNCHANGED <<flag, newbin, live, delay, sigio, timer, gen, start,
                   pend, sent, deaths, retired>>

-----------------------------------------------------------------------------
(* ngx_signal_worker_processes *)

\* The children the loop does not skip.
Addressed(c, sig) == /\ ~c.detached
                     /\ c.pid # NoPid
                     /\ ~c.just
                     /\ ~(c.exiting /\ sig = "QUIT")

\* kill() of a child already waited for gives ESRCH: exiting is cleared.
SignalSlot(c, sig) ==
    [c EXCEPT !.just = @ /\ (c.detached \/ c.pid = NoPid),
              !.exiting = IF Addressed(c, sig)
                          THEN ~c.exited /\ (@ \/ sig # "USR1")
                          ELSE @]

Deliver(o, sig) ==
    IF o.st \notin Running THEN o
    ELSE CASE sig = "KILL" -> [o EXCEPT !.st = "zombie"]
           [] sig = "USR1" -> o
           [] OTHER        -> [o EXCEPT !.cmd = @ \cup {sig}]

\* f: the flags the caller has left set.
SignalWorkers(sig, f) ==
    LET used == {s \in Slots : s < last /\ Addressed(slot[s], sig)}
        hit  == {slot[s].pid : s \in {t \in used : ~slot[t].exited}}
    IN  /\ slot' = [s \in Slots |-> IF s < last THEN SignalSlot(slot[s], sig)
                                                ELSE slot[s]]
        /\ os' = [p \in Pids |-> IF p \in hit THEN Deliver(os[p], sig) ELSE os[p]]
        /\ flag' = f \cup (IF \E s \in used : slot[s].exited THEN {"reap"} ELSE {})
        /\ pend' = pend \cup (IF \E p \in hit : os'[p].st # os[p].st THEN {"CHLD"} ELSE {})

-----------------------------------------------------------------------------
(* ngx_master_process_cycle, one action per part of the loop *)

\* Mutant: the delay is not doubled when the timer fires.
LoopTop_SameDelay ==
    /\ pc = "top"
    /\ pc' = "suspend"
    /\ IF delay = 0
       THEN UNCHANGED <<flag, sigio, timer>>
       ELSE /\ timer' = TRUE
            /\ sigio' = IF "alrm" \in flag THEN 0 ELSE sigio
            /\ flag' = flag \ {"alrm"}
    /\ UNCHANGED <<slot, last, newbin, live, delay, gen, i, start, pend, os, bounds, retired>>

(* The termination timer is set again; it fires later, if not set anew.    *)
(* The delay is only ever compared with 1000, so it is doubled up to the   *)
(* first value above that.                                                 *)
LoopTop ==
    /\ pc = "top"
    /\ pc' = "suspend"
    /\ IF delay = 0
       THEN UNCHANGED <<flag, delay, sigio, timer>>
       ELSE /\ timer' = TRUE
            /\ IF "alrm" \in flag
               THEN /\ sigio' = 0
                    /\ delay' = IF delay > 1000 THEN delay ELSE delay * 2
                    /\ flag' = flag \ {"alrm"}
               ELSE UNCHANGED <<flag, delay, sigio>>
    /\ UNCHANGED <<slot, last, newbin, live, gen, i, start, pend, os, bounds, retired>>

\* ngx_signal_handler for every pending signal.
Raised(sig) ==
    CASE sig = "QUIT"  -> {"quit"}
      [] sig = "TERM"  -> {"terminate"}
      [] sig = "HUP"   -> {"reconfigure"}
      [] sig = "USR1"  -> {"reopen"}
      [] sig = "USR2"  -> IF newbin \in Pids THEN {} ELSE {"change_binary"}
      [] sig = "WINCH" -> {"noaccept"}
      [] sig = "ALRM"  -> {"alrm"}
      [] sig = "CHLD"  -> {"reap"}

\* Mutant: the slot of a child that was waited for is not marked.
Waited_NotMarked(c) ==
    IF c.pid \in Pids /\ ~c.exited /\ os[c.pid].st \in Zombie
    THEN [c EXCEPT !.respawn = @ /\ os[c.pid].st # "fatal"] ELSE c

\* Mutant: any exit, not only exit code 2, forbids a respawn.
Waited_NeverRespawn(c) ==
    IF c.pid \in Pids /\ ~c.exited /\ os[c.pid].st \in Zombie
    THEN [c EXCEPT !.exited = TRUE, !.respawn = FALSE] ELSE c

(* ngx_process_get_status, called by the handler of SIGCHLD: every zombie  *)
(* is waited for and its slot marked; exit code 2 forbids a respawn.       *)
Waited(c) ==
    IF c.pid \in Pids /\ ~c.exited /\ os[c.pid].st \in Zombie
    THEN [c EXCEPT !.exited = TRUE, !.respawn = @ /\ os[c.pid].st # "fatal"]
    ELSE c

(* sigsuspend() and the handlers, then: if (ngx_reap) reap the children.   *)
Suspend ==
    /\ pc = "suspend"
    /\ pend # {}
    /\ LET f == flag \cup UNION {Raised(sig) : sig \in pend}
       IN  /\ flag' = f \ {"reap"}
           /\ IF "reap" \in f
              THEN live' = FALSE /\ i' = 0 /\ pc' = IF last > 0 THEN "reap" ELSE "dispatch"
              ELSE pc' = "dispatch" /\ UNCHANGED <<live, i>>
    /\ pend' = {}
    /\ IF "CHLD" \in pend
       THEN /\ slot' = [s \in Slots |-> IF s < last THEN Waited(slot[s]) ELSE slot[s]]
            /\ os' = [p \in Pids |-> IF os[p].st \in Zombie THEN NoProc ELSE os[p]]
       ELSE UNCHANGED <<slot, os>>
    /\ UNCHANGED <<last, newbin, delay, sigio, timer, gen, start, bounds, retired>>

\* Mutant: the old workers are not started again.
EndUpgrade_NoRestart(c) ==
    /\ newbin' = IF c.pid = newbin THEN NoBinary ELSE newbin
    /\ UNCHANGED flag

\* The death of the new binary ends the upgrade; if the old workers had been
\* told to stop accepting, they are started again.
EndUpgrade(c) ==
    IF c.pid = newbin
    THEN /\ newbin' = NoBinary
         /\ flag' = IF "noaccepting" \in flag
                    THEN (flag \ {"noaccepting"}) \cup {"restart"} ELSE flag
    ELSE UNCHANGED <<newbin, flag>>

\* Mutant: the table is shortened whichever slot is freed.
RemoveSlot_Shorten(s) == last' = last - 1 /\ UNCHANGED slot

RemoveSlot(s) ==
    IF s = last - 1 THEN last' = last - 1 /\ UNCHANGED slot
                    ELSE slot' = [slot EXCEPT ![s].pid = NoPid] /\ UNCHANGED last

\* Mutant: a graceful shutdown is forgotten.
ShuttingDown_OnlyTerm == "terminate" \in flag

ShuttingDown == flag \cap {"quit", "terminate"} # {}

\* One turn of the loop of ngx_reap_children.
ReapSlot ==
    /\ pc = "reap"
    /\ LET c == slot[i]
       IN  \/ /\ c.pid = NoPid
              /\ UNCHANGED <<slot, last, newbin, flag, live, os, forkFails>>
           \/ /\ c.pid # NoPid /\ c.exited
              /\ c.respawn /\ ~c.exiting /\ ~ShuttingDown
              /\ SpawnAgain(i)
              /\ UNCHANGED <<newbin, flag>>
           \/ /\ c.pid # NoPid /\ c.exited
              /\ ~(c.respawn /\ ~c.exiting /\ ~ShuttingDown)
              /\ EndUpgrade(c)
              /\ RemoveSlot(i)
              /\ UNCHANGED <<live, os, forkFails>>
           \/ /\ c.pid # NoPid /\ ~c.exited
              /\ live' = (live \/ c.exiting \/ ~c.detached)
              /\ UNCHANGED <<slot, last, newbin, flag, os, forkFails>>
    /\ IF i + 1 < last' THEN i' = i + 1 /\ UNCHANGED pc
                        ELSE i' = 0 /\ pc' = "dispatch"
    /\ UNCHANGED <<delay, sigio, timer, gen, start, pend, sent, deaths, retired>>

Workers == {n \in DOMAIN Kinds : Kinds[n] = "worker"}

(* After the reaping: nothing is left to wait for, the children are told   *)
(* to terminate (killed once the delay has grown past a second), or are    *)
(* told to quit.                                                           *)
Exit ==
    /\ pc = "dispatch" /\ ~live /\ ShuttingDown
    /\ pc' = "exited"
    /\ UNCHANGED <<flag, slot, last, newbin, live, delay, sigio, timer, gen, i, start,
                   pend, os, bounds, retired>>

\* Mutant: the delay is compared in seconds.
Terminate_KillFirst ==
    /\ pc = "dispatch" /\ live /\ "terminate" \in flag
    /\ pc' = "top"
    /\ delay' = IF delay = 0 THEN 50 ELSE delay
    /\ IF sigio > 0
       THEN sigio' = sigio - 1 /\ UNCHANGED <<slot, os, flag, pend>>
       ELSE /\ sigio' = Cardinality(Workers) + 2
            /\ SignalWorkers(IF delay' > 1 THEN "KILL" ELSE "TERM", flag)
    /\ UNCHANGED <<last, newbin, live, timer, gen, i, start, bounds, retired>>

Terminate ==
    /\ pc = "dispatch" /\ live /\ "terminate" \in flag
    /\ pc' = "top"
    /\ delay' = IF delay = 0 THEN 50 ELSE delay
    /\ IF sigio > 0
       THEN sigio' = sigio - 1 /\ UNCHANGED <<slot, os, flag, pend>>
       ELSE /\ sigio' = Cardinality(Workers) + 2
            /\ SignalWorkers(IF delay' > 1000 THEN "KILL" ELSE "TERM", flag)
    /\ UNCHANGED <<last, newbin, live, timer, gen, i, start, bounds, retired>>

Quit ==
    /\ pc = "dispatch" /\ live /\ "quit" \in flag /\ "terminate" \notin flag
    /\ pc' = "top"
    /\ SignalWorkers("QUIT", flag)
    /\ UNCHANGED <<last, newbin, live, delay, sigio, timer, gen, i, start, bounds, retired>>

GoOn ==
    /\ pc = "dispatch" /\ ~ShuttingDown
    /\ pc' = From(1, flag)
    /\ UNCHANGED <<flag, slot, last, newbin, live, delay, sigio, timer, gen, i, start,
                   pend, os, bounds, retired>>

(* SIGHUP.  While a new binary runs (or could not be started: -1 is true)  *)
(* the children of the old configuration are started; the loop goes on     *)
(* without setting live.                                                   *)
ReconfNewBinary ==
    /\ pc = "reconfigure" /\ newbin # NoBinary
    /\ flag' = flag \ {"reconfigure", "noaccepting"}
    /\ start' = [reload |-> FALSE, then |-> "top"]
    /\ pc' = "start"
    /\ i' = 1
    /\ retired' = TRUE
    /\ UNCHANGED <<slot, last, newbin, live, delay, sigio, timer, gen, pend, os, bounds>>

\* ngx_init_cycle rejects the configuration or accepts it.
Reconf ==
    /\ pc = "reconfigure" /\ newbin = NoBinary
    /\ flag' = flag \ {"reconfigure"}
    /\ \/ pc' = "top" /\ UNCHANGED <<gen, start>>
       \/ /\ pc' = "start"
          /\ gen' = gen + 1
          /\ start' = [reload |-> TRUE, then |-> "reloaded"]
    /\ i' = 1
    /\ UNCHANGED <<slot, last, newbin, live, delay, sigio, timer, pend, os, bounds, retired>>

\* Mutant: live is not set after a reload.
Reloaded_NotLive ==
    /\ pc = "reloaded"
    /\ SignalWorkers("QUIT", flag)
    /\ pc' = From(2, flag)
    /\ UNCHANGED <<last, newbin, live, delay, sigio, timer, gen, i, start, bounds, retired>>

Reloaded ==
    /\ pc = "reloaded"
    /\ live' = TRUE
    /\ SignalWorkers("QUIT", flag)
    /\ pc' = From(2, flag)
    /\ UNCHANGED <<last, newbin, delay, sigio, timer, gen, i, start, bounds, retired>>

\* live is set when the children have been started; nothing reads it before.
Restart ==
    /\ pc = "restart"
    /\ flag' = flag \ {"restart"}
    /\ live' = TRUE
    /\ pc' = "start"
    /\ i' = 1
    /\ start' = [reload |-> FALSE, then |-> "restarted"]
    /\ UNCHANGED <<slot, last, newbin, delay, sigio, timer, gen, pend, os, bounds, retired>>

Reopen ==
    /\ pc = "reopen"
    /\ pc' = From(4, flag)
    /\ SignalWorkers("USR1", flag \ {"reopen"})
    /\ UNCHANGED <<last, newbin, live, delay, sigio, timer, gen, i, start, bounds, retired>>

\* SIGUSR2: a detached child; the pid, or -1, is kept.
ChangeBinary ==
    /\ pc = "change_binary"
    /\ pc' = From(5, flag)
    /\ flag' = flag \ {"change_binary"}
    /\ \/ \E p \in FreePids :
             /\ SpawnedAs(p, [FreeSlot EXCEPT !.kind = "binary", !.detached = TRUE, !.gen = gen])
             /\ newbin' = p
       \/ NotSpawned /\ newbin' = FailedBinary
    /\ UNCHANGED <<live, delay, sigio, timer, gen, i, start, pend, sent, deaths, retired>>

\* SIGWINCH
NoAccept ==
    /\ pc = "noaccept"
    /\ pc' = "top"
    /\ SignalWorkers("QUIT", (flag \ {"noaccept"}) \cup {"noaccepting"})
    /\ UNCHANGED <<last, newbin, live, delay, sigio, timer, gen, i, start, bounds, retired>>

MasterStep ==
    \/ StartOne \/ LoopTop \/ Suspend \/ ReapSlot \/ Exit \/ Terminate \/ Quit \/ GoOn
    \/ ReconfNewBinary \/ Reconf \/ Reloaded \/ Restart \/ Reopen \/ ChangeBinary \/ NoAccept

-----------------------------------------------------------------------------
(* The children, the timer and the administrator *)

\* A child leaves in state z; the kernel tells the master.
Dies(p, z) ==
    /\ os' = [os EXCEPT ![p].st = z]
    /\ pend' = pend \cup {"CHLD"}

\* ngx_terminate or ngx_quit as the child's loop finds them.
Obey(p) ==
    /\ os[p].st \in Running
    /\ \/ "TERM" \in os[p].cmd /\ Dies(p, "zombie")
       \/ /\ os[p].cmd = {"QUIT"} /\ os[p].st = "run"
          /\ os' = [os EXCEPT ![p].st = "drain"]
          /\ UNCHANGED pend
    /\ UNCHANGED <<mvars, bounds, retired>>

\* No connection is left: ngx_worker_process_exit.
Drained(p) ==
    /\ os[p].st = "drain"
    /\ Dies(p, "zombie")
    /\ UNCHANGED <<mvars, bounds, retired>>

\* The cache loader has done its work.
LoaderDone(p) ==
    /\ os[p].st = "run" /\ os[p].kind = "loader"
    /\ Dies(p, "zombie")
    /\ UNCHANGED <<mvars, bounds, retired>>

\* A child dies: a signal or exit code that allows a respawn, or exit code 2.
Crash(p) ==
    /\ deaths < MaxDeaths
    /\ deaths' = deaths + 1
    /\ os[p].st \in Running
    /\ \E z \in Zombie : Dies(p, z)
    /\ UNCHANGED <<mvars, sent, forkFails, retired>>

TimerFires ==
    /\ timer
    /\ timer' = FALSE
    /\ pend' = pend \cup {"ALRM"}
    /\ UNCHANGED <<pc, flag, slot, last, newbin, live, delay, sigio, gen, i, start,
                   os, bounds, retired>>

(* A signal is blocked, and stays pending, until the master sleeps: one    *)
(* sent while it is busy has the effect of one sent when it goes to sleep. *)
SendSignal(sig) ==
    /\ sent < MaxSignals
    /\ pc = "suspend"
    /\ sent' = sent + 1
    /\ pend' = pend \cup {sig}
    /\ UNCHANGED <<mvars, os, forkFails, deaths, retired>>

ChildStep == \E p \in Pids : Obey(p) \/ Drained(p) \/ LoaderDone(p) \/ Crash(p)

Next ==
    \/ MasterStep
    \/ ChildStep
    \/ TimerFires
    \/ \E sig \in Admin : SendSignal(sig)

Spec == Init /\ [][Next]_vars

(* The master's own code runs, the armed timer fires.  Nothing is assumed  *)
(* of the children: they may hang.                                         *)
FairSpec == Spec /\ WF_vars(MasterStep) /\ WF_vars(TimerFires)

\* Children that answer what they are told and finish their connections.
ChildrenAnswer == \A p \in Pids : WF_vars(Obey(p)) /\ WF_vars(Drained(p))

-----------------------------------------------------------------------------
(* Properties *)

\* Type invariant of the master's state and of the process table.
TypeOK ==
    /\ pc \in {"start", "top", "suspend", "reap", "dispatch", "reconfigure", "reloaded",
               "restart", "reopen", "change_binary", "noaccept", "exited"}
    /\ flag \subseteq Flags
    /\ slot \in [Slots -> Slot]
    /\ last \in 0..MaxProcesses
    /\ newbin \in Pids \cup {NoBinary, FailedBinary}
    /\ live \in BOOLEAN
    /\ delay \in Nat
    /\ sigio \in Nat
    /\ timer \in BOOLEAN
    /\ gen \in Nat
    /\ i \in Nat
    /\ start \in [reload : BOOLEAN, then : {"top", "reloaded", "restarted"}]
    /\ pend \subseteq Admin \cup {"CHLD", "ALRM"}
    /\ os \in [Pids -> Proc]
    /\ sent \in Nat /\ forkFails \in Nat /\ deaths \in Nat
    /\ retired \in BOOLEAN

\* Slot s is in use and holds pid p.
Holds(s, p) == s < last /\ slot[s].pid = p

(* The table and the kernel agree whatever is started, dies, is reaped or  *)
(* fails to be forked: every child that exists, zombies included, is in    *)
(* exactly one slot, and that slot is not marked as waited for.  A child   *)
(* missing from ngx_processes would never be signalled nor reaped.         *)
ChildrenTracked ==
    \A p \in Pids : os[p].st # "none" =>
        /\ \E s \in Slots : Holds(s, p) /\ ~slot[s].exited
        /\ \A s, t \in Slots : Holds(s, p) /\ Holds(t, p) => s = t

(* A slot that is in use and not marked as exited names an existing child: *)
(* the master never signals a pid it has already waited for, except the    *)
(* one of a slot whose respawn failed.                                     *)
SlotsNameChildren ==
    \A s \in Slots :
        s < last /\ slot[s].pid # NoPid /\ ~slot[s].exited => os[slot[s].pid].st # "none"

(* Whenever the master sleeps after a successful reload, every child of an *)
(* older configuration that still runs has been told to quit: the          *)
(* just_spawn mark spares the new children and no others.                  *)
ReloadRetiresOld ==
    pc = "suspend" =>
        \A s \in Slots :
            /\ s < last /\ slot[s].pid # NoPid /\ ~slot[s].exited /\ ~slot[s].detached
            /\ slot[s].gen < gen
            => slot[s].exiting

\* The children the master is responsible for that still run.
Left == {p \in Pids : os[p].st \in Running /\ os[p].kind # "binary"}

(* The master leaves only when all its children have: "live", computed by  *)
(* the last reaping, has not gone stale.  The SIGHUP that starts workers   *)
(* while a new binary is known does not set live, and is excluded here     *)
(* (see ShutdownLeavesNoChild).                                            *)
NoOrphans == pc = "exited" /\ ~retired => Left = {}

(* A child is killed only after it has been asked to leave: the KILL round *)
(* of a quick shutdown never comes first.                                  *)
KillIsLast ==
    [][pc = "dispatch" /\ pc' = "top" =>
         \A s \in Slots :
            /\ s < last /\ slot[s].pid \in Pids
            /\ os[slot[s].pid].st \in Running /\ os'[slot[s].pid].st \in Zombie
            => slot[s].exiting]_vars

(* A child that was told to leave is not started again in its slot, and    *)
(* once a shutdown has begun no child is started at all.                   *)
NoRespawnAfterQuit ==
    [][\A s \in Slots :
         /\ s < last /\ s < last' /\ slot[s].exited
         /\ slot[s].pid # NoPid /\ slot'[s].pid \in Pids /\ slot'[s].pid # slot[s].pid
         => ~slot[s].exiting /\ flag \cap {"quit", "terminate"} = {}]_vars

(* The master sleeps with an empty table, a new binary apart, and without  *)
(* a SIGCHLD to come, but with live set: all the forks of a start have     *)
(* failed, and no reaping will find that nothing is left.                  *)
Childless ==
    /\ pc = "suspend" /\ live
    /\ \A s \in Slots : s < last => slot[s].pid = NoPid \/ slot[s].detached
    /\ \A p \in Pids : os[p].st \notin Zombie
    /\ "CHLD" \notin pend /\ "reap" \notin flag

(* A quick shutdown ends, even if every child hangs: the timer, the        *)
(* doubling delay and SIGKILL see to it.  Only a master that got no child  *)
(* at all stays.                                                           *)
TerminateEnds == "terminate" \in flag ~> (pc = "exited" \/ Childless)

(* A graceful shutdown ends once the children finish their connections,    *)
(* with the same exception.                                                *)
QuitEnds == ChildrenAnswer => ("quit" \in flag ~> (pc = "exited" \/ Childless))

InUse(s) == s < last /\ slot[s].pid \in Pids

(* A child that died and may be respawned is replaced by a running one in  *)
(* its slot, unless it is told to leave meanwhile or the fork fails.       *)
Respawned ==
    \A s \in Slots :
        (/\ InUse(s) /\ slot[s].respawn /\ ~slot[s].exiting
         /\ (slot[s].exited \/ os[slot[s].pid].st = "zombie"))
        ~> (\/ InUse(s) /\ os[slot[s].pid].st \in Running
            \/ slot[s].exiting \/ ShuttingDown \/ forkFails > 0)

(* An upgrade that fails after the old workers were told to stop is undone: *)
(* when the new binary dies, workers are started again, unless forks fail. *)
UpgradeUndone ==
    (newbin \in Pids /\ os[newbin].st \in Zombie /\ "noaccepting" \in flag)
        ~> ((\E s \in Slots : /\ InUse(s) /\ ~slot[s].exited /\ ~slot[s].exiting
                              /\ slot[s].kind = "worker")
            \/ ShuttingDown \/ forkFails > 0)

(* What nginx.8 says of SIGQUIT and SIGTERM, without the exception of      *)
(* NoOrphans: after the shutdown no child is left.                         *)
ShutdownLeavesNoChild == pc = "exited" => Left = {}

(* What nginx.8 says of SIGHUP: the old workers are shut down when new     *)
(* ones are started, so with no upgrade in progress there is never more    *)
(* than one set of workers that go on.                                     *)
OneWorkerSet ==
    pc = "suspend" /\ newbin \notin Pids =>
        Cardinality({s \in Slots : /\ s < last /\ slot[s].pid # NoPid /\ ~slot[s].exited
                                   /\ slot[s].kind = "worker" /\ ~slot[s].exiting})
            <= Cardinality(Workers)

(* What ngx_procs_module.md says of "respawn off": the process is not      *)
(* started again when it exits.                                            *)
RespawnOffStaysDown ==
    [][\A s \in Slots :
         s < last /\ s < last' /\ slot[s].kind = "proc_off" /\ slot[s].exited /\ pc = "reap"
         => slot'[s].pid \in {slot[s].pid, NoPid}]_vars

=============================================================================
