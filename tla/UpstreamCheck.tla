--------------------------- MODULE UpstreamCheck ---------------------------
(***************************************************************************)
(* The active health check of one peer: ngx_http_upstream_check_module.    *)
(*                                                                         *)
(* All the workers have a timer for the peer and share its state.  The     *)
(* worker whose timer finds that nobody owns the peer and that the last    *)
(* result is old enough makes itself the owner, checks the peer, records   *)
(* the result and gives the ownership up.  A peer that has had no result   *)
(* for 2^4 intervals is taken from its owner, which may have died.  Only   *)
(* the decision to check and the recording of a result hold the peer's     *)
(* mutex; the owner is read, and given up, without it.                     *)
(*                                                                         *)
(* The clock of a worker is the one its event loop read last, so that it   *)
(* may lag behind that of another.  Times are kept relative to the present *)
(* moment: age is the time since access_time, lag[w] the time since w read *)
(* the clock.                                                              *)
(***************************************************************************)
EXTENDS Naturals, Sequences, FiniteSets

CONSTANTS
    Workers,
    Interval,       \* check_interval
    Shift,          \* 4 in the code
    Rise, Fall,     \* rise_count and fall_count of the configuration
    MaxLag,         \* bound: how far behind the clock of a worker may be
    MaxFlips,       \* bound: changes of the peer's health
    MaxCrashes,     \* bound: workers that die
    MaxReallocs     \* bound: times an array of peers is moved

ASSUME ConstantsAssumption ==
    /\ Interval \in Nat \ {0} /\ Shift \in Nat
    /\ Rise \in Nat \ {0} /\ Fall \in Nat \ {0}
    /\ MaxLag \in Nat /\ MaxFlips \in Nat
    /\ MaxCrashes \in Nat /\ MaxReallocs \in Nat

Takeover == Interval * 2 ^ Shift
MaxAge   == Takeover + MaxLag     \* an older result is as good as this one

Nobody == "nobody"                \* NGX_INVALID_PID
Dead   == "dead"                  \* the pid of a worker that died

ASSUME NobodyAssumption == Nobody \notin Workers /\ Dead \notin Workers

VARIABLES
    \* shared memory (ngx_http_upstream_check_peer_shm_t)
    owner, age, rise_count, fall_count, down,
    \* each worker
    pc,         \* where its handlers are
    lag,        \* the age of its clock
    kept,       \* it keeps a connection to the peer
    answer,     \* the answer it has got, in pc = "done"
    moved,      \* its array of peers was moved during its last check
    \* the environment
    alive,      \* the peer answers checks in time
    flips, crashes, reallocs,
    \* the last results recorded, newest last (no variable of the code)
    recent

shm  == <<owner, age, rise_count, fall_count, down>>
work == <<pc, lag, kept, answer, moved>>
env  == <<alive, flips, crashes, reallocs>>
vars == <<shm, work, env, recent>>

Init ==
    /\ owner = Nobody /\ age = MaxAge          \* access_time is 0
    /\ rise_count = 0 /\ fall_count = 0
    /\ down \in BOOLEAN                        \* default_down
    /\ pc = [w \in Workers |-> "idle"]
    /\ lag = [w \in Workers |-> 0]
    /\ kept = [w \in Workers |-> FALSE]
    /\ answer = [w \in Workers |-> FALSE]
    /\ moved = [w \in Workers |-> FALSE]
    /\ alive \in BOOLEAN
    /\ flips = 0 /\ crashes = 0 /\ reallocs = 0
    /\ recent = <<>>

Least(a, b) == IF a < b THEN a ELSE b

----------------------------------------------------------------------------
(* ngx_http_upstream_check_begin_handler, the part without the mutex.  A   *)
(* check of its own that goes on, its own pid, or a result later than its  *)
(* clock make the worker leave the peer alone.                             *)
Begin(w) ==
    /\ pc[w] = "idle"
    /\ owner # w
    /\ lag[w] <= age
    /\ pc' = [pc EXCEPT ![w] = "lock"]
    /\ moved' = [moved EXCEPT ![w] = FALSE]
    /\ UNCHANGED <<shm, lag, kept, answer, env, recent>>

(* The time since the last result as w computes it.  It is an unsigned     *)
(* difference: a result that is later than the clock of w is very old.     *)
IntervalSeen(w) == IF lag[w] <= age THEN age - lag[w] ELSE MaxAge

\* Mutant: a peer is never taken from its owner.
ClaimNever(w) ==
    /\ pc[w] = "lock"
    /\ pc' = [pc EXCEPT ![w] = "claimed"]
    /\ owner' = IF IntervalSeen(w) >= Interval /\ owner = Nobody
                THEN w ELSE owner
    /\ UNCHANGED <<age, rise_count, fall_count, down, lag, kept, answer, moved,
                   env, recent>>

(* The part with the mutex: w becomes the owner, or not.                   *)
Claim(w) ==
    /\ pc[w] = "lock"
    /\ pc' = [pc EXCEPT ![w] = "claimed"]
    /\ IF IntervalSeen(w) >= Interval /\ owner = Nobody
       THEN owner' = w /\ UNCHANGED age
       ELSE IF IntervalSeen(w) >= Takeover
       THEN owner' = w /\ age' = lag[w]
       ELSE UNCHANGED <<owner, age>>
    /\ UNCHANGED <<rise_count, fall_count, down, lag, kept, answer, moved, env,
                   recent>>

(* It reads the owner again and, if it is the one, connects.               *)
Connect(w) ==
    /\ pc[w] = "claimed"
    /\ pc' = [pc EXCEPT ![w] = IF owner = w THEN "check" ELSE "idle"]
    /\ UNCHANGED <<shm, lag, kept, answer, moved, env, recent>>

(* The peer answers, or fails to in time.                                  *)
Answer(w) ==
    /\ pc[w] = "check"
    /\ pc' = [pc EXCEPT ![w] = "done"]
    /\ answer' = [answer EXCEPT ![w] = alive]
    /\ UNCHANGED <<shm, lag, kept, moved, env, recent>>

Record(result) ==
    recent' = LET r == Append(recent, result)
              IN  IF Len(r) > Rise /\ Len(r) > Fall THEN Tail(r) ELSE r

\* Mutant: a success does not reset the failures.
UpdateKeepsFalls(w, result) ==
    /\ IF result
       THEN /\ rise_count' = Least(rise_count + 1, Rise)
            /\ UNCHANGED fall_count
            /\ down' = (down /\ rise_count + 1 < Rise)
       ELSE /\ rise_count' = 0
            /\ fall_count' = Least(fall_count + 1, Fall)
            /\ down' = (down \/ fall_count + 1 >= Fall)
    /\ age' = lag[w]
    /\ Record(result)

(* The counters stop at their thresholds, beyond which they make no        *)
(* difference.                                                             *)
ngx_http_upstream_check_status_update(w, result) ==
    /\ IF result
       THEN /\ rise_count' = Least(rise_count + 1, Rise)
            /\ fall_count' = 0
            /\ down' = (down /\ rise_count + 1 < Rise)
       ELSE /\ rise_count' = 0
            /\ fall_count' = Least(fall_count + 1, Fall)
            /\ down' = (down \/ fall_count + 1 >= Fall)
    /\ age' = lag[w]
    /\ Record(result)

(* The handler of the answer, or of the timeout: the result is recorded.   *)
Result(w) ==
    /\ pc[w] = "done"
    /\ ngx_http_upstream_check_status_update(w, answer[w])
    /\ pc' = [pc EXCEPT ![w] = "clean"]
    /\ UNCHANGED <<owner, lag, kept, answer, moved, env>>

\* Mutant: the ownership is not given up.
KeepsOwner == UNCHANGED owner

(* The peer is nobody's, whoever owned it.                                 *)
GiveUp == owner' = Nobody

(* ... and its end: the connection is kept, if there is no error and it    *)
(* may serve more requests, and the ownership given up.                    *)
ngx_http_upstream_check_clean_event(w) ==
    /\ pc[w] = "clean"
    /\ pc' = [pc EXCEPT ![w] = "idle"]
    /\ \E k \in BOOLEAN : kept' = [kept EXCEPT ![w] = k]
    /\ answer' = [answer EXCEPT ![w] = FALSE]
    /\ GiveUp
    /\ UNCHANGED <<age, rise_count, fall_count, down, lag, moved, env, recent>>

(* The peer closes a kept connection between two checks.                   *)
ngx_http_upstream_check_discard_handler(w) ==
    /\ pc[w] = "idle" /\ kept[w]
    /\ kept' = [kept EXCEPT ![w] = FALSE]
    /\ GiveUp
    /\ UNCHANGED <<age, rise_count, fall_count, down, pc, lag, answer, moved,
                   env, recent>>

(* A dynamic peer is added and the array of peers moves: the check of this *)
(* peer, if w has one, is dropped, and the timers set anew.                *)
Realloc(w) ==
    /\ pc[w] \in {"idle", "check", "done"}
    /\ reallocs < MaxReallocs
    /\ reallocs' = reallocs + 1
    /\ moved' = [moved EXCEPT ![w] = @ \/ pc[w] # "idle"]
    /\ pc' = [pc EXCEPT ![w] = "idle"]
    /\ kept' = [kept EXCEPT ![w] = FALSE]
    /\ answer' = [answer EXCEPT ![w] = FALSE]
    /\ UNCHANGED <<shm, lag, alive, flips, crashes, recent>>

----------------------------------------------------------------------------
(* Time passes.  An event loop reads the clock at least every MaxLag, and  *)
(* no handler takes longer.                                                *)
Tick ==
    /\ \A w \in Workers : lag[w] < MaxLag
    /\ age' = Least(age + 1, MaxAge)
    /\ lag' = [w \in Workers |-> lag[w] + 1]
    /\ UNCHANGED <<owner, rise_count, fall_count, down, pc, kept, answer, moved,
                   env, recent>>

(* Between two handlers the event loop of w reads the clock.               *)
ngx_time_update(w) ==
    /\ pc[w] \in {"idle", "check", "done"}
    /\ lag[w] > 0
    /\ lag' = [lag EXCEPT ![w] = 0]
    /\ UNCHANGED <<shm, pc, kept, answer, moved, env, recent>>

Flip ==
    /\ flips < MaxFlips
    /\ flips' = flips + 1
    /\ alive' = ~alive
    /\ UNCHANGED <<shm, work, crashes, reallocs, recent>>

(* A worker dies and the master starts another, with another pid.          *)
Crash(w) ==
    /\ crashes < MaxCrashes
    /\ crashes' = crashes + 1
    /\ owner' = IF owner = w THEN Dead ELSE owner
    /\ pc' = [pc EXCEPT ![w] = "idle"]
    /\ lag' = [lag EXCEPT ![w] = 0]
    /\ kept' = [kept EXCEPT ![w] = FALSE]
    /\ answer' = [answer EXCEPT ![w] = FALSE]
    /\ moved' = [moved EXCEPT ![w] = FALSE]
    /\ UNCHANGED <<age, rise_count, fall_count, down, alive, flips, reallocs,
                   recent>>

Handler(w) ==
    \/ Claim(w)
    \/ Connect(w)
    \/ Answer(w)
    \/ Result(w)
    \/ ngx_http_upstream_check_clean_event(w)

Next ==
    \/ \E w \in Workers :
        \/ Begin(w)
        \/ Handler(w)
        \/ ngx_time_update(w)
        \/ ngx_http_upstream_check_discard_handler(w)
        \/ Realloc(w)
        \/ Crash(w)
    \/ Tick
    \/ Flip

Spec == Init /\ [][Next]_vars

(* Timers fire, handlers end, a check ends (it has a timeout) and time     *)
(* passes.                                                                 *)
FairSpec ==
    /\ Spec
    /\ \A w \in Workers :
        /\ WF_vars(Begin(w)) /\ WF_vars(Handler(w))
        /\ SF_vars(ngx_time_update(w))
    /\ WF_vars(Tick)

----------------------------------------------------------------------------
TypeOK ==
    /\ owner \in Workers \cup {Nobody, Dead}
    /\ age \in 0..MaxAge
    /\ rise_count \in 0..Rise /\ fall_count \in 0..Fall
    /\ down \in BOOLEAN
    /\ pc \in [Workers -> {"idle", "lock", "claimed", "check", "done", "clean"}]
    /\ lag \in [Workers -> 0..MaxLag]
    /\ kept \in [Workers -> BOOLEAN]
    /\ answer \in [Workers -> BOOLEAN]
    /\ moved \in [Workers -> BOOLEAN]
    /\ alive \in BOOLEAN
    /\ flips \in 0..MaxFlips /\ crashes \in 0..MaxCrashes
    /\ reallocs \in 0..MaxReallocs
    /\ recent \in Seq(BOOLEAN)

(* A worker that owns the peer is at work on it, and will give it up: the  *)
(* peer is blocked only by a worker that died, or whose array of peers was *)
(* moved during a check.                                                   *)
OwnerWorks ==
    \A w \in Workers : owner = w =>
        pc[w] \in {"claimed", "check", "done", "clean"} \/ moved[w]

(* The peer goes down only when the last Fall results, of whatever         *)
(* workers, were failures, and up only when the last Rise were successes.  *)
LastAre(n, result) ==
    /\ Len(recent') >= n
    /\ \A i \in 0..(n - 1) : recent'[Len(recent') - i] = result

Hysteresis ==
    [][/\ ~down /\ down' => LastAre(Fall, FALSE)
       /\ down /\ ~down' => LastAre(Rise, TRUE)]_vars

(* A peer that stays dead ends up down, and one that stays alive up,       *)
(* whatever workers die, lag behind or drop their checks on the way.       *)
StatusFollows ==
    /\ <>[]alive => <>[]~down
    /\ <>[]~alive => <>[]down

============================================================================
