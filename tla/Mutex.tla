------------------------------- MODULE Mutex -------------------------------
(***************************************************************************)
(* What the shared-memory mutex promises its users: one owner at a time,   *)
(* taken only by a live process, given up by the owner itself or, once the *)
(* owner has died, by the master on its behalf.  Shmtx implements it.      *)
(***************************************************************************)

CONSTANTS Workers,   \* the processes that lock the mutex
          NoOwner    \* the value of a free lock word (0 in the code)

VARIABLES owner,     \* the worker that owns the mutex, or NoOwner
          alive      \* the workers that have not died

mvars == <<owner, alive>>

MInit == /\ owner = NoOwner
         /\ alive = Workers

Acquire(p) == /\ p \in alive
              /\ owner = NoOwner
              /\ owner' = p
              /\ UNCHANGED alive

Release(p) == /\ p \in alive
              /\ owner = p
              /\ owner' = NoOwner
              /\ UNCHANGED alive

Die(p) == /\ p \in alive
          /\ alive' = alive \ {p}
          /\ UNCHANGED owner

\* The master frees the mutex of a dead owner.
Recover(p) == /\ p \notin alive
              /\ owner = p
              /\ owner' = NoOwner
              /\ UNCHANGED alive

\* A replacement may only start once its predecessor owns nothing.
Replace(p) == /\ p \notin alive
              /\ owner # p
              /\ alive' = alive \cup {p}
              /\ UNCHANGED owner

MNext == \E p \in Workers :
            Acquire(p) \/ Release(p) \/ Die(p) \/ Recover(p) \/ Replace(p)

MSpec == MInit /\ [][MNext]_mvars
=============================================================================
