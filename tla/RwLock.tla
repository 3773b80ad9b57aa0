------------------------------- MODULE RwLock -------------------------------
(***************************************************************************)
(* The read-write lock of src/core/ngx_rwlock.c, which the upstream zones  *)
(* use for their peers.  One word of shared memory counts the readers, or  *)
(* is NGX_RWLOCK_WLOCK under a writer.  Every operation reads the word in  *)
(* one step and changes it in another; a compare-and-set fails when the    *)
(* word is no longer what was read, and the loop starts again.  Nothing    *)
(* recovers the lock of a process that dies.                               *)
(***************************************************************************)
EXTENDS Integers, FiniteSets

CONSTANT Procs

ASSUME ProcsAssumption == IsFiniteSet(Procs)

NGX_RWLOCK_WLOCK == -1

VARIABLES
    lock,       \* the word
    at,         \* where each process is in the operations
    seen,       \* the value of the word a process in rlock has read
    readers,    \* who holds the lock, the dead included (no variables of
    writers     \* the code)

rwvars == <<lock, at, seen, readers, writers>>

RwInit ==
    /\ lock = 0
    /\ at = [p \in Procs |-> "out"]
    /\ seen = [p \in Procs |-> 0]
    /\ readers = {} /\ writers = {}

Goto(p, l) == at' = [at EXCEPT ![p] = l]

\* ngx_atomic_cmp_set()
CmpSet(old, new) ==
    lock' = IF lock = old THEN new ELSE lock

-----------------------------------------------------------------------------
\* A process calls an operation.
CallRwlock(p) ==
    /\ \/ at[p] = "out" /\ \E l \in {"rlock", "wlock"} : Goto(p, l)
       \/ at[p] = "held" /\ Goto(p, "unlock")
       \/ at[p] = "held" /\ p \in writers /\ Goto(p, "downgrade")
    /\ UNCHANGED <<lock, seen, readers, writers>>

\* Its first step reads the word.
ReadWord(p) ==
    /\ \/ at[p] = "rlock" /\ lock # NGX_RWLOCK_WLOCK /\ Goto(p, "rset")
       \/ at[p] = "wlock" /\ lock = 0 /\ Goto(p, "wset")
       \/ /\ at[p] = "unlock"
          /\ Goto(p, IF lock = NGX_RWLOCK_WLOCK THEN "clear" ELSE "leave")
       \/ /\ at[p] = "downgrade"
          /\ Goto(p, IF lock = NGX_RWLOCK_WLOCK THEN "store" ELSE "held")
    /\ seen' = [seen EXCEPT ![p] = IF at[p] = "rlock" THEN lock ELSE 0]
    /\ UNCHANGED <<lock, readers, writers>>

\* Mutant: the reader is counted without comparing the word again.
RlockNoCompare(p) ==
    /\ at[p] = "rset"
    /\ lock' = seen[p] + 1
    /\ Goto(p, "held") /\ readers' = readers \cup {p}
    /\ seen' = [seen EXCEPT ![p] = 0]
    /\ UNCHANGED writers

\* ngx_rwlock_rlock() counts one more reader.
ngx_rwlock_rlock(p) ==
    /\ at[p] = "rset"
    /\ CmpSet(seen[p], seen[p] + 1)
    /\ IF lock = seen[p]
       THEN Goto(p, "held") /\ readers' = readers \cup {p}
       ELSE Goto(p, "rlock") /\ UNCHANGED readers
    /\ seen' = [seen EXCEPT ![p] = 0]
    /\ UNCHANGED writers

\* ngx_rwlock_wlock() takes a lock that nobody has.
ngx_rwlock_wlock(p) ==
    /\ at[p] = "wset"
    /\ CmpSet(0, NGX_RWLOCK_WLOCK)
    /\ IF lock = 0
       THEN Goto(p, "held") /\ writers' = writers \cup {p}
       ELSE Goto(p, "wlock") /\ UNCHANGED writers
    /\ seen' = [seen EXCEPT ![p] = 0]
    /\ UNCHANGED readers

\* ngx_rwlock_unlock() frees the word, or counts one reader less.
ngx_rwlock_unlock(p) ==
    /\ \/ at[p] = "clear" /\ CmpSet(NGX_RWLOCK_WLOCK, 0)
       \/ at[p] = "leave" /\ lock' = lock - 1
    /\ Goto(p, "out")
    /\ seen' = [seen EXCEPT ![p] = 0]
    /\ readers' = readers \ {p} /\ writers' = writers \ {p}

\* ngx_rwlock_downgrade() makes the writer the only reader.
ngx_rwlock_downgrade(p) ==
    /\ at[p] = "store"
    /\ lock' = 1
    /\ Goto(p, "held")
    /\ seen' = [seen EXCEPT ![p] = 0]
    /\ readers' = readers \cup {p} /\ writers' = writers \ {p}

RwStep(p) ==
    \/ CallRwlock(p) \/ ReadWord(p)
    \/ ngx_rwlock_rlock(p) \/ ngx_rwlock_wlock(p)
    \/ ngx_rwlock_unlock(p) \/ ngx_rwlock_downgrade(p)

RwNext == \E p \in Procs : RwStep(p)

RwSpec == RwInit /\ [][RwNext]_rwvars

-----------------------------------------------------------------------------
RwTypeOK ==
    /\ lock \in Int
    /\ at \in [Procs -> {"out", "rlock", "wlock", "rset", "wset", "held",
                         "unlock", "clear", "leave", "downgrade", "store"}]
    /\ seen \in [Procs -> Int]
    /\ readers \subseteq Procs /\ writers \subseteq Procs

(* A writer is alone, the word is the number of readers, dead ones         *)
(* included, or the mark of the writer: no interleaving of the unlocked    *)
(* reads with the compare-and-sets counts a reader twice, loses one, or    *)
(* lets a reader in beside a writer.                                       *)
RwExclusion ==
    /\ Cardinality(writers) <= 1
    /\ writers # {} => readers = {}
    /\ lock = IF writers # {} THEN NGX_RWLOCK_WLOCK ELSE Cardinality(readers)

=============================================================================
