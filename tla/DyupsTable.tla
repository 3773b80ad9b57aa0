----------------------------- MODULE DyupsTable -----------------------------
(***************************************************************************)
(* The table of dynamic upstreams of one worker                            *)
(* (ngx_http_upstream_dyups_module).                                       *)
(*                                                                         *)
(* The table is an array of slots, each with a pool of its own.  Deleting  *)
(* an upstream only hides it: requests, and the connections they leave     *)
(* behind, still use it and count their references to it.  The next search *)
(* of the table destroys the pool of a deleted upstream without references *)
(* and may give its slot to another upstream.                              *)
(***************************************************************************)
EXTENDS Naturals, Sequences, FiniteSets

CONSTANTS
    Names,          \* upstream names
    Vals,           \* what an update may give a name
    Holders         \* requests and connections that may use an upstream

Sandbox == "_dyups_upstream_sandbox_"
Initial == "initial"
Broken  == "broken"
Absent  == "absent"
Free    == [slot |-> 0]

(* The code keeps a name of its own to try an update.                      *)
ASSUME TableAssumption ==
    IsFiniteSet(Names) /\ IsFiniteSet(Holders) /\ Sandbox \notin Names

VARIABLES
    slots,      \* dy_upstreams
    holder      \* what each request or connection uses

vars == <<slots, holder>>

(* A new upstream.  users, which the code does not have, are the requests  *)
(* and connections that use this upstream and not another one of the slot. *)
Slot(name, val) ==
    [name |-> name, val |-> val, st |-> "live", ref |-> 0, users |-> {}]

(* The slots that hold a live upstream of that name.                       *)
Lives(s, name) == {i \in DOMAIN s : s[i].st = "live" /\ s[i].name = name}

MinOf(S) == CHOOSE x \in S : \A y \in S : x <= y
MaxOf(S) == CHOOSE x \in S : \A y \in S : x >= y

\* Mutant: a deleted upstream is freed though it is used.
FindFreesUsed(s, name) ==
    LET hits  == Lives(s, name)
        last  == IF hits = {} THEN Len(s) ELSE MinOf(hits)
        t     == [i \in DOMAIN s |->
                    IF i <= last /\ s[i].st = "deleting"
                    THEN [s[i] EXCEPT !.st = "deleted"]
                    ELSE s[i]]
        frees == {i \in 1..last : t[i].st = "deleted"}
    IN  [slots |-> t,
         idx   |-> IF hits # {} THEN last
                   ELSE IF frees # {} THEN MaxOf(frees) ELSE 0]

(* The walk stops at the upstream it looks for.  On its way it frees the   *)
(* deleted upstreams nobody uses, and remembers the last free slot.        *)
ngx_dyups_find_upstream(s, name) ==
    LET hits  == Lives(s, name)
        last  == IF hits = {} THEN Len(s) ELSE MinOf(hits)
        t     == [i \in DOMAIN s |->
                    IF i <= last /\ s[i].st = "deleting" /\ s[i].ref = 0
                    THEN [s[i] EXCEPT !.st = "deleted"]
                    ELSE s[i]]
        frees == {i \in 1..last : t[i].st = "deleted"}
    IN  [slots |-> t,
         idx   |-> IF hits # {} THEN last
                   ELSE IF frees # {} THEN MaxOf(frees) ELSE 0]

(* Its servers are down and requests no longer find it.                    *)
ngx_dyups_mark_upstream_delete(s, i) ==
    [s EXCEPT ![i].st = "deleting", ![i].name = "", ![i].val = Absent]

\* Mutant: the table is not searched again after the deletion.
UpdateSearchesOnce(s, name, val) ==
    LET f == ngx_dyups_find_upstream(s, name)
    IN  IF f.idx # 0 /\ f.slots[f.idx].st = "live"
        THEN Append(ngx_dyups_mark_upstream_delete(f.slots, f.idx),
                    Slot(name, val))
        ELSE IF f.idx = 0
        THEN Append(f.slots, Slot(name, val))
        ELSE [f.slots EXCEPT ![f.idx] = Slot(name, val)]

\* Mutant: the old upstream of the name is not deleted.
UpdateKeepsOld(s, name, val) ==
    LET f == ngx_dyups_find_upstream(s, name)
    IN  IF f.idx = 0 \/ f.slots[f.idx].st = "live"
        THEN Append(f.slots, Slot(name, val))
        ELSE [f.slots EXCEPT ![f.idx] = Slot(name, val)]

(* A live upstream of the name is deleted first and the table searched     *)
(* again; the new upstream takes a free slot or a new one.                 *)
ngx_dyups_do_update(s, name, val) ==
    LET f == ngx_dyups_find_upstream(s, name)
        g == IF f.idx # 0 /\ f.slots[f.idx].st = "live"
             THEN ngx_dyups_find_upstream(
                      ngx_dyups_mark_upstream_delete(f.slots, f.idx), name)
             ELSE f
    IN  IF g.idx = 0
        THEN Append(g.slots, Slot(name, val))
        ELSE [g.slots EXCEPT ![g.idx] = Slot(name, val)]

ngx_dyups_do_delete(s, name) ==
    LET f == ngx_dyups_find_upstream(s, name)
    IN  IF f.idx = 0 \/ f.slots[f.idx].st # "live"
        THEN f.slots
        ELSE ngx_dyups_mark_upstream_delete(f.slots, f.idx)

(* The content is tried under a name of its own, and deleted again.        *)
ngx_dyups_sandbox_update(s, val) ==
    ngx_dyups_do_delete(ngx_dyups_do_update(s, Sandbox, val), Sandbox)

----------------------------------------------------------------------------
(* The upstreams of the configuration file.                                *)
Init ==
    /\ \E names \in [1..Cardinality(Names) -> Names] :
        /\ \A i, j \in DOMAIN names : names[i] = names[j] => i = j
        /\ slots = [i \in DOMAIN names |-> Slot(names[i], Initial)]
    /\ holder = [h \in Holders |-> Free]

(* An update through the API of this worker.  Its content may be refused   *)
(* in the sandbox, or the allocations after the sandbox may fail.          *)
ngx_dyups_update_upstream(name, val) ==
    /\ \/ slots' = ngx_dyups_do_update(
                       ngx_dyups_sandbox_update(slots, val), name, val)
       \/ slots' = ngx_dyups_sandbox_update(slots, Broken)
       \/ slots' = ngx_dyups_do_update(
                       ngx_dyups_sandbox_update(slots, val), name, Broken)
    /\ UNCHANGED holder

(* A deletion, through the API or in a message of another worker.          *)
ngx_dyups_delete_upstream(name) ==
    /\ slots' = ngx_dyups_do_delete(slots, name)
    /\ UNCHANGED holder

(* An update in a message of another worker, which may fail as well.       *)
ngx_dyups_sync_cmd(name, val) ==
    /\ \E v \in {val, Broken} : slots' = ngx_dyups_do_update(slots, name, v)
    /\ UNCHANGED holder

(* A request, h, chooses the live upstream in slot i.                      *)
ngx_http_dyups_init_peer(i, h) ==
    /\ holder[h] = Free
    /\ slots[i].st = "live"
    /\ slots' = [slots EXCEPT ![i].ref = @ + 1, ![i].users = @ \cup {h}]
    /\ holder' = [holder EXCEPT ![h] = [slot |-> i, kind |-> "request"]]

(* The request h is done with its connection, which it did not take from   *)
(* the cache: the connection, c, keeps the upstream as long as it is open. *)
ngx_http_dyups_free_peer(h, c) ==
    /\ holder[h] # Free /\ holder[h].kind = "request"
    /\ holder[c] = Free
    /\ LET i == holder[h].slot
       IN  /\ slots' = [slots EXCEPT ![i].ref = @ + 1, ![i].users = @ \cup {c}]
           /\ holder' = [holder EXCEPT ![c] =
                            [slot |-> i, kind |-> "connection"]]

(* The pool of a request or of a connection is destroyed.                  *)
ngx_http_dyups_clean_request(h) ==
    /\ holder[h] # Free
    /\ LET i == holder[h].slot
       IN  slots' = [slots EXCEPT ![i].ref = @ - 1, ![i].users = @ \ {h}]
    /\ holder' = [holder EXCEPT ![h] = Free]

Next ==
    \/ \E name \in Names, val \in Vals :
        ngx_dyups_update_upstream(name, val) \/ ngx_dyups_sync_cmd(name, val)
    \/ \E name \in Names : ngx_dyups_delete_upstream(name)
    \/ \E h \in Holders :
        \/ \E i \in DOMAIN slots : ngx_http_dyups_init_peer(i, h)
        \/ \E c \in Holders : ngx_http_dyups_free_peer(h, c)
        \/ ngx_http_dyups_clean_request(h)

Spec == Init /\ [][Next]_vars

----------------------------------------------------------------------------
(* Every upstream a request or a connection uses is still in its slot: its *)
(* pool has not been destroyed, and the slot not given to another          *)
(* upstream; and the references the code counts are those that exist.      *)
PoolsInUse ==
    /\ \A h \in Holders : holder[h] # Free =>
        LET slot == slots[holder[h].slot]
        IN  h \in slot.users /\ slot.st # "deleted"
    /\ \A i \in DOMAIN slots : slots[i].ref = Cardinality(slots[i].users)

(* The table does not grow with the number of updates: beside the names    *)
(* and the upstreams still in use after their deletion it has one slot, in *)
(* which the content of an update is tried or placed.                      *)
SlotsAreReused ==
    Len(slots) <= Cardinality(Names) + Cardinality(Holders) + 1

(* The table is a map: a name has one live upstream or none, an update     *)
(* changes its own name only and a search changes none, whatever slots are *)
(* freed and used again on the way.                                        *)
Content(name) ==
    LET vals == {slots[i].val : i \in Lives(slots, name)}
    IN  IF vals = {} THEN Absent
        ELSE IF Cardinality(Lives(slots, name)) = 1
        THEN CHOOSE v \in vals : TRUE
        ELSE "twice"

Map == INSTANCE Upstreams WITH conf <- [n \in Names |-> Content(n)]

IsMap == Map!Spec
=============================================================================
