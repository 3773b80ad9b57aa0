----------------------------- MODULE Upstreams -----------------------------
(***************************************************************************)
(* What a worker's table of dynamic upstreams is for: a content, or none,  *)
(* for every name.  DyupsTable implements it with slots that are freed and *)
(* used again; Dyups keeps the maps of the workers in step.                *)
(***************************************************************************)
CONSTANTS
    Names,          \* upstream names
    Vals            \* what an update may give a name

Initial == "initial"      \* the content the configuration file gives a name
Broken  == "broken"       \* the content a failed update leaves
Absent  == "absent"       \* the name has no upstream

Contents == Vals \cup {Initial, Broken, Absent}

VARIABLE conf

Init == conf = [n \in Names |-> Initial]

Change(name, val) == conf' = [conf EXCEPT ![name] = val]

Next == \E name \in Names, val \in Contents : Change(name, val)

Spec == Init /\ [][Next]_conf
============================================================================
