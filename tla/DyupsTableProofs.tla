------------------------- MODULE DyupsTableProofs -------------------------
(***************************************************************************)
(* Proofs about DyupsTable for any names, contents, requests and           *)
(* connections, and for tables of any length.                              *)
(***************************************************************************)
EXTENDS DyupsTable, SequenceTheorems, FiniteSetTheorems, TLAPS

Contents == Vals \cup {Initial, Broken, Absent}
SlotType ==
    [name : Names \cup {Sandbox, ""}, val : Contents,
     st : {"live", "deleting", "deleted"}, ref : Nat, users : SUBSET Holders]

(* The references of a slot are counted, and a freed slot has none.        *)
Good(s) ==
    /\ s \in Seq(SlotType)
    /\ \A i \in DOMAIN s : /\ s[i].ref = Cardinality(s[i].users)
                           /\ s[i].st = "deleted" => s[i].users = {}

IsLive(s, i, name) == i \in DOMAIN s /\ s[i].st = "live" /\ s[i].name = name

(* A name has at most one live upstream.                                   *)
One(s) == \A i, j \in DOMAIN s : \A name :
             IsLive(s, i, name) /\ IsLive(s, j, name) => i = j

Table(s) == Good(s) /\ One(s)

(* What a change of the table does: to the users of its slots, and to the  *)
(* upstream of a name.                                                     *)
Same(s, t) ==
    /\ Len(s) <= Len(t)
    /\ \A i \in DOMAIN t : t[i].users = IF i \in DOMAIN s THEN s[i].users ELSE {}
Keeps(s, t, name) ==
    \A i : /\ IsLive(t, i, name) <=> IsLive(s, i, name)
           /\ IsLive(t, i, name) => t[i].val = s[i].val
Gone(s, name) == \A i : ~IsLive(s, i, name)
Holds(s, name, val) == \E i : IsLive(s, i, name) /\ s[i].val = val

-----------------------------------------------------------------------------
(* The smallest and the largest element *)

\* A set of numbers has a smallest element.
LEMMA MinOfIn ==
    ASSUME NEW S \in SUBSET Nat, S # {}
    PROVE  MinOf(S) \in S /\ \A y \in S : MinOf(S) <= y
  <1> DEFINE T == {0..x : x \in S}
  <1>1. T \subseteq FiniteSubsetsOf(Nat)
    <2> SUFFICES ASSUME NEW x \in S PROVE 0..x \in FiniteSubsetsOf(Nat)
      BY Zenon
    <2>1. IsFiniteSet(0..x) /\ 0..x \in SUBSET Nat
      BY FS_Interval
    <2>2. QED
      BY <2>1, Zenon DEF FiniteSubsetsOf
  <1>2. T # {}
    BY ZenonT(40)
  <1>3. PICK U \in T : \A V \in T : ~(<<V, U>> \in StrictSubsetOrdering(Nat))
    BY ZenonT(40), <1>1, <1>2, WFMin, FS_StrictSubsetOrderingWellFounded
  <1>4. PICK x \in S : U = 0..x
    BY Zenon
  <1>5. ASSUME NEW y \in S PROVE x <= y
    <2> SUFFICES ASSUME y < x PROVE FALSE
      OBVIOUS
    <2>1. 0..y \in SUBSET Nat /\ 0..x \in SUBSET Nat /\ 0..y \subseteq 0..x
      OBVIOUS
    <2>2. x \in 0..x /\ x \notin 0..y
      OBVIOUS
    <2>3. <<0..y, 0..x>> \in StrictSubsetOrdering(Nat)
      BY <2>1, <2>2, Zenon DEF StrictSubsetOrdering
    <2>4. QED
      BY ZenonT(40), <1>3, <1>4, <2>3
  <1>6. QED
    BY ZenonT(40), <1>5 DEF MinOf

\* A bounded set of numbers has a largest element.
LEMMA MaxOfIn ==
    ASSUME NEW n \in Nat, NEW S \in SUBSET (0..n), S # {}
    PROVE  MaxOf(S) \in S
  <1> DEFINE T == {n - x : x \in S}
  <1>0. \A x \in S : n - x \in Nat
    OBVIOUS
  <1>1. T \in SUBSET Nat /\ T # {}
    BY ZenonT(40), <1>0
  <1> HIDE DEF T
  <1>2. MinOf(T) \in T /\ \A y \in T : MinOf(T) <= y
    BY <1>1, MinOfIn, Zenon
  <1>3. PICK x \in S : MinOf(T) = n - x
    BY ZenonT(40), <1>2 DEF T
  <1>4. \A y \in S : x >= y
    BY <1>2, <1>3 DEF T
  <1>5. QED
    BY ZenonT(40), <1>4 DEF MaxOf

-----------------------------------------------------------------------------
(* The operations on the table *)

\* Two changes in a row.
LEMMA Twice ==
    ASSUME NEW s, NEW t, NEW u, Table(s), Table(t), Table(u), Same(s, t), Same(t, u)
    PROVE  /\ Same(s, u)
           /\ \A n : Keeps(s, t, n) /\ Keeps(t, u, n) => Keeps(s, u, n)
  <1>1. DOMAIN s = 1..Len(s) /\ DOMAIN t = 1..Len(t) /\ DOMAIN u = 1..Len(u)
        /\ Len(s) \in Nat /\ Len(t) \in Nat /\ Len(u) \in Nat
    BY LenProperties, Zenon DEF Table, Good
  <1>2. Same(s, u)
    BY <1>1 DEF Same
  <1>3. QED
    BY <1>2, Zenon DEF Keeps

\* The users of a slot are finitely many.
LEMMA UsersFinite ==
    ASSUME NEW s, Good(s), NEW i \in DOMAIN s
    PROVE  /\ s[i] \in SlotType /\ IsFiniteSet(s[i].users)
           /\ s[i].ref = 0 <=> s[i].users = {}
  <1>1. s[i] \in SlotType
    BY ElementOfSeq, LenProperties, Zenon DEF Good
  <1>2. IsFiniteSet(s[i].users)
    BY ZenonT(40), <1>1, TableAssumption, FS_Subset DEF SlotType
  <1>3. QED
    BY <1>1, <1>2, FS_EmptySet, Zenon DEF Good

\* A search frees slots nobody uses, and finds the live upstream of the
\* name; if there is none it may find a free slot.
LEMMA FindCorrect ==
    ASSUME NEW s, Table(s), NEW name, NEW f, f = ngx_dyups_find_upstream(s, name)
    PROVE  /\ Table(f.slots) /\ Same(s, f.slots) /\ \A n : Keeps(s, f.slots, n)
           /\ f.idx \in 0..Len(f.slots)
           /\ \/ f.idx # 0 /\ IsLive(f.slots, f.idx, name)
              \/ /\ Gone(f.slots, name)
                 /\ f.idx # 0 => f.slots[f.idx].st = "deleted"
  <1> DEFINE hits  == Lives(s, name)
             last  == IF hits = {} THEN Len(s) ELSE MinOf(hits)
             t     == [i \in DOMAIN s |->
                         IF i <= last /\ s[i].st = "deleting" /\ s[i].ref = 0
                         THEN [s[i] EXCEPT !.st = "deleted"]
                         ELSE s[i]]
             frees == {i \in 1..last : t[i].st = "deleted"}
  <1>1. f.slots = t /\ f.idx = IF hits # {} THEN last
                               ELSE IF frees # {} THEN MaxOf(frees) ELSE 0
    BY Zenon DEF ngx_dyups_find_upstream
  <1>2. DOMAIN s = 1..Len(s) /\ Len(s) \in Nat /\ s \in Seq(SlotType)
    BY LenProperties, Zenon DEF Table, Good
  <1>3. hits \in SUBSET Nat /\ hits \in SUBSET DOMAIN s
    BY <1>2 DEF Lives
  <1>4. last \in 0..Len(s) /\ (hits # {} => last \in hits)
    BY <1>2, <1>3, MinOfIn
  <1> HIDE DEF hits, last
  <1>5. \A i \in DOMAIN s : /\ t[i] \in SlotType
                            /\ t[i].name = s[i].name /\ t[i].val = s[i].val
                            /\ t[i].ref = s[i].ref /\ t[i].users = s[i].users
                            /\ t[i].st = "live" <=> s[i].st = "live"
                            /\ t[i].st = "deleted" => s[i].st = "deleted" \/ s[i].ref = 0
    <2> SUFFICES ASSUME NEW i \in DOMAIN s
                 PROVE  /\ t[i] \in SlotType
                        /\ t[i].name = s[i].name /\ t[i].val = s[i].val
                        /\ t[i].ref = s[i].ref /\ t[i].users = s[i].users
                        /\ t[i].st = "live" <=> s[i].st = "live"
                        /\ t[i].st = "deleted" => s[i].st = "deleted" \/ s[i].ref = 0
      BY Zenon
    <2>1. s[i] \in SlotType
      BY UsersFinite, Zenon DEF Table
    <2>2. CASE i <= last /\ s[i].st = "deleting" /\ s[i].ref = 0
      <3>1. t[i] = [s[i] EXCEPT !.st = "deleted"]
        BY <2>2, Zenon
      <3>2. QED
        BY ZenonT(40), <2>1, <2>2, <3>1 DEF SlotType
    <2>3. CASE ~(i <= last /\ s[i].st = "deleting" /\ s[i].ref = 0)
      <3>1. t[i] = s[i]
        BY <2>3, Zenon
      <3>2. QED
        BY <2>1, <3>1, Zenon
    <2>4. QED
      BY <2>2, <2>3, Zenon
  <1>6. t \in Seq(SlotType) /\ Len(t) = Len(s) /\ DOMAIN t = DOMAIN s
    BY <1>2, <1>5
  <1> HIDE DEF t
  <1>7. \A n, i : IsLive(t, i, n) <=> IsLive(s, i, n)
    BY <1>5, <1>6, Zenon DEF IsLive
  <1>8. Good(t)
    BY <1>5, <1>6, UsersFinite, Zenon DEF Table, Good
  <1>9. One(t)
    BY <1>6, <1>7, Zenon DEF Table, One
  <1>10. Same(s, t)
    BY <1>2, <1>5, <1>6 DEF Same
  <1>11. \A n : Keeps(s, t, n)
    BY <1>5, <1>7, Zenon DEF Keeps, IsLive
  <1>12. CASE hits # {}
    <2>1. f.idx \in DOMAIN s /\ IsLive(s, f.idx, name)
      BY <1>1, <1>3, <1>4, <1>12, Zenon DEF hits, Lives, IsLive
    <2>2. QED
      BY <1>1, <1>2, <1>6, <1>7, <1>8, <1>9, <1>10, <1>11, <2>1 DEF Table
  <1>13. CASE hits = {}
    <2>1. Gone(t, name)
      BY <1>7, <1>13, Zenon DEF Gone, hits, Lives, IsLive
    <2>2. frees \in SUBSET (0..Len(s))
      BY <1>2, <1>4
    <2>3. frees # {} => MaxOf(frees) \in frees
      BY <1>2, <2>2, MaxOfIn, Zenon
    <2>4. f.idx \in 0..Len(t) /\ (f.idx # 0 => t[f.idx].st = "deleted")
      BY <1>1, <1>2, <1>6, <1>13, <2>2, <2>3
    <2>5. QED
      BY <1>1, <1>8, <1>9, <1>10, <1>11, <2>1, <2>4, Zenon DEF Table
  <1>14. QED
    BY <1>12, <1>13, Zenon

\* A live upstream that is marked is no longer found; its users stay.
LEMMA MarkCorrect ==
    ASSUME NEW s, Table(s), NEW name, NEW i, IsLive(s, i, name),
           NEW t, t = ngx_dyups_mark_upstream_delete(s, i)
    PROVE  /\ Table(t) /\ Same(s, t) /\ Gone(t, name)
           /\ \A n : n # name => Keeps(s, t, n)
  <1>1. DOMAIN s = 1..Len(s) /\ Len(s) \in Nat /\ s \in Seq(SlotType) /\ i \in DOMAIN s
    BY LenProperties, Zenon DEF Table, Good, IsLive
  <1> DEFINE e == [s[i] EXCEPT !.st = "deleting", !.name = "", !.val = Absent]
  <1>2. s[i] \in SlotType
    BY <1>1, UsersFinite, Zenon DEF Table
  <1>3. e \in SlotType /\ e.users = s[i].users /\ e.ref = s[i].ref /\ e.st = "deleting"
    BY ZenonT(40), <1>2 DEF SlotType, Contents
  <1>4. t = [s EXCEPT ![i] = e]
    BY ZenonT(40), <1>1, <1>2 DEF ngx_dyups_mark_upstream_delete, SlotType
  <1> HIDE DEF e
  <1>5. /\ t \in Seq(SlotType) /\ Len(t) = Len(s) /\ DOMAIN t = DOMAIN s
        /\ \A j \in DOMAIN s : t[j] = IF j = i THEN e ELSE s[j]
    BY <1>1, <1>3, <1>4
  <1>6. Good(t)
    BY <1>3, <1>5 DEF Table, Good
  <1>7. \A n, j : IsLive(t, j, n) <=> IsLive(s, j, n) /\ j # i
    BY <1>3, <1>5, Zenon DEF IsLive
  <1>8. One(t)
    BY <1>5, <1>7 DEF Table, One
  <1>9. Same(s, t)
    BY <1>1, <1>3, <1>5 DEF Same
  <1>10. Gone(t, name)
    BY ZenonT(40), <1>1, <1>7 DEF Gone, Table, One, IsLive
  <1>11. \A n : n # name => Keeps(s, t, n)
    BY <1>5, <1>7, Zenon DEF Keeps, IsLive
  <1>12. QED
    BY <1>6, <1>8, <1>9, <1>10, <1>11, Zenon DEF Table

\* An element appended to a sequence, or put in place k.
LEMMA PutSeq ==
    ASSUME NEW S, NEW s \in Seq(S), NEW e \in S, NEW k \in 0..Len(s),
           NEW t, t = IF k = 0 THEN Append(s, e) ELSE [s EXCEPT ![k] = e],
           NEW i, i = IF k = 0 THEN Len(s) + 1 ELSE k
    PROVE  /\ t \in Seq(S) /\ Len(s) <= Len(t) /\ t[i] = e
           /\ DOMAIN t = DOMAIN s \cup {i} /\ (k = 0 => i \notin DOMAIN s)
           /\ \A j \in DOMAIN s : j # i => t[j] = s[j]
  <1>1. DOMAIN s = 1..Len(s) /\ Len(s) \in Nat
    BY LenProperties, Zenon
  <1>2. CASE k = 0
    <2>1. t \in Seq(S) /\ Len(t) = Len(s) + 1 /\ t[Len(s) + 1] = e
      BY <1>2, AppendProperties, Zenon
    <2>2. \A j \in 1..Len(s) : t[j] = s[j]
      BY <1>2, AppendProperties
    <2>3. DOMAIN t = 1..(Len(s) + 1)
      BY <2>1, LenProperties, Zenon
    <2>4. QED
      BY <1>1, <1>2, <2>1, <2>2, <2>3
  <1>3. CASE k # 0
    <2>1. t \in Seq(S) /\ Len(t) = Len(s) /\ k \in 1..Len(s)
      BY <1>1, <1>3, ExceptSeq
    <2>2. \A j \in 1..Len(s) : t[j] = IF j = k THEN e ELSE s[j]
      BY <1>1, <1>3, <2>1, ExceptSeq, Zenon
    <2>3. DOMAIN t = 1..Len(s)
      BY <2>1, LenProperties, Zenon
    <2>4. QED
      BY <1>1, <1>3, <2>1, <2>2, <2>3
  <1>4. QED
    BY <1>2, <1>3, Zenon

\* A new upstream takes a free slot or a new one.
LEMMA PlaceCorrect ==
    ASSUME NEW s, Table(s), NEW name \in Names \cup {Sandbox}, NEW val \in Contents,
           Gone(s, name), NEW k \in 0..Len(s), k # 0 => s[k].st = "deleted",
           NEW t, t = IF k = 0 THEN Append(s, Slot(name, val))
                      ELSE [s EXCEPT ![k] = Slot(name, val)]
    PROVE  /\ Table(t) /\ Same(s, t) /\ Holds(t, name, val)
           /\ \A n : n # name => Keeps(s, t, n)
  <1>1. DOMAIN s = 1..Len(s) /\ Len(s) \in Nat /\ s \in Seq(SlotType)
    BY LenProperties, Zenon DEF Table, Good
  <1> DEFINE e == Slot(name, val)
  <1>2. /\ e \in SlotType /\ e.users = {} /\ e.ref = 0 /\ e.st = "live"
        /\ e.name = name /\ e.val = val
    BY ZenonT(40) DEF Slot, SlotType
  <1> HIDE DEF e
  <1>3. PICK i : i = IF k = 0 THEN Len(s) + 1 ELSE k
    BY Zenon
  <1>3a. /\ t \in Seq(SlotType) /\ Len(s) <= Len(t) /\ t[i] = e
         /\ DOMAIN t = DOMAIN s \cup {i} /\ (k = 0 => i \notin DOMAIN s)
         /\ \A j \in DOMAIN s : j # i => t[j] = s[j]
    <2>1. t = IF k = 0 THEN Append(s, e) ELSE [s EXCEPT ![k] = e]
      BY Zenon DEF e
    <2>2. QED
      BY <1>1, <1>2, <1>3, <2>1, PutSeq
  <1>3b. i \in DOMAIN s => s[i].st = "deleted"
    BY <1>3, <1>3a, Zenon
  <1>4. i \in DOMAIN s => s[i].users = {}
    BY <1>3b, Zenon DEF Table, Good
  <1>5. Good(t)
    <2> SUFFICES ASSUME NEW j \in DOMAIN t
                 PROVE  /\ t[j].ref = Cardinality(t[j].users)
                        /\ t[j].st = "deleted" => t[j].users = {}
      BY <1>3a, Zenon DEF Good
    <2>1. CASE j = i
      BY ZenonT(40), <1>2, <1>3a, <2>1, FS_EmptySet
    <2>2. CASE j # i
      <3>1. j \in DOMAIN s /\ t[j] = s[j]
        BY <1>3a, <2>2, Zenon
      <3>2. QED
        BY <3>1, Zenon DEF Table, Good
    <2>3. QED
      BY <2>1, <2>2, Zenon
  <1>6. /\ \A j : IsLive(t, j, name) <=> j = i
        /\ \A n, j : n # name => (IsLive(t, j, n) <=> IsLive(s, j, n))
    <2>1. \A n : IsLive(t, i, n) <=> n = name
      BY <1>2, <1>3a, <1>3b, Zenon DEF IsLive
    <2>2. \A n, j : j # i => (IsLive(t, j, n) <=> IsLive(s, j, n))
      BY <1>3a, <1>3b, Zenon DEF IsLive
    <2>3. \A n : ~IsLive(s, i, n)
      BY <1>3a, <1>3b, Zenon DEF IsLive
    <2>4. ASSUME NEW j PROVE IsLive(t, j, name) <=> j = i
      <3>1. CASE j = i
        BY ZenonT(40), <2>1, <3>1
      <3>2. CASE j # i
        BY ZenonT(40), <2>2, <3>2 DEF Gone
      <3>3. QED
        BY <3>1, <3>2, Zenon
    <2>5. ASSUME NEW n, NEW j, n # name
          PROVE  IsLive(t, j, n) <=> IsLive(s, j, n)
      <3>1. CASE j = i
        BY ZenonT(40), <2>1, <2>3, <2>5, <3>1
      <3>2. CASE j # i
        BY ZenonT(40), <2>2, <3>2
      <3>3. QED
        BY <3>1, <3>2, Zenon
    <2>6. QED
      BY ZenonT(40), <2>4, <2>5
  <1>7. One(t)
    <2> SUFFICES ASSUME NEW a \in DOMAIN t, NEW b \in DOMAIN t, NEW n,
                        IsLive(t, a, n), IsLive(t, b, n)
                 PROVE  a = b
      BY ZenonT(30) DEF One
    <2>1. CASE n = name
      <3>1. IsLive(t, a, name) /\ IsLive(t, b, name)
        BY <2>1, Zenon
      <3>2. a = i /\ b = i
        BY ZenonT(40), <1>6, <3>1
      <3>3. QED
        BY <3>2, Zenon
    <2>2. CASE n # name
      <3>1. IsLive(s, a, n) /\ IsLive(s, b, n)
        BY ZenonT(40), <1>6, <2>2
      <3>2. QED
        BY <3>1, Zenon DEF Table, One, IsLive
    <2>3. QED
      BY <2>1, <2>2, Zenon
  <1>8. Same(s, t)
    BY ZenonT(40), <1>1, <1>2, <1>3a, <1>4 DEF Same
  <1>9. Holds(t, name, val)
    BY ZenonT(40), <1>2, <1>3a, <1>6 DEF Holds
  <1>10. ASSUME NEW n, n # name PROVE Keeps(s, t, n)
    BY <1>2, <1>3a, <1>3b, <1>6, <1>10 DEF Keeps, IsLive
  <1>11. QED
    BY ZenonT(40), <1>5, <1>7, <1>8, <1>9, <1>10 DEF Table

\* An update gives the name its content and keeps the other names.
LEMMA UpdateCorrect ==
    ASSUME NEW s, Table(s), NEW name \in Names \cup {Sandbox}, NEW val \in Contents,
           NEW t, t = ngx_dyups_do_update(s, name, val)
    PROVE  /\ Table(t) /\ Same(s, t) /\ Holds(t, name, val)
           /\ \A n : n # name => Keeps(s, t, n)
  <1> DEFINE f == ngx_dyups_find_upstream(s, name)
             m == ngx_dyups_mark_upstream_delete(f.slots, f.idx)
             g == IF f.idx # 0 /\ f.slots[f.idx].st = "live"
                  THEN ngx_dyups_find_upstream(m, name) ELSE f
  <1>1. t = IF g.idx = 0 THEN Append(g.slots, Slot(name, val))
            ELSE [g.slots EXCEPT ![g.idx] = Slot(name, val)]
    BY Zenon DEF ngx_dyups_do_update
  <1>2. /\ Table(f.slots) /\ Same(s, f.slots) /\ \A n : Keeps(s, f.slots, n)
        /\ f.idx \in 0..Len(f.slots)
        /\ \/ f.idx # 0 /\ IsLive(f.slots, f.idx, name)
           \/ /\ Gone(f.slots, name)
              /\ f.idx # 0 => f.slots[f.idx].st = "deleted"
    BY ZenonT(40), FindCorrect
  <1>3. /\ Table(g.slots) /\ Same(s, g.slots) /\ Gone(g.slots, name)
        /\ \A n : n # name => Keeps(s, g.slots, n)
        /\ g.idx \in 0..Len(g.slots)
        /\ g.idx # 0 => g.slots[g.idx].st = "deleted"
    <2>1. CASE f.idx # 0 /\ IsLive(f.slots, f.idx, name)
      <3>1. g = ngx_dyups_find_upstream(m, name)
        BY <2>1, Zenon DEF IsLive
      <3>2. /\ Table(m) /\ Same(f.slots, m) /\ Gone(m, name)
            /\ \A n : n # name => Keeps(f.slots, m, n)
        BY <1>2, <2>1, MarkCorrect, Zenon
      <3> HIDE DEF f, m, g
      <3>3. /\ Table(g.slots) /\ Same(m, g.slots) /\ \A n : Keeps(m, g.slots, n)
            /\ g.idx \in 0..Len(g.slots)
            /\ \/ g.idx # 0 /\ IsLive(g.slots, g.idx, name)
               \/ /\ Gone(g.slots, name)
                  /\ g.idx # 0 => g.slots[g.idx].st = "deleted"
        BY ZenonT(40), <3>1, <3>2, FindCorrect
      <3>4. Gone(g.slots, name)
        BY <3>2, <3>3, Zenon DEF Gone, Keeps
      <3>5. Same(s, m) /\ \A n : n # name => Keeps(s, m, n)
        BY <1>2, <3>2, Twice, Zenon
      <3>6. Same(s, g.slots) /\ \A n : n # name => Keeps(s, g.slots, n)
        BY <3>2, <3>3, <3>5, Twice, Zenon
      <3>7. QED
        BY <3>3, <3>4, <3>6, Zenon DEF Gone
    <2>2. CASE Gone(f.slots, name) /\ (f.idx # 0 => f.slots[f.idx].st = "deleted")
      <3>1. g = f
        BY <2>2, Zenon
      <3>2. QED
        BY ZenonT(40), <1>2, <2>2, <3>1
    <2>3. QED
      BY ZenonT(40), <1>2, <2>1, <2>2
  <1> HIDE DEF f, m, g
  <1>4. /\ Table(t) /\ Same(g.slots, t) /\ Holds(t, name, val)
        /\ \A n : n # name => Keeps(g.slots, t, n)
    BY ZenonT(40), <1>1, <1>3, PlaceCorrect
  <1>5. QED
    BY <1>3, <1>4, Twice, Zenon

\* A deletion takes the name away and keeps the other names.
LEMMA DeleteCorrect ==
    ASSUME NEW s, Table(s), NEW name, NEW t, t = ngx_dyups_do_delete(s, name)
    PROVE  /\ Table(t) /\ Same(s, t) /\ Gone(t, name)
           /\ \A n : n # name => Keeps(s, t, n)
  <1> DEFINE f == ngx_dyups_find_upstream(s, name)
  <1>1. t = IF f.idx = 0 \/ f.slots[f.idx].st # "live" THEN f.slots
            ELSE ngx_dyups_mark_upstream_delete(f.slots, f.idx)
    BY Zenon DEF ngx_dyups_do_delete
  <1>2. /\ Table(f.slots) /\ Same(s, f.slots) /\ \A n : Keeps(s, f.slots, n)
        /\ f.idx \in 0..Len(f.slots)
        /\ \/ f.idx # 0 /\ IsLive(f.slots, f.idx, name)
           \/ /\ Gone(f.slots, name)
              /\ f.idx # 0 => f.slots[f.idx].st = "deleted"
    BY FindCorrect, Zenon
  <1> HIDE DEF f
  <1>3. CASE f.idx # 0 /\ IsLive(f.slots, f.idx, name)
    <2>1. t = ngx_dyups_mark_upstream_delete(f.slots, f.idx)
      BY <1>1, <1>3, Zenon DEF IsLive
    <2>2. /\ Table(t) /\ Same(f.slots, t) /\ Gone(t, name)
          /\ \A n : n # name => Keeps(f.slots, t, n)
      BY <1>2, <1>3, <2>1, MarkCorrect
    <2>3. QED
      BY <1>2, <2>2, Twice, Zenon
  <1>4. CASE Gone(f.slots, name) /\ (f.idx # 0 => f.slots[f.idx].st = "deleted")
    <2>1. t = f.slots
      BY <1>1, <1>4, Zenon
    <2>2. QED
      BY <1>2, <1>4, <2>1, Zenon
  <1>5. QED
    BY <1>2, <1>3, <1>4, Zenon

\* A trial in the sandbox keeps every name of the configuration.
LEMMA SandboxCorrect ==
    ASSUME NEW s, Table(s), NEW val \in Contents,
           NEW t, t = ngx_dyups_sandbox_update(s, val)
    PROVE  Table(t) /\ Same(s, t) /\ \A n \in Names : Keeps(s, t, n)
  <1> DEFINE u == ngx_dyups_do_update(s, Sandbox, val)
  <1>1. Table(u) /\ Same(s, u) /\ \A n : n # Sandbox => Keeps(s, u, n)
    BY UpdateCorrect
  <1>2. t = ngx_dyups_do_delete(u, Sandbox)
    BY Zenon DEF ngx_dyups_sandbox_update
  <1> HIDE DEF u
  <1>3. Table(t) /\ Same(u, t) /\ \A n : n # Sandbox => Keeps(u, t, n)
    BY <1>1, <1>2, DeleteCorrect
  <1>4. QED
    BY <1>1, <1>3, Twice, TableAssumption, Zenon

-----------------------------------------------------------------------------
(* The users of the pools *)

HolderType == {Free} \cup [slot : Nat, kind : {"request", "connection"}]

(* Who uses an upstream is among its users, and nobody else is.            *)
Users ==
    /\ holder \in [Holders -> HolderType]
    /\ \A h \in Holders : holder[h] # Free =>
          holder[h].slot \in DOMAIN slots /\ h \in slots[holder[h].slot].users
    /\ \A i \in DOMAIN slots : \A h \in slots[i].users :
          holder[h] # Free /\ holder[h].slot = i

PInv == Table(slots) /\ Users

\* The invariant is what is to be shown.
LEMMA InvPools == PInv => PoolsInUse
  <1> SUFFICES ASSUME PInv PROVE PoolsInUse
    BY Zenon
  <1>1. ASSUME NEW h \in Holders, holder[h] # Free
        PROVE  h \in slots[holder[h].slot].users /\ slots[holder[h].slot].st # "deleted"
    BY <1>1, Zenon DEF PInv, Users, Table, Good
  <1>2. \A i \in DOMAIN slots : slots[i].ref = Cardinality(slots[i].users)
    BY Zenon DEF PInv, Table, Good
  <1>3. QED
    BY <1>1, <1>2, Zenon DEF PoolsInUse

\* The upstreams of the configuration file.
LEMMA InitPools == Init => PInv
  <1> SUFFICES ASSUME Init PROVE PInv
    BY Zenon
  <1>1. PICK names \in [1..Cardinality(Names) -> Names] :
           /\ \A i, j \in DOMAIN names : names[i] = names[j] => i = j
           /\ slots = [i \in DOMAIN names |-> Slot(names[i], Initial)]
    BY ZenonT(40) DEF Init
  <1>2. Cardinality(Names) \in Nat
    BY TableAssumption, FS_CardinalityType, Zenon
  <1>3. DOMAIN slots = 1..Cardinality(Names)
    BY <1>1, Zenon
  <1>4. \A i \in DOMAIN slots :
           /\ slots[i] \in SlotType /\ slots[i].users = {} /\ slots[i].ref = 0
           /\ slots[i].st = "live" /\ slots[i].name = names[i]
    BY ZenonT(40), <1>1, <1>3 DEF Slot, SlotType, Contents
  <1>5. slots \in Seq(SlotType)
    BY <1>1, <1>2, <1>3, <1>4
  <1>6. Good(slots)
    BY ZenonT(40), <1>4, <1>5, FS_EmptySet DEF Good
  <1>7. One(slots)
    BY <1>1, <1>3, <1>4 DEF One, IsLive
  <1>8. Users
    BY <1>4, Zenon DEF Init, Users, HolderType
  <1>9. QED
    BY <1>6, <1>7, <1>8, Zenon DEF PInv, Table

\* A change of the table leaves its users what they use.
LEMMA ChangePools ==
    ASSUME PInv, Table(slots'), Same(slots, slots'), UNCHANGED holder
    PROVE  PInv'
  <1>1. /\ DOMAIN slots = 1..Len(slots) /\ DOMAIN slots' = 1..Len(slots')
        /\ Len(slots) \in Nat /\ Len(slots') \in Nat
    BY LenProperties, Zenon DEF PInv, Table, Good
  <1>2. DOMAIN slots \subseteq DOMAIN slots'
    BY <1>1 DEF Same
  <1>3. Users'
    BY <1>2 DEF PInv, Users, Same
  <1>4. QED
    BY <1>3, Zenon DEF PInv

\* A slot whose users and references change together.
LEMMA CountPools ==
    ASSUME Table(slots), NEW i \in DOMAIN slots, NEW U \in SUBSET Holders, NEW r \in Nat,
           r = Cardinality(U), slots[i].st = "deleted" => U = {},
           slots' = [slots EXCEPT ![i] = [slots[i] EXCEPT !.ref = r, !.users = U]]
    PROVE  /\ Table(slots') /\ DOMAIN slots' = DOMAIN slots /\ slots'[i].users = U
           /\ \A j \in DOMAIN slots : j # i => slots'[j] = slots[j]
           /\ \A n : Keeps(slots, slots', n)
  <1>1. slots \in Seq(SlotType) /\ slots[i] \in SlotType
    BY UsersFinite, Zenon DEF Table, Good
  <1> DEFINE e == [slots[i] EXCEPT !.ref = r, !.users = U]
  <1>2. /\ e \in SlotType /\ e.users = U /\ e.ref = r /\ e.st = slots[i].st
        /\ e.name = slots[i].name /\ e.val = slots[i].val
    BY ZenonT(40), <1>1 DEF SlotType
  <1>3. slots' = [slots EXCEPT ![i] = e]
    BY Zenon
  <1> HIDE DEF e
  <1>4. /\ slots' \in Seq(SlotType) /\ DOMAIN slots' = DOMAIN slots
        /\ slots'[i] = e /\ \A j \in DOMAIN slots : j # i => slots'[j] = slots[j]
    BY <1>1, <1>2, <1>3
  <1>5. Good(slots')
    BY <1>2, <1>4, Zenon DEF Table, Good
  <1>6. ASSUME NEW n, NEW j PROVE IsLive(slots', j, n) <=> IsLive(slots, j, n)
    BY <1>2, <1>4, Zenon DEF IsLive
  <1>7. One(slots')
    BY <1>4, <1>6, Zenon DEF Table, One
  <1>8. ASSUME NEW n PROVE Keeps(slots, slots', n)
    BY <1>2, <1>4, <1>6, Zenon DEF Keeps, IsLive
  <1>9. QED
    BY ZenonT(40), <1>2, <1>4, <1>5, <1>7, <1>8 DEF Table

\* A request takes an upstream, or a connection keeps that of its request.
LEMMA TakePools ==
    ASSUME PInv, NEW h \in Holders, NEW i \in DOMAIN slots, holder[h] = Free,
           slots[i].st # "deleted", NEW kind \in {"request", "connection"},
           slots' = [slots EXCEPT ![i].ref = @ + 1, ![i].users = @ \cup {h}],
           holder' = [holder EXCEPT ![h] = [slot |-> i, kind |-> kind]]
    PROVE  PInv' /\ \A n : Keeps(slots, slots', n)
  <1>1. slots[i] \in SlotType /\ IsFiniteSet(slots[i].users) /\ i \in Nat
    BY UsersFinite, LenProperties DEF PInv, Table, Good
  <1> DEFINE U == slots[i].users \cup {h}
             r == slots[i].ref + 1
  <1>2. h \notin slots[i].users
    BY Zenon DEF PInv, Users
  <1>3. U \in SUBSET Holders /\ r \in Nat
    <2>1. slots[i].users \in SUBSET Holders /\ slots[i].ref \in Nat
      BY ZenonT(40), <1>1 DEF SlotType
    <2>2. QED
      BY <2>1
  <1>4. r = Cardinality(U)
    <2>1. slots[i].ref = Cardinality(slots[i].users)
      BY Zenon DEF PInv, Table, Good
    <2>2. Cardinality(U) = Cardinality(slots[i].users) + 1
      BY ZenonT(40), <1>1, <1>2, FS_AddElement
    <2>3. QED
      BY <2>1, <2>2, Zenon
  <1>5. slots' = [slots EXCEPT ![i] = [slots[i] EXCEPT !.ref = r, !.users = U]]
    BY ZenonT(40), <1>1 DEF SlotType
  <1> HIDE DEF r
  <1>6. /\ Table(slots') /\ DOMAIN slots' = DOMAIN slots /\ slots'[i].users = U
        /\ \A j \in DOMAIN slots : j # i => slots'[j] = slots[j]
        /\ \A n : Keeps(slots, slots', n)
    BY ZenonT(40), <1>3, <1>4, <1>5, CountPools DEF PInv
  <1>7. /\ holder' \in [Holders -> HolderType]
        /\ holder'[h] # Free /\ holder'[h].slot = i
        /\ \A g \in Holders : g # h => holder'[g] = holder[g]
    BY <1>1, Zenon DEF PInv, Users, HolderType, Free
  <1>8. ASSUME NEW g \in Holders, holder'[g] # Free
        PROVE  holder'[g].slot \in DOMAIN slots' /\ g \in slots'[holder'[g].slot].users
    <2>1. CASE g = h
      BY <1>6, <1>7, <2>1, Zenon
    <2>2. CASE g # h
      <3>1. holder'[g] = holder[g] /\ holder[g] # Free
        BY <1>7, <1>8, <2>2, Zenon
      <3>2. holder[g].slot \in DOMAIN slots /\ g \in slots[holder[g].slot].users
        BY <3>1, Zenon DEF PInv, Users
      <3>3. QED
        BY <1>6, <3>1, <3>2, Zenon
    <2>3. QED
      BY <2>1, <2>2, Zenon
  <1>9. ASSUME NEW j \in DOMAIN slots', NEW g \in slots'[j].users
        PROVE  holder'[g] # Free /\ holder'[g].slot = j
    <2>1. CASE j = i /\ g = h
      BY <1>7, <2>1, Zenon
    <2>2. CASE ~(j = i /\ g = h)
      <3>1. j \in DOMAIN slots /\ g \in slots[j].users
        BY <1>6, <1>9, <2>2, Zenon
      <3>2. g \in Holders /\ holder[g] # Free /\ holder[g].slot = j
        BY ZenonT(40), <3>1, UsersFinite DEF PInv, Users, Table, SlotType
      <3>3. g # h
        BY <3>2, Zenon
      <3>4. QED
        BY <1>7, <3>2, <3>3, Zenon
    <2>3. QED
      BY <2>1, <2>2, Zenon
  <1>10. Users'
    BY Zenon, <1>7, <1>8, <1>9 DEF Users
  <1>11. PInv'
    BY Zenon, <1>6, <1>10 DEF PInv
  <1>12. QED
    BY ZenonT(40), <1>6, <1>11

\* A request or a connection leaves its upstream.
LEMMA LeavePools ==
    ASSUME PInv, NEW h \in Holders, ngx_http_dyups_clean_request(h)
    PROVE  PInv' /\ \A n : Keeps(slots, slots', n)
  <1>1. PICK i \in DOMAIN slots : i = holder[h].slot /\ h \in slots[i].users
    BY Zenon DEF PInv, Users, ngx_http_dyups_clean_request
  <1>2. slots[i] \in SlotType /\ IsFiniteSet(slots[i].users)
    BY UsersFinite, Zenon DEF PInv, Table
  <1> DEFINE U == slots[i].users \ {h}
             r == slots[i].ref - 1
  <1>3. U \in SUBSET Holders /\ IsFiniteSet(U)
    BY ZenonT(40), <1>2, FS_RemoveElement DEF SlotType
  <1>4. r = Cardinality(U)
    <2>1. slots[i].ref = Cardinality(slots[i].users)
      BY Zenon DEF PInv, Table, Good
    <2>2. Cardinality(U) = Cardinality(slots[i].users) - 1
      BY ZenonT(40), <1>1, <1>2, FS_RemoveElement
    <2>3. QED
      BY <2>1, <2>2, Zenon
  <1>5. r \in Nat
    BY <1>3, <1>4, FS_CardinalityType, Zenon
  <1>6. slots' = [slots EXCEPT ![i] = [slots[i] EXCEPT !.ref = r, !.users = U]]
    BY ZenonT(40), <1>1, <1>2 DEF SlotType, ngx_http_dyups_clean_request
  <1>7. slots[i].st # "deleted"
    BY <1>1, Zenon DEF PInv, Table, Good
  <1> HIDE DEF r
  <1>8. /\ Table(slots') /\ DOMAIN slots' = DOMAIN slots /\ slots'[i].users = U
        /\ \A j \in DOMAIN slots : j # i => slots'[j] = slots[j]
        /\ \A n : Keeps(slots, slots', n)
    BY ZenonT(40), <1>3, <1>4, <1>5, <1>6, <1>7, CountPools DEF PInv
  <1>9. /\ holder' \in [Holders -> HolderType] /\ holder'[h] = Free
        /\ \A g \in Holders : g # h => holder'[g] = holder[g]
    BY Zenon DEF PInv, Users, HolderType, ngx_http_dyups_clean_request
  <1>10. ASSUME NEW g \in Holders, holder'[g] # Free
         PROVE  holder'[g].slot \in DOMAIN slots' /\ g \in slots'[holder'[g].slot].users
    <2>1. g # h /\ holder'[g] = holder[g] /\ holder[g] # Free
      BY <1>9, <1>10, Zenon
    <2>2. holder[g].slot \in DOMAIN slots /\ g \in slots[holder[g].slot].users
      BY <2>1, Zenon DEF PInv, Users
    <2>3. QED
      BY <1>8, <2>1, <2>2, Zenon
  <1>11. ASSUME NEW j \in DOMAIN slots', NEW g \in slots'[j].users
         PROVE  holder'[g] # Free /\ holder'[g].slot = j
    <2>1. j \in DOMAIN slots /\ g \in slots[j].users /\ (j = i => g # h)
      BY <1>8, Zenon
    <2>2. g \in Holders /\ holder[g] # Free /\ holder[g].slot = j
      BY ZenonT(40), <2>1, UsersFinite DEF PInv, Users, Table, SlotType
    <2>3. g # h
      BY <1>1, <2>1, <2>2, Zenon
    <2>4. QED
      BY <1>9, <2>2, <2>3, Zenon
  <1>12. Users'
    BY Zenon, <1>9, <1>10, <1>11 DEF Users
  <1>13. PInv'
    BY Zenon, <1>8, <1>12 DEF PInv
  <1>14. QED
    BY <1>8, <1>13, Zenon

-----------------------------------------------------------------------------
(* The steps *)

(* What a step does to the content of the names: nothing, or it gives one  *)
(* name a content or none.                                                 *)
Gives(name, val) ==
    /\ \/ Holds(slots', name, val)
       \/ Gone(slots', name) /\ val = Absent
    /\ \A n \in Names : n # name => Keeps(slots, slots', n)
Effect ==
    \/ \A n \in Names : Keeps(slots, slots', n)
    \/ \E name \in Names, val \in Contents : Gives(name, val)

\* Every step keeps the invariant and changes at most one name.
LEMMA StepCorrect == ASSUME PInv, [Next]_vars PROVE PInv' /\ Effect
  <1>1. ASSUME NEW name \in Names, NEW val \in Vals, ngx_dyups_update_upstream(name, val)
        PROVE  PInv' /\ Effect
    <2> DEFINE u == ngx_dyups_sandbox_update(slots, val)
               b == ngx_dyups_sandbox_update(slots, Broken)
    <2>1. val \in Contents /\ Broken \in Contents /\ Table(slots) /\ UNCHANGED holder
      BY <1>1, Zenon DEF Contents, PInv, ngx_dyups_update_upstream
    <2>2. Table(u) /\ Same(slots, u) /\ \A n \in Names : Keeps(slots, u, n)
      BY <2>1, SandboxCorrect, Zenon
    <2>3. Table(b) /\ Same(slots, b) /\ \A n \in Names : Keeps(slots, b, n)
      BY <2>1, SandboxCorrect, Zenon
    <2>4. \/ \E v \in {val, Broken} : slots' = ngx_dyups_do_update(u, name, v)
          \/ slots' = b
      BY <1>1, Zenon DEF ngx_dyups_update_upstream
    <2> HIDE DEF u, b
    <2>5. ASSUME NEW v \in {val, Broken}, slots' = ngx_dyups_do_update(u, name, v)
          PROVE  PInv' /\ Effect
      <3>1. /\ Table(slots') /\ Same(u, slots') /\ Holds(slots', name, v)
            /\ \A n : n # name => Keeps(u, slots', n)
        BY <2>1, <2>2, <2>5, UpdateCorrect
      <3>2. Same(slots, slots') /\ \A n \in Names : n # name => Keeps(slots, slots', n)
        BY <2>1, <2>2, <3>1, Twice, Zenon
      <3>3. v \in Contents
        BY <2>1, Zenon
      <3>4. QED
        BY <2>1, <3>1, <3>2, <3>3, ChangePools, Zenon DEF Effect, Gives
    <2>6. CASE slots' = b
      BY <2>1, <2>3, <2>6, ChangePools, Zenon DEF Effect
    <2>7. QED
      BY <2>4, <2>5, <2>6, Zenon
  <1>2. ASSUME NEW name \in Names, NEW val \in Vals, ngx_dyups_sync_cmd(name, val)
        PROVE  PInv' /\ Effect
    <2>1. PICK v \in {val, Broken} : slots' = ngx_dyups_do_update(slots, name, v)
      BY <1>2, Zenon DEF ngx_dyups_sync_cmd
    <2>2. v \in Contents /\ Table(slots) /\ UNCHANGED holder
      BY <1>2, Zenon DEF Contents, PInv, ngx_dyups_sync_cmd
    <2>3. /\ Table(slots') /\ Same(slots, slots') /\ Holds(slots', name, v)
          /\ \A n : n # name => Keeps(slots, slots', n)
      BY <2>1, <2>2, UpdateCorrect
    <2>4. QED
      BY <2>2, <2>3, ChangePools, Zenon DEF Effect, Gives
  <1>3. ASSUME NEW name \in Names, ngx_dyups_delete_upstream(name)
        PROVE  PInv' /\ Effect
    <2>1. /\ slots' = ngx_dyups_do_delete(slots, name) /\ UNCHANGED holder
          /\ Table(slots) /\ Absent \in Contents
      BY <1>3, Zenon DEF ngx_dyups_delete_upstream, PInv, Contents
    <2>2. /\ Table(slots') /\ Same(slots, slots') /\ Gone(slots', name)
          /\ \A n : n # name => Keeps(slots, slots', n)
      BY SMTT(40), <2>1, DeleteCorrect
    <2>3. QED
      BY <2>1, <2>2, ChangePools, Zenon DEF Effect, Gives
  <1>4. ASSUME NEW h \in Holders, NEW i \in DOMAIN slots, ngx_http_dyups_init_peer(i, h)
        PROVE  PInv' /\ Effect
    BY ZenonT(40), <1>4, TakePools DEF ngx_http_dyups_init_peer, Effect
  <1>5. ASSUME NEW h \in Holders, NEW c \in Holders, ngx_http_dyups_free_peer(h, c)
        PROVE  PInv' /\ Effect
    <2>1. PICK i \in DOMAIN slots : i = holder[h].slot /\ h \in slots[i].users
      BY <1>5, Zenon DEF ngx_http_dyups_free_peer, PInv, Users
    <2>2. slots[i].st # "deleted"
      BY <2>1, Zenon DEF PInv, Table, Good
    <2>3. /\ holder[c] = Free
          /\ slots' = [slots EXCEPT ![i].ref = @ + 1, ![i].users = @ \cup {c}]
          /\ holder' = [holder EXCEPT ![c] = [slot |-> i, kind |-> "connection"]]
      BY <1>5, <2>1, Zenon DEF ngx_http_dyups_free_peer
    <2>4. QED
      BY ZenonT(40), <2>2, <2>3, TakePools DEF Effect
  <1>6. ASSUME NEW h \in Holders, ngx_http_dyups_clean_request(h)
        PROVE  PInv' /\ Effect
    BY <1>6, LeavePools, Zenon DEF Effect
  <1>7. CASE UNCHANGED vars
    <2>1. UNCHANGED <<slots, holder>>
      BY <1>7, Zenon DEF vars
    <2>2. PInv'
      BY <2>1, ZenonT(30) DEF PInv, Table, Good, One, IsLive, Users
    <2>3. Effect
      BY <2>1, Zenon DEF Effect, Keeps, IsLive
    <2>4. QED
      BY <2>2, <2>3, Zenon
  <1>8. QED
    BY <1>1, <1>2, <1>3, <1>4, <1>5, <1>6, <1>7, Zenon DEF Next

(* Whatever is updated, deleted and tried in the sandbox, no pool that a   *)
(* request or a connection uses is destroyed or given to another upstream. *)
THEOREM PoolsStayInUse == Spec => []PoolsInUse
  <1>1. PInv /\ [Next]_vars => PInv'
    BY StepCorrect, Zenon
  <1>2. QED
    BY <1>1, InitPools, InvPools, PTL DEF Spec

-----------------------------------------------------------------------------
(* The table is a map *)

ContentIn(s, name) ==
    LET vals == {s[i].val : i \in Lives(s, name)}
    IN  IF vals = {} THEN Absent
        ELSE IF Cardinality(Lives(s, name)) = 1
        THEN CHOOSE v \in vals : TRUE
        ELSE "twice"

\* The content of a name is that of its live upstream.
LEMMA ContentHolds ==
    ASSUME NEW s, Table(s), NEW name, NEW val, Holds(s, name, val)
    PROVE  ContentIn(s, name) = val
  <1>1. PICK i : IsLive(s, i, name) /\ s[i].val = val
    BY Zenon DEF Holds
  <1>2. i \in DOMAIN s
    BY <1>1, Zenon DEF IsLive
  <1>3. Lives(s, name) = {i}
    BY <1>1, <1>2, Zenon DEF Lives, IsLive, Table, One
  <1>4. {s[j].val : j \in Lives(s, name)} = {val}
    BY <1>1, <1>3, Zenon
  <1>5. Cardinality(Lives(s, name)) = 1
    BY <1>3, FS_Singleton, Zenon
  <1>6. (CHOOSE v \in {val} : TRUE) = val
    BY Zenon
  <1>7. QED
    BY <1>4, <1>5, <1>6, Zenon DEF ContentIn

\* A name without a live upstream has no content.
LEMMA ContentGone ==
    ASSUME NEW s, NEW name, Gone(s, name)
    PROVE  ContentIn(s, name) = Absent
  <1>1. Lives(s, name) = {}
    BY Zenon DEF Gone, IsLive, Lives
  <1>2. QED
    BY <1>1, Zenon DEF ContentIn

\* A change that keeps a name keeps its content.
LEMMA ContentKept ==
    ASSUME NEW s, NEW t, Table(s), Table(t), NEW name, Keeps(s, t, name)
    PROVE  ContentIn(s, name) = ContentIn(t, name)
  <1>1. CASE Gone(s, name)
    <2>1. Gone(t, name)
      BY <1>1, Zenon DEF Gone, Keeps
    <2>2. QED
      BY <1>1, <2>1, ContentGone, Zenon
  <1>2. CASE ~Gone(s, name)
    <2>1. PICK i : IsLive(s, i, name)
      BY <1>2, Zenon DEF Gone
    <2>2. IsLive(t, i, name) /\ t[i].val = s[i].val
      BY <2>1, Zenon DEF Keeps
    <2>3. Holds(s, name, s[i].val) /\ Holds(t, name, s[i].val)
      BY <2>1, <2>2, Zenon DEF Holds
    <2>4. QED
      BY <2>3, ContentHolds, Zenon
  <1>3. QED
    BY <1>1, <1>2, Zenon

\* The upstreams of the configuration file are those of every name.
LEMMA InitContent == ASSUME Init, NEW n \in Names PROVE Holds(slots, n, Initial)
  <1>1. PICK names \in [1..Cardinality(Names) -> Names] :
           /\ \A i, j \in DOMAIN names : names[i] = names[j] => i = j
           /\ slots = [i \in DOMAIN names |-> Slot(names[i], Initial)]
    BY ZenonT(40) DEF Init
  <1> DEFINE I == 1..Cardinality(Names)
  <1>2. Cardinality(Names) \in Nat
    BY TableAssumption, FS_CardinalityType, Zenon
  <1>3. IsFiniteSet(I) /\ Cardinality(I) = Cardinality(Names)
    BY <1>2, FS_Interval
  <1>4. names \in Injection(I, Names)
    BY <1>1, Zenon DEF Injection, IsInjective
  <1>5. names \in Surjection(I, Names)
    BY <1>3, <1>4, FS_Injection, TableAssumption, Zenon
  <1>6. PICK i \in I : names[i] = n
    BY <1>5, Zenon DEF Surjection
  <1>7. i \in DOMAIN slots /\ slots[i] = Slot(n, Initial)
    BY <1>1, <1>6, Zenon
  <1>8. QED
    BY <1>7 DEF Holds, IsLive, Slot

(* The table implements the map of Upstreams: every update, deletion and   *)
(* trial changes the content of its own name or of none.                   *)
THEOREM TableIsMap == Spec => IsMap
  <1> DEFINE conf == [n \in Names |-> Content(n)]
  <1>1. conf = [n \in Names |-> ContentIn(slots, n)]
    BY Zenon DEF Content, ContentIn
  <1>2. conf' = [n \in Names |-> ContentIn(slots', n)]
    BY Zenon DEF Content, ContentIn, Lives
  <1>3. Init => Map!Init
    <2> SUFFICES ASSUME Init PROVE conf = [n \in Names |-> Initial]
      BY Zenon DEF Map!Init, Map!Initial, Initial
    <2>1. \A n \in Names : ContentIn(slots, n) = Initial
      BY InitContent, InitPools, ContentHolds, Zenon DEF PInv
    <2>2. QED
      BY <1>1, <2>1, Zenon
  <1>4. ASSUME PInv, [Next]_vars PROVE [Map!Next]_conf
    <2>1. Table(slots) /\ Table(slots') /\ Effect
      BY <1>4, StepCorrect, Zenon DEF PInv
    <2>2. CASE \A n \in Names : Keeps(slots, slots', n)
      <3>1. \A n \in Names : ContentIn(slots, n) = ContentIn(slots', n)
        BY <2>1, <2>2, ContentKept, Zenon
      <3>2. QED
        BY <1>1, <1>2, <3>1, Zenon
    <2>3. ASSUME NEW name \in Names, NEW val \in Contents, Gives(name, val)
          PROVE  Map!Next
      <3>1. ContentIn(slots', name) = val
        BY <2>1, <2>3, ContentHolds, ContentGone, Zenon DEF Gives
      <3>2. \A n \in Names : n # name => ContentIn(slots, n) = ContentIn(slots', n)
        BY <2>1, <2>3, ContentKept, Zenon DEF Gives
      <3>3. conf' = [conf EXCEPT ![name] = val]
        BY ZenonT(40), <1>1, <1>2, <3>1, <3>2
      <3>4. val \in Map!Contents
        BY Zenon DEF Contents, Map!Contents, Map!Initial, Map!Broken, Map!Absent,
               Initial, Broken, Absent
      <3>5. QED
        BY ZenonT(40), <3>3, <3>4 DEF Map!Next, Map!Change
    <2>4. QED
      BY <2>1, <2>2, <2>3, Zenon DEF Effect
  <1>5. PInv /\ [Next]_vars => PInv'
    BY StepCorrect, Zenon
  <1>6. QED
    BY <1>3, <1>4, <1>5, InitPools, PTL DEF Spec, IsMap, Map!Spec

-----------------------------------------------------------------------------
(* The length of the table *)

Bound == Cardinality(Names) + Cardinality(Holders) + 1

(* Slots have no users in common, and live ones a name.                    *)
Disjoint(s) == \A i, j \in DOMAIN s : \A h : h \in s[i].users /\ h \in s[j].users => i = j
Named(s) == \A i, n : IsLive(s, i, n) => n \in Names \cup {Sandbox}

Short(s) == Table(s) /\ Disjoint(s) /\ Named(s) /\ Len(s) <= Bound

\* The bound is a number.
LEMMA BoundNat ==
    /\ Cardinality(Names) \in Nat /\ Cardinality(Holders) \in Nat /\ Bound \in Nat
  BY TableAssumption, FS_CardinalityType DEF Bound

\* Slots that keep their users keep them apart.
LEMMA SameDisjoint ==
    ASSUME NEW s, NEW t, Disjoint(s), Same(s, t)
    PROVE  Disjoint(t)
  BY Zenon DEF Disjoint, Same

\* A search keeps the length of the table, and where it finds nothing every
\* slot is live or in use.
LEMMA FindFull ==
    ASSUME NEW s, Table(s), NEW name, NEW f, f = ngx_dyups_find_upstream(s, name)
    PROVE  /\ Len(f.slots) = Len(s)
           /\ f.idx = 0 => \A i \in DOMAIN f.slots :
                              f.slots[i].st = "live" \/ f.slots[i].users # {}
  <1> DEFINE hits  == Lives(s, name)
             last  == IF hits = {} THEN Len(s) ELSE MinOf(hits)
             t     == [i \in DOMAIN s |->
                         IF i <= last /\ s[i].st = "deleting" /\ s[i].ref = 0
                         THEN [s[i] EXCEPT !.st = "deleted"]
                         ELSE s[i]]
             frees == {i \in 1..last : t[i].st = "deleted"}
  <1>1. f.slots = t /\ f.idx = IF hits # {} THEN last
                               ELSE IF frees # {} THEN MaxOf(frees) ELSE 0
    BY Zenon DEF ngx_dyups_find_upstream
  <1>2. DOMAIN s = 1..Len(s) /\ Len(s) \in Nat
    BY LenProperties, Zenon DEF Table, Good
  <1>3. Len(f.slots) = Len(s)
    BY <1>1, <1>2
  <1>4. hits \in SUBSET Nat /\ hits \in SUBSET DOMAIN s
    BY <1>2 DEF Lives
  <1>5. hits # {} => last \in DOMAIN s
    BY <1>4, MinOfIn, Zenon
  <1>6. ASSUME f.idx = 0, NEW i \in DOMAIN f.slots
        PROVE  f.slots[i].st = "live" \/ f.slots[i].users # {}
    <2>1. hits = {}
      BY <1>1, <1>2, <1>5, <1>6
    <2>2. last = Len(s)
      BY <2>1, Zenon
    <2>3. i \in DOMAIN s /\ i <= last /\ i \in 1..last
      BY <1>1, <1>2, <1>6, <2>2
    <2> HIDE DEF hits, last
    <2>4. frees \in SUBSET (0..Len(s))
      BY SMTT(40), <1>2, <2>2
    <2>5. frees = {}
      <3> SUFFICES ASSUME frees # {} PROVE FALSE
        BY ZenonT(40)
      <3>1. MaxOf(frees) \in frees
        BY ZenonT(40), <1>2, <2>4, MaxOfIn
      <3>2. f.idx = MaxOf(frees) /\ MaxOf(frees) \in 1..Len(s)
        BY ZenonT(40), <1>1, <2>1, <2>2, <3>1
      <3>3. QED
        BY <1>2, <1>6, <3>2
    <2>6. t[i].st # "deleted"
      BY ZenonT(40), <2>3, <2>5
    <2>7. s[i] \in SlotType /\ (s[i].ref = 0 <=> s[i].users = {})
      BY <2>3, UsersFinite, Zenon DEF Table
    <2>8. ~(s[i].st = "deleting" /\ s[i].ref = 0) /\ t[i] = s[i]
      BY ZenonT(40), <2>3, <2>6, <2>7 DEF SlotType
    <2>9. QED
      BY ZenonT(40), <1>1, <2>6, <2>7, <2>8 DEF SlotType
  <1>7. QED
    BY <1>3, <1>6, Zenon

\* Slots that are live, under other names, or in use are not too many.
LEMMA FewSlots ==
    ASSUME NEW s, Table(s), Disjoint(s), Named(s), NEW name \in Names \cup {Sandbox},
           Gone(s, name), \A i \in DOMAIN s : s[i].st = "live" \/ s[i].users # {}
    PROVE  Len(s) + 1 <= Bound
  <1> DEFINE A == (Names \cup {Sandbox}) \ {name}
             L == {i \in DOMAIN s : s[i].st = "live"}
             D == DOMAIN s \ L
             f == [i \in L |-> s[i].name]
             g == [i \in D |-> CHOOSE h : h \in s[i].users]
  <1>1. DOMAIN s = 1..Len(s) /\ Len(s) \in Nat
    BY LenProperties, Zenon DEF Table, Good
  <1>2. /\ IsFiniteSet(Names \cup {Sandbox})
        /\ Cardinality(Names \cup {Sandbox}) = Cardinality(Names) + 1
    BY TableAssumption, FS_AddElement, Zenon
  <1>3. IsFiniteSet(A) /\ Cardinality(A) = Cardinality(Names)
    BY SMTT(40), <1>2, BoundNat, FS_RemoveElement
  <1>4. f \in Injection(L, A)
    <2>1. \A i \in L : IsLive(s, i, s[i].name)
      BY Zenon DEF IsLive
    <2>2. \A i \in L : s[i].name \in A
      BY <2>1, Zenon DEF Named, Gone
    <2>3. \A i, j \in L : s[i].name = s[j].name => i = j
      BY <2>1, Zenon DEF Table, One
    <2>4. QED
      BY <2>2, <2>3, Zenon DEF Injection, IsInjective
  <1>5. g \in Injection(D, Holders)
    <2>1. \A i \in D : g[i] \in s[i].users
      BY Zenon
    <2>2. \A i \in D : g[i] \in Holders
      BY ZenonT(40), <2>1, UsersFinite DEF Table, SlotType
    <2>3. \A i, j \in D : g[i] = g[j] => i = j
      BY <2>1, Zenon DEF Disjoint
    <2> HIDE DEF D
    <2>4. g \in [D -> Holders]
      BY <2>2, Zenon
    <2> HIDE DEF g
    <2>5. QED
      BY <2>3, <2>4, Zenon DEF Injection, IsInjective
  <1> HIDE DEF f, g
  <1>6. /\ IsFiniteSet(L) /\ Cardinality(L) <= Cardinality(Names)
        /\ IsFiniteSet(D) /\ Cardinality(D) <= Cardinality(Holders)
    BY SMTT(40), <1>3, <1>4, <1>5, FS_Injection, TableAssumption
  <1>7. L \cup D = 1..Len(s) /\ L \cap D = {}
    BY <1>1, Zenon
  <1> HIDE DEF L, D
  <1>8. Cardinality(1..Len(s)) = Cardinality(L) + Cardinality(D) - 0
    <2>1. Cardinality(L \cup D) = Cardinality(L) + Cardinality(D) - Cardinality(L \cap D)
      BY <1>6, FS_Union, Zenon
    <2>2. Cardinality(L \cap D) = 0
      BY <1>7, FS_EmptySet, Zenon
    <2>3. QED
      BY ZenonT(40), <1>7, <2>1, <2>2
  <1>9. Cardinality(1..Len(s)) = Len(s)
    BY SMTT(40), <1>1, FS_Interval
  <1>10. Cardinality(L) \in Nat /\ Cardinality(D) \in Nat
    BY <1>6, FS_CardinalityType, Zenon
  <1>11. QED
    BY SMTT(40), <1>1, <1>6, <1>8, <1>9, <1>10, BoundNat DEF Bound

\* Sequences with the same domain have the same length.
LEMMA SameLength == ASSUME NEW m \in Nat, NEW n \in Nat, 1..m = 1..n PROVE m = n
  <1>1. \A k \in Nat : Cardinality(1..k) = k
    <2> SUFFICES ASSUME NEW k \in Nat PROVE Cardinality(1..k) = k
      BY Zenon
    <2>1. Cardinality(1..k) = IF 1 > k THEN 0 ELSE k - 1 + 1
      BY FS_Interval
    <2>2. QED
      BY <2>1
  <1>2. QED
    BY <1>1, Zenon

\* A search and a mark keep the table short.
LEMMA KeepsShort ==
    ASSUME NEW s, NEW t, Short(s), Table(t), Same(s, t), Len(t) = Len(s), NEW name,
           Gone(t, name) \/ Keeps(s, t, name), \A n : n # name => Keeps(s, t, n)
    PROVE  Short(t)
  <1>1. Disjoint(t)
    BY SameDisjoint, Zenon DEF Short
  <1>2. Named(t)
    <2> SUFFICES ASSUME NEW i, NEW n, IsLive(t, i, n) PROVE n \in Names \cup {Sandbox}
      BY Zenon DEF Named
    <2>1. Keeps(s, t, n)
      BY Zenon DEF Gone
    <2>2. IsLive(s, i, n)
      BY <2>1, Zenon DEF Keeps
    <2>3. QED
      BY <2>2, Zenon DEF Short, Named
  <1>3. QED
    BY <1>1, <1>2, Zenon DEF Short

\* A search keeps the table short.
LEMMA FindShort ==
    ASSUME NEW s, Short(s), NEW name, NEW f, f = ngx_dyups_find_upstream(s, name)
    PROVE  Short(f.slots)
  <1>1. Table(f.slots) /\ Same(s, f.slots) /\ \A n : Keeps(s, f.slots, n)
    BY FindCorrect, Zenon DEF Short
  <1>2. Len(f.slots) = Len(s)
    BY FindFull, Zenon DEF Short
  <1>3. QED
    BY <1>1, <1>2, KeepsShort, Zenon

\* A mark keeps the table short.
LEMMA MarkShort ==
    ASSUME NEW s, Short(s), NEW name, NEW i, IsLive(s, i, name),
           NEW t, t = ngx_dyups_mark_upstream_delete(s, i)
    PROVE  Short(t)
  <1>1. /\ Table(t) /\ Same(s, t) /\ Gone(t, name)
        /\ \A n : n # name => Keeps(s, t, n)
    BY MarkCorrect DEF Short
  <1>2. DOMAIN t = DOMAIN s
    BY ZenonT(40) DEF ngx_dyups_mark_upstream_delete
  <1>3. Len(t) = Len(s)
    <2>1. DOMAIN s = 1..Len(s) /\ Len(s) \in Nat
      BY LenProperties, Zenon DEF Short, Table, Good
    <2>2. DOMAIN t = 1..Len(t) /\ Len(t) \in Nat
      BY <1>1, LenProperties, Zenon DEF Table, Good
    <2>3. QED
      BY <1>2, <2>1, <2>2, SameLength, Zenon
  <1>4. QED
    BY <1>1, <1>3, KeepsShort, Zenon

\* An update keeps the table short.
LEMMA UpdateShort ==
    ASSUME NEW s, Short(s), NEW name \in Names \cup {Sandbox}, NEW val \in Contents,
           NEW t, t = ngx_dyups_do_update(s, name, val)
    PROVE  Short(t)
  <1> DEFINE f == ngx_dyups_find_upstream(s, name)
             m == ngx_dyups_mark_upstream_delete(f.slots, f.idx)
             g == IF f.idx # 0 /\ f.slots[f.idx].st = "live"
                  THEN ngx_dyups_find_upstream(m, name) ELSE f
  <1>1. t = IF g.idx = 0 THEN Append(g.slots, Slot(name, val))
            ELSE [g.slots EXCEPT ![g.idx] = Slot(name, val)]
    BY Zenon DEF ngx_dyups_do_update
  <1>2. /\ Table(t) /\ Same(s, t) /\ \A n : n # name => Keeps(s, t, n)
    BY UpdateCorrect, Zenon DEF Short
  <1>3. /\ Short(f.slots) /\ Table(f.slots)
        /\ \/ f.idx # 0 /\ IsLive(f.slots, f.idx, name)
           \/ /\ Gone(f.slots, name)
              /\ f.idx # 0 => f.slots[f.idx].st = "deleted"
    BY FindCorrect, FindShort, Zenon DEF Short
  <1>4. /\ Short(g.slots) /\ Gone(g.slots, name) /\ g.idx \in 0..Len(g.slots)
        /\ g.idx = 0 => \A i \in DOMAIN g.slots :
                           g.slots[i].st = "live" \/ g.slots[i].users # {}
    <2>1. CASE f.idx # 0 /\ IsLive(f.slots, f.idx, name)
      <3>1. g = ngx_dyups_find_upstream(m, name)
        BY <2>1, Zenon DEF IsLive
      <3>2. Short(m) /\ Gone(m, name)
        BY <1>3, <2>1, MarkShort, MarkCorrect, Zenon
      <3> HIDE DEF f, m, g
      <3>3. /\ \A n : Keeps(m, g.slots, n) /\ g.idx \in 0..Len(g.slots)
            /\ Short(g.slots)
            /\ g.idx = 0 => \A i \in DOMAIN g.slots :
                               g.slots[i].st = "live" \/ g.slots[i].users # {}
        BY ZenonT(40), <3>1, <3>2, FindCorrect, FindFull, FindShort DEF Short
      <3>4. Gone(g.slots, name)
        BY <3>2, <3>3, Zenon DEF Gone, Keeps
      <3>5. QED
        BY <3>3, <3>4, Zenon
    <2>2. CASE Gone(f.slots, name) /\ (f.idx # 0 => f.slots[f.idx].st = "deleted")
      <3>1. g = f
        BY <2>2, Zenon
      <3>2. f.idx \in 0..Len(f.slots)
        BY FindCorrect, Zenon DEF Short
      <3>3. f.idx = 0 => \A i \in DOMAIN f.slots :
                           f.slots[i].st = "live" \/ f.slots[i].users # {}
        BY FindFull, Zenon DEF Short
      <3>4. QED
        BY ZenonT(40), <1>3, <2>2, <3>1, <3>2, <3>3
    <2>3. QED
      BY ZenonT(40), <1>3, <2>1, <2>2
  <1> HIDE DEF f, m, g
  <1>5. g.slots \in Seq(SlotType) /\ Len(g.slots) \in Nat
    BY <1>4, LenProperties, Zenon DEF Short, Table, Good
  <1>6. Slot(name, val) \in SlotType
    BY ZenonT(40) DEF Slot, SlotType
  <1>7. Len(t) <= Bound
    <2>1. CASE g.idx = 0
      <3>1. Len(t) = Len(g.slots) + 1
        BY SMTT(40), <1>1, <1>5, <1>6, <2>1, AppendProperties
      <3>2. Len(g.slots) + 1 <= Bound
        BY ZenonT(40), <1>4, <2>1, FewSlots DEF Short
      <3>3. QED
        BY <3>1, <3>2, Zenon
    <2>2. CASE g.idx # 0
      <3>1. g.idx \in 1..Len(g.slots)
        BY <1>4, <1>5, <2>2
      <3>2. Len(t) = Len(g.slots)
        BY <1>1, <1>5, <1>6, <2>2, <3>1, ExceptSeq
      <3>3. QED
        BY <1>4, <3>2, Zenon DEF Short
    <2>3. QED
      BY <2>1, <2>2, Zenon
  <1>8. Disjoint(t)
    BY <1>2, SameDisjoint, Zenon DEF Short
  <1>9. Named(t)
    <2> SUFFICES ASSUME NEW i, NEW n, n # name, IsLive(t, i, n)
                 PROVE  n \in Names \cup {Sandbox}
      BY Zenon DEF Named
    <2>1. IsLive(s, i, n)
      BY <1>2, Zenon DEF Keeps
    <2>2. QED
      BY <2>1, Zenon DEF Short, Named
  <1>10. QED
    BY <1>2, <1>7, <1>8, <1>9, Zenon DEF Short

\* A deletion keeps the table short.
LEMMA DeleteShort ==
    ASSUME NEW s, Short(s), NEW name, NEW t, t = ngx_dyups_do_delete(s, name)
    PROVE  Short(t)
  <1> DEFINE f == ngx_dyups_find_upstream(s, name)
  <1>1. t = IF f.idx = 0 \/ f.slots[f.idx].st # "live" THEN f.slots
            ELSE ngx_dyups_mark_upstream_delete(f.slots, f.idx)
    BY Zenon DEF ngx_dyups_do_delete
  <1>2. /\ Short(f.slots)
        /\ \/ f.idx # 0 /\ IsLive(f.slots, f.idx, name)
           \/ f.idx # 0 => f.slots[f.idx].st = "deleted"
    BY FindCorrect, FindShort, Zenon DEF Short
  <1> HIDE DEF f
  <1>3. CASE f.idx # 0 /\ IsLive(f.slots, f.idx, name)
    <2>1. t = ngx_dyups_mark_upstream_delete(f.slots, f.idx)
      BY <1>1, <1>3, Zenon DEF IsLive
    <2>2. QED
      BY <1>2, <1>3, <2>1, MarkShort, Zenon
  <1>4. CASE f.idx # 0 => f.slots[f.idx].st = "deleted"
    BY <1>1, <1>2, <1>4, Zenon
  <1>5. QED
    BY <1>2, <1>3, <1>4, Zenon

\* A use or a release keeps the table short.
LEMMA HoldersShort ==
    ASSUME PInv, PInv', Short(slots), NEW i \in DOMAIN slots, NEW e,
           slots' = [slots EXCEPT ![i] = e], \A n : Keeps(slots, slots', n)
    PROVE  Short(slots')
  <1>1. Disjoint(slots')
    BY DEF PInv, Users, Disjoint
  <1>2. Named(slots')
    BY Zenon DEF Short, Named, Keeps
  <1>3. DOMAIN slots' = DOMAIN slots
    BY Zenon
  <1>4. DOMAIN slots = 1..Len(slots) /\ Len(slots) \in Nat
    BY LenProperties, Zenon DEF Short, Table, Good
  <1>5. DOMAIN slots' = 1..Len(slots') /\ Len(slots') \in Nat
    BY LenProperties, Zenon DEF PInv, Table, Good
  <1>6. Len(slots') = Len(slots)
    BY <1>3, <1>4, <1>5, SameLength, Zenon
  <1>7. QED
    BY <1>1, <1>2, <1>6, Zenon DEF Short, PInv

\* Every step keeps the table short.
LEMMA StepShort == ASSUME PInv, PInv', Short(slots), [Next]_vars PROVE Short(slots')
  <1>1. \A val \in Vals : val \in Contents
    BY Zenon DEF Contents
  <1>2. Broken \in Contents
    BY Zenon DEF Contents
  <1>3. ASSUME NEW val \in Contents
        PROVE  Short(ngx_dyups_sandbox_update(slots, val))
    BY UpdateShort, DeleteShort, Zenon DEF ngx_dyups_sandbox_update
  <1>4. ASSUME NEW name \in Names, NEW val \in Vals, ngx_dyups_update_upstream(name, val)
        PROVE  Short(slots')
    BY <1>1, <1>2, <1>3, <1>4, UpdateShort, Zenon DEF ngx_dyups_update_upstream
  <1>5. ASSUME NEW name \in Names, NEW val \in Vals, ngx_dyups_sync_cmd(name, val)
        PROVE  Short(slots')
    BY <1>1, <1>2, <1>5, UpdateShort, Zenon DEF ngx_dyups_sync_cmd
  <1>6. ASSUME NEW name \in Names, ngx_dyups_delete_upstream(name)
        PROVE  Short(slots')
    BY <1>6, DeleteShort, Zenon DEF ngx_dyups_delete_upstream
  <1>7. ASSUME NEW h \in Holders, NEW i \in DOMAIN slots, ngx_http_dyups_init_peer(i, h)
        PROVE  Short(slots')
    <2>1. \A n : Keeps(slots, slots', n)
      BY ZenonT(40), <1>7, TakePools DEF ngx_http_dyups_init_peer
    <2>2. \E e : slots' = [slots EXCEPT ![i] = e]
      BY ZenonT(40), <1>7 DEF ngx_http_dyups_init_peer
    <2>3. QED
      BY ZenonT(40), <2>1, <2>2, HoldersShort
  <1>8. ASSUME NEW h \in Holders, NEW c \in Holders, ngx_http_dyups_free_peer(h, c)
        PROVE  Short(slots')
    <2>1. PICK i \in DOMAIN slots : i = holder[h].slot /\ h \in slots[i].users
      BY ZenonT(40), <1>8 DEF ngx_http_dyups_free_peer, PInv, Users
    <2>2. slots[i].st # "deleted"
      BY <2>1, Zenon DEF PInv, Table, Good
    <2>3. /\ holder[c] = Free
          /\ slots' = [slots EXCEPT ![i].ref = @ + 1, ![i].users = @ \cup {c}]
          /\ holder' = [holder EXCEPT ![c] = [slot |-> i, kind |-> "connection"]]
      BY <1>8, <2>1, Zenon DEF ngx_http_dyups_free_peer
    <2>4. \A n : Keeps(slots, slots', n)
      BY ZenonT(40), <2>2, <2>3, TakePools
    <2>5. \E e : slots' = [slots EXCEPT ![i] = e]
      BY ZenonT(40), <2>3
    <2>6. QED
      BY ZenonT(40), <2>4, <2>5, HoldersShort
  <1>9. ASSUME NEW h \in Holders, ngx_http_dyups_clean_request(h)
        PROVE  Short(slots')
    <2>1. PICK i \in DOMAIN slots : i = holder[h].slot
      BY ZenonT(40), <1>9 DEF ngx_http_dyups_clean_request, PInv, Users
    <2>2. \E e : slots' = [slots EXCEPT ![i] = e]
      BY ZenonT(40), <1>9, <2>1 DEF ngx_http_dyups_clean_request
    <2>3. QED
      BY ZenonT(40), <1>9, <2>2, LeavePools, HoldersShort
  <1>10. CASE UNCHANGED vars
    BY <1>10, Zenon DEF vars, Short, Table, Good, One, IsLive, Disjoint, Named
  <1>11. QED
    BY <1>4, <1>5, <1>6, <1>7, <1>8, <1>9, <1>10, Zenon DEF Next

\* The table of the configuration file is short.
LEMMA InitShort == Init => Short(slots)
  <1> SUFFICES ASSUME Init PROVE Short(slots)
    BY Zenon
  <1>1. Table(slots) /\ Disjoint(slots)
    BY InitPools DEF PInv, Users, Disjoint
  <1>2. PICK names \in [1..Cardinality(Names) -> Names] :
           slots = [i \in DOMAIN names |-> Slot(names[i], Initial)]
    BY ZenonT(40) DEF Init
  <1>3. Named(slots)
    BY <1>2, Zenon DEF Named, IsLive, Slot
  <1>4. Len(slots) = Cardinality(Names)
    BY <1>2, BoundNat
  <1>5. QED
    BY <1>1, <1>3, <1>4, BoundNat DEF Short, Bound

(* The table never has more slots than names, users and one.               *)
THEOREM TableStaysShort == Spec => []SlotsAreReused
  <1>1. PInv /\ [Next]_vars => PInv'
    BY StepCorrect, Zenon
  <1>2. PInv /\ Short(slots) /\ [Next]_vars /\ PInv' => Short(slots)'
    BY StepShort, Zenon
  <1>3. Short(slots) => SlotsAreReused
    BY Zenon DEF Short, Bound, SlotsAreReused
  <1>4. QED
    BY <1>1, <1>2, <1>3, InitPools, InitShort, PTL DEF Spec

=============================================================================
