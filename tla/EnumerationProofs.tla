-------------------------- MODULE EnumerationProofs --------------------------
(***************************************************************************)
(* Proofs about Enumeration, for tables of any size and any writes between *)
(* the calls of a walk.  They rest on one fact about storage_set: a        *)
(* variable that is there before and after a write is in the same slot.    *)
(***************************************************************************)
EXTENDS Enumeration, TableProofs

\* A slot keeps its key, is cleared, or takes the key of the write when no
\* slot held it.
LEMMA SlotKeys ==
    ASSUME NEW s, TableOK(s), NEW k \in Keys, NEW data \in Seq(Atoms), NEW attrs \in SUBSET Attrs,
           NEW j \in Slots
    PROVE  LET t == storage_set(s, Plain(k), data, attrs).s
           IN  \/ t.slots[j].key = s.slots[j].key
               \/ t.slots[j].key = NoKey
               \/ t.slots[j].key = k /\ Matches(s, Plain(k)) = {}
<1> DEFINE n == Plain(k)
           m == Min(Matches(s, n))
           append == "AP" \in attrs
<1>1. ASSUME NEW i \in Slots, NEW v, NEW gained
      PROVE  PutSlot(s, i, v, gained).slots[j] = IF j = i THEN v ELSE s.slots[j]
  BY DEF PutSlot, TableOK, Table
<1>2. n.key = k /\ s \in Table
  BY DEF Plain, TableOK
<1>3. CASE TooLarge(s, n, data)
  BY <1>3 DEF storage_set, Result
<1>4. CASE ~TooLarge(s, n, data) /\ ((data = <<>> /\ ~append) \/ attrs = {})
  <2>1. CASE Matches(s, n) = {}
    BY <1>4, <2>1 DEF storage_set, storage_remove, Result
  <2>2. CASE Matches(s, n) # {}
    <3>1. storage_set(s, n, data, attrs).s = PutSlot(s, m, FreeSlot, -1)
      BY <1>4, <2>2 DEF storage_set, storage_remove, Result
    <3> QED
      BY <1>1, <2>2, <3>1, FirstMatch, FreeSlotType
  <2> QED
    BY <2>1, <2>2
<1>5. CASE /\ ~TooLarge(s, n, data)
           /\ ~((data = <<>> /\ ~append) \/ attrs = {})
           /\ storage_exists(s, n)
  <2> DEFINE a == attrs \ {"AP"}
             v == s.slots[m]
             new == IF append THEN v.data \o data ELSE data
             w == [v EXCEPT !.data = new]
  <2>1. m \in Slots
    BY <1>5, FirstMatch DEF storage_exists
  <2>2. storage_set(s, n, data, attrs) = ReplaceVariable(s, m, data, a, append)
    BY <1>5 DEF storage_set
  <2>3. \/ storage_set(s, n, data, attrs).s = s
        \/ storage_set(s, n, data, attrs).s = PutSlot(s, m, w, 0)
    BY <2>2 DEF ReplaceVariable, Result
  <2>4. w.key = v.key
    <3>1. v \in Variable
      BY <1>2, <2>1 DEF Table
    <3> QED
      BY <3>1 DEF Variable
  <2>5. PutSlot(s, m, w, 0).slots[j] = IF j = m THEN w ELSE s.slots[j]
    BY <1>1, <2>1
  <2> HIDE DEF w, n, m
  <2>6. storage_set(s, n, data, attrs).s.slots[j].key = s.slots[j].key
    BY <2>3, <2>4, <2>5
  <2> QED
    BY <2>6 DEF n
<1>6. CASE /\ ~TooLarge(s, n, data)
           /\ ~((data = <<>> /\ ~append) \/ attrs = {})
           /\ ~storage_exists(s, n)
  <2> DEFINE a == attrs \ {"AP"}
             new == [FreeSlot EXCEPT !.key = n.key, !.data = data, !.attrs = a]
  <2>1. storage_set(s, n, data, attrs) = CreateVariable(s, n, data, a)
    BY <1>6 DEF storage_set
  <2>2. CASE FreeSlots(s) = {} \/ data = <<>>
    BY <2>1, <2>2 DEF CreateVariable, Result
  <2>3. CASE FreeSlots(s) # {} /\ data # <<>>
    <3>1. storage_set(s, n, data, attrs).s = PutSlot(s, Min(FreeSlots(s)), new, 1)
      BY <2>1, <2>3 DEF CreateVariable, Result
    <3>2. FreeSlots(s) \in SUBSET Nat
      BY LimitsAssumption DEF FreeSlots, Slots
    <3>3. Min(FreeSlots(s)) \in Slots
      BY <2>3, <3>2, MinIsSmallest, ZenonT(30) DEF FreeSlots
    <3>4. new.key = k
      BY <1>2 DEF FreeSlot
    <3>5. PutSlot(s, Min(FreeSlots(s)), new, 1).slots[j]
              = IF j = Min(FreeSlots(s)) THEN new ELSE s.slots[j]
      BY <1>1, <3>3
    <3>6. Matches(s, n) = {}
      BY <1>6 DEF storage_exists
    <3> HIDE DEF new, n
    <3>7. \/ storage_set(s, n, data, attrs).s.slots[j].key = s.slots[j].key
          \/ storage_set(s, n, data, attrs).s.slots[j].key = k /\ Matches(s, n) = {}
      BY <3>1, <3>4, <3>5, <3>6
    <3> QED
      BY <3>7 DEF n
  <2> QED
    BY <2>2, <2>3
<1> QED
  BY <1>3, <1>4, <1>5, <1>6, ZenonT(30)

\* A variable that is there before and after a write stays in its slot.
LEMMA KeysStay ==
    ASSUME NEW s, TableOK(s), KeysDiffer(s), NEW k \in Keys, NEW data \in Seq(Atoms),
           NEW attrs \in SUBSET Attrs, NEW q \in Keys,
           storage_exists(s, Plain(q)),
           storage_exists(storage_set(s, Plain(k), data, attrs).s, Plain(q))
    PROVE  Min(Matches(storage_set(s, Plain(k), data, attrs).s, Plain(q))) = Min(Matches(s, Plain(q)))
<1> DEFINE t == storage_set(s, Plain(k), data, attrs).s
           j == Min(Matches(t, Plain(q)))
<1>1. Plain(q).key = q /\ ~Plain(q).nul
  BY DEF Plain
<1>2. j \in Slots /\ t.slots[j].key = q
  BY <1>1, FirstMatch DEF storage_exists
<1>3. \/ t.slots[j].key = s.slots[j].key
      \/ t.slots[j].key = NoKey
      \/ t.slots[j].key = k /\ Matches(s, Plain(k)) = {}
  BY <1>2, SlotKeys, SMTT(30)
<1>4. s.slots[j].key = q
  BY <1>2, <1>3, KeysAssumption DEF storage_exists
<1> QED
  BY <1>2, <1>4, SlotOfKey

-----------------------------------------------------------------------------
(***************************************************************************)
(* A step of the walk                                                      *)
(***************************************************************************)
\* A visible key is in a visible slot, which is the one a look-up finds.
LEMMA VisibleSlot ==
    ASSUME NEW s, s \in Table, KeysDiffer(s), NEW rt, NEW q \in VisibleKeys(s, rt)
    PROVE  /\ q \in Keys
           /\ storage_exists(s, Plain(q))
           /\ Min(Matches(s, Plain(q))) \in Visible(s, rt)
           /\ s.slots[Min(Matches(s, Plain(q)))].key = q
<1>1. PICK j \in Visible(s, rt) : s.slots[j].key = q
  BY DEF VisibleKeys
<1>2. j \in Slots /\ q \in Keys
  BY <1>1 DEF Visible, Occupied, variable_is_valid, Table, Variable
<1> QED
  BY <1>1, <1>2, SlotOfKey

-----------------------------------------------------------------------------
(***************************************************************************)
(* The walk                                                                *)
(***************************************************************************)
EnumInv ==
    /\ TableOK(storage) /\ KeysDiffer(storage)
    /\ cursor \in Keys \cup {NoKey}
    /\ lost \in BOOLEAN
    /\ WalkInv /\ WalkComplete

\* What WalkInv says of one stable variable.
LEMMA StableSlot ==
    ASSUME EnumInv, phase = "walking", ~lost, NEW q \in stable
    PROVE  /\ q \in Keys /\ storage_exists(storage, Plain(q))
           /\ SlotBefore(storage, q) \in Visible(storage, at_rt)
           /\ storage.slots[SlotBefore(storage, q)].key = q
           /\ q \in visited <=> SlotBefore(storage, q) <= SlotBefore(storage, cursor)
<1>1. q \in VisibleKeys(storage, at_rt)
  BY DEF EnumInv, WalkInv
<1>2. q # NoKey /\ SlotBefore(storage, q) = Min(Matches(storage, Plain(q)))
  BY <1>1, VisibleSlot, KeysAssumption DEF SlotBefore, EnumInv, TableOK
<1>3. Position = SlotBefore(storage, cursor)
  BY DEF Position, SlotBefore
<1>4. q \in visited <=> Min(Matches(storage, Plain(q))) <= Position
  BY DEF EnumInv, WalkInv
<1> QED
  BY <1>1, <1>2, <1>3, <1>4, VisibleSlot DEF EnumInv, TableOK

\* No walk has begun on a cleared table.
LEMMA EnumInit == Init => EnumInv
BY EmptyTableOK, ZenonT(30) DEF Init, EnumInv, WalkInv, WalkComplete

\* A write between two calls.
LEMMA UpdateKeeps ==
    ASSUME EnumInv, NEW k \in Keys, NEW data \in DataIn, NEW attrs \in AttrsIn,
           Update(k, data, attrs)
    PROVE  EnumInv'
<1> DEFINE t == storage_set(storage, Plain(k), data, attrs).s
<1>1. /\ data \in Seq(Atoms) /\ attrs \in SUBSET Attrs
      /\ Plain(k) \in NameArg /\ Plain(k).key = k /\ ~Plain(k).nul
  BY WalkAssumption DEF Plain, NameArg
<1>2. TableOK(t) /\ KeysDiffer(t)
  BY <1>1, SetOK DEF EnumInv
<1>3. /\ storage' = t /\ UNCHANGED <<phase, cursor, at_rt, visited>>
      /\ stable' = stable \cap VisibleKeys(t, at_rt)
      /\ lost' = (lost \/ (cursor # NoKey /\ ~storage_exists(t, Plain(cursor))))
  BY DEF Update, walk
<1>4. ASSUME NEW q \in Keys, storage_exists(storage, Plain(q)), storage_exists(t, Plain(q))
      PROVE  Min(Matches(t, Plain(q))) = Min(Matches(storage, Plain(q)))
  BY <1>1, <1>4, KeysStay DEF EnumInv
<1> HIDE DEF t
<1>5. WalkComplete'
  BY <1>3 DEF EnumInv, WalkComplete
<1>6. WalkInv'
  <2> SUFFICES ASSUME phase = "walking", ~lost'
               PROVE  /\ cursor # NoKey => storage_exists(t, Plain(cursor))
                      /\ stable' \subseteq VisibleKeys(t, at_rt)
                      /\ \A q \in stable' : q \in visited <=> Min(Matches(t, Plain(q))) <= Position'
    BY <1>3 DEF WalkInv
  <2>1. ~lost /\ (cursor # NoKey => storage_exists(t, Plain(cursor)))
    BY <1>3, ZenonT(30)
  <2>2. cursor # NoKey => cursor \in Keys /\ storage_exists(storage, Plain(cursor))
    BY <2>1 DEF EnumInv, WalkInv
  <2>3. Position' = Position
    BY <1>3, <1>4, <2>1, <2>2 DEF Position
  <2>4. ASSUME NEW q \in stable'
        PROVE  q \in visited <=> Min(Matches(t, Plain(q))) <= Position'
    <3>1. q \in stable /\ q \in VisibleKeys(t, at_rt)
      BY <1>3, <2>4
    <3>2. q \in Keys /\ storage_exists(t, Plain(q))
      BY <1>2, <3>1, VisibleSlot DEF TableOK
    <3>3. storage_exists(storage, Plain(q))
      BY <2>1, <3>1, StableSlot
    <3>4. Min(Matches(t, Plain(q))) = Min(Matches(storage, Plain(q)))
      BY <1>4, <3>2, <3>3
    <3>5. q \in visited <=> Min(Matches(storage, Plain(q))) <= Position
      BY <2>1, <3>1 DEF EnumInv, WalkInv
    <3> QED
      BY <2>3, <3>4, <3>5
  <2> QED
    BY <1>3, <2>1, <2>4
<1> QED
  BY <1>2, <1>3, <1>5, <1>6 DEF EnumInv

\* A walk starts before the first slot.
LEMMA StartKeeps ==
    ASSUME EnumInv, NEW rt \in BOOLEAN, StartWalk(rt)
    PROVE  EnumInv'
<1>1. /\ storage' = storage /\ phase' = "walking" /\ cursor' = NoKey /\ at_rt' = rt
      /\ visited' = {} /\ stable' = VisibleKeys(storage, rt) /\ lost' = FALSE
  BY DEF StartWalk
<1>2. Position' = -1
  BY <1>1 DEF Position
<1>3. ASSUME NEW q \in stable' PROVE ~(Min(Matches(storage', Plain(q))) <= Position')
  <2>1. Min(Matches(storage, Plain(q))) \in Visible(storage, rt)
    BY <1>1, VisibleSlot DEF EnumInv, TableOK
  <2>2. Min(Matches(storage, Plain(q))) \in Nat
    BY <2>1, LimitsAssumption DEF Visible, Occupied, Slots
  <2> QED
    BY <1>1, <1>2, <2>2
<1>4. WalkInv'
  BY <1>1, <1>3 DEF WalkInv
<1> QED
  BY <1>1, <1>4, ZenonT(30) DEF EnumInv, WalkComplete

\* A call of GetNextVariableName, and that it answers nothing twice.
LEMMA GetNextKeeps ==
    ASSUME EnumInv, GetNext
    PROVE  /\ EnumInv'
           /\ ~lost /\ cursor' # NoKey /\ cursor' \in stable => cursor' \notin visited
<1> DEFINE k == storage_next_variable(storage, Plain(cursor), at_rt)
           p == SlotBefore(storage, cursor)
<1>1. /\ phase = "walking"
      /\ UNCHANGED <<storage, at_rt, stable, lost>>
      /\ \/ k # NoKey /\ cursor' = k /\ visited' = visited \cup {k} /\ phase' = phase
         \/ k = NoKey /\ phase' = "done" /\ cursor' = NoKey /\ visited' = visited
  BY DEF GetNext
<1>2. TableOK(storage) /\ KeysDiffer(storage) /\ cursor \in Keys \cup {NoKey} /\ lost \in BOOLEAN
  BY DEF EnumInv
<1>3. k \in Keys \cup {NoKey}
  <2>1. ASSUME NextCandidates(storage, Plain(cursor), at_rt) # {}
        PROVE  Min(NextCandidates(storage, Plain(cursor), at_rt)) \in Slots
    <3>1. NextCandidates(storage, Plain(cursor), at_rt) \in SUBSET Slots
      BY DEF NextCandidates, storage_get_first, Visible, Occupied
    <3>2. Slots \in SUBSET Nat
      BY LimitsAssumption DEF Slots
    <3> QED
      BY <2>1, <3>1, <3>2, MinIsSmallest
  <2> QED
    BY <1>2, <2>1 DEF storage_next_variable, TableOK, Table, Variable
<1>4. CASE lost
  BY <1>1, <1>2, <1>3, <1>4 DEF EnumInv, WalkInv, WalkComplete
<1>5. CASE ~lost
  <2>1. cursor # NoKey => storage_exists(storage, Plain(cursor))
    BY <1>1, <1>5 DEF EnumInv, WalkInv
  <2>2. \/ /\ k = NoKey
           /\ \A j \in Visible(storage, at_rt) : j <= p
        \/ /\ k \in Keys
           /\ storage_exists(storage, Plain(k))
           /\ SlotBefore(storage, k) \in Visible(storage, at_rt)
           /\ storage.slots[SlotBefore(storage, k)].key = k
           /\ SlotBefore(storage, k) > p
           /\ \A j \in Visible(storage, at_rt) : j > p => j >= SlotBefore(storage, k)
    BY <1>2, <2>1, NextAnswer, ZenonT(30)
  <2>3. \A j \in Visible(storage, at_rt) : j \in Nat
    BY LimitsAssumption DEF Visible, Occupied, Slots
  <2>4. p \in Int
    BY <1>2, <2>1, Candidates
  <2>5. \A q \in stable :
            /\ q \in Keys
            /\ SlotBefore(storage, q) \in Visible(storage, at_rt)
            /\ storage.slots[SlotBefore(storage, q)].key = q
            /\ q \in visited <=> SlotBefore(storage, q) <= p
    BY <1>1, <1>5, StableSlot
  <2> HIDE DEF k, p
  <2>6. CASE k = NoKey
    <3>1. phase' = "done" /\ cursor' = NoKey /\ visited' = visited
      BY <1>1, <2>6
    <3>2. stable \subseteq visited
      BY <2>2, <2>5, <2>6, KeysAssumption
    <3> QED
      BY <1>1, <1>2, <3>1, <3>2 DEF EnumInv, WalkInv, WalkComplete
  <2>7. CASE k # NoKey
    <3> DEFINE m == SlotBefore(storage, k)
    <3>1. /\ phase' = "walking" /\ cursor' = k /\ visited' = visited \cup {k}
          /\ k \in Keys /\ storage_exists(storage, Plain(k))
          /\ m \in Visible(storage, at_rt) /\ storage.slots[m].key = k /\ m > p /\ m \in Nat
          /\ \A j \in Visible(storage, at_rt) : j > p => j >= m
      BY <1>1, <2>2, <2>3, <2>7
    <3>2. Position' = m
      BY <1>1, <2>7, <3>1 DEF Position, SlotBefore
    <3> HIDE DEF m
    <3>3. ASSUME NEW q \in stable
          PROVE  q \in visited' <=> SlotBefore(storage, q) <= m
      <4> DEFINE n == SlotBefore(storage, q)
      <4>1. n \in Visible(storage, at_rt) /\ n \in Nat /\ storage.slots[n].key = q
        BY <2>3, <2>5, <3>3
      <4>2. q \in visited <=> n <= p
        BY <2>5, <3>3
      <4>3. q = k <=> n = m
        BY <3>1, <4>1 DEF m
      <4>4. n > p => n >= m
        BY <3>1, <4>1
      <4> HIDE DEF n
      <4>5. n <= m <=> (n <= p \/ n = m)
        BY <2>4, <3>1, <4>1, <4>4
      <4> QED
        BY <3>1, <4>2, <4>3, <4>5 DEF n
    <3>4. \A q \in stable : SlotBefore(storage, q) = Min(Matches(storage, Plain(q)))
      BY <2>5, KeysAssumption DEF SlotBefore
    <3>5. stable \subseteq VisibleKeys(storage, at_rt)
      BY <1>1, <1>5 DEF EnumInv, WalkInv
    <3>6. WalkInv'
      BY <1>1, <3>1, <3>2, <3>3, <3>4, <3>5 DEF WalkInv
    <3>7. k \in stable => k \notin visited
      BY <2>4, <2>5, <3>1 DEF m
    <3>8. EnumInv'
      BY <1>1, <1>2, <3>1, <3>6 DEF EnumInv, WalkComplete
    <3> QED
      BY <3>1, <3>7, <3>8
  <2> QED
    BY <2>6, <2>7
<1> QED
  BY <1>2, <1>4, <1>5

\* Writes, starts and calls keep the invariant.
LEMMA EnumStep == EnumInv /\ [Next]_vars => EnumInv'
<1> SUFFICES ASSUME EnumInv, [Next]_vars PROVE EnumInv'
  OBVIOUS
<1>1. CASE UNCHANGED vars
  BY <1>1 DEF vars, walk, EnumInv, WalkInv, WalkComplete, Position
<1> QED
  BY <1>1, UpdateKeeps, StartKeeps, GetNextKeeps DEF Next

\* For tables of any size: a walk knows where it stands although the server
\* keeps no cursor; what it has answered of the variables that stayed visible
\* is what lies in the slots up to the name it passes.
THEOREM WalkKnowsItsPlace == Spec => []WalkInv
<1>1. EnumInv => WalkInv
  BY DEF EnumInv
<1> QED
  BY <1>1, EnumInit, EnumStep, PTL DEF Spec

\* For tables of any size and any writes between the calls: a walk whose
\* position was not deleted answers every variable that stayed visible.
THEOREM WalksAreComplete == Spec => []WalkComplete
<1>1. EnumInv => WalkComplete
  BY DEF EnumInv
<1> QED
  BY <1>1, EnumInit, EnumStep, PTL DEF Spec

\* Nor does storage_next answer one of them twice.
THEOREM NothingTwice == Spec => NoRepeat
<1> DEFINE A == phase = "walking" /\ cursor' # cursor /\ cursor' \in stable /\ ~lost
                => cursor' \notin visited
<1>1. EnumInv /\ [Next]_vars => [A]_vars
  <2> SUFFICES ASSUME EnumInv, [Next]_vars, phase = "walking", cursor' # cursor,
                      cursor' \in stable, ~lost
               PROVE  cursor' \notin visited
    OBVIOUS
  <2>1. GetNext
    BY ZenonT(30) DEF Next, Update, StartWalk, vars, walk
  <2>2. stable \subseteq Keys
    BY StableSlot
  <2> QED
    BY <2>1, <2>2, GetNextKeeps, KeysAssumption
<1> QED
  BY <1>1, EnumInit, EnumStep, PTL DEF Spec, NoRepeat
=============================================================================
