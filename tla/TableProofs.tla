---------------------------- MODULE TableProofs ------------------------------
(***************************************************************************)
(* Facts about the operators of StorageOps, for every value of the limits: *)
(* each update keeps the table well formed.                                *)
(***************************************************************************)
EXTENDS StorageOps, FiniteSetTheorems, WellFoundedInduction, TLAPS

\* The smallest element of a non-empty set of naturals, which the "first
\* slot" loops of storage.c find.
LEMMA MinIsSmallest ==
    ASSUME NEW S \in SUBSET Nat, S # {}
    PROVE  /\ Min(S) \in S
           /\ \A j \in S : Min(S) <= j
<1> DEFINE Below == {0 .. x : x \in S}
<1>1. Below \subseteq FiniteSubsetsOf(Nat) /\ Below # {}
  <2>1. ASSUME NEW x \in S PROVE 0 .. x \in FiniteSubsetsOf(Nat)
    BY FS_Interval DEF FiniteSubsetsOf
  <2>2. Below \subseteq FiniteSubsetsOf(Nat)
    BY <2>1
  <2> QED
    BY <2>2, ZenonT(30)
<1>2. PICK B \in Below :
          \A C \in Below : ~(<<C, B>> \in StrictSubsetOrdering(Nat))
  BY <1>1, FS_StrictSubsetOrderingWellFounded, WFMin, ZenonT(30)
<1>3. PICK x \in S : B = 0 .. x
  OBVIOUS
<1>4. ASSUME NEW y \in S PROVE x <= y
  <2>1. 0 .. y \in Below /\ ~(<<0 .. y, 0 .. x>> \in StrictSubsetOrdering(Nat))
    BY <1>2, <1>3, ZenonT(30)
  <2>2. CASE y < x
    <3>1. 0 .. y \subseteq 0 .. x /\ x \in 0 .. x /\ x \notin 0 .. y
      BY <2>2
    <3>2. <<0 .. y, 0 .. x>> \in StrictSubsetOrdering(Nat)
      BY <3>1 DEF StrictSubsetOrdering
    <3> QED
      BY <2>1, <3>2
  <2> QED
    BY <2>2
<1> QED
  BY <1>4, ZenonT(30) DEF Min

-----------------------------------------------------------------------------
\* A table between two calls of its users.
TableOK(s) == /\ s \in Table
              /\ s.iter \in Slots
              /\ CountersAgree(s)
              /\ \A i \in Slots : SlotOK(s.slots[i])

\* A set of slots is finite, and no larger than the array.
LEMMA SlotsFinite ==
    ASSUME NEW S \in SUBSET Slots
    PROVE  IsFiniteSet(S) /\ Cardinality(S) \in Nat /\ Cardinality(S) <= MaxVarCount
<1>1. IsFiniteSet(Slots) /\ Cardinality(Slots) = MaxVarCount
  BY LimitsAssumption, FS_Interval, SMTT(30) DEF Slots
<1> QED
  BY <1>1, FS_Subset, FS_CardinalityType, LimitsAssumption

\* A cleared slot is a variable_t, with the key of no variable.
LEMMA FreeSlotType == FreeSlot \in Variable /\ FreeSlot.key = NoKey
  BY DEF FreeSlot, Variable

\* The first slot that holds a name is a slot that holds it.
LEMMA FirstMatch ==
    ASSUME NEW s, NEW n, Matches(s, n) # {}
    PROVE  Min(Matches(s, n)) \in Slots /\ s.slots[Min(Matches(s, n))].key = n.key
<1>1. Matches(s, n) \in SUBSET Nat
  BY LimitsAssumption DEF Matches, Slots
<1> QED
  BY <1>1, MinIsSmallest, Zenon DEF Matches

\* The cleared table of a fresh process is well formed.
LEMMA EmptyTableOK == TableOK(EmptyTable) /\ KeysDiffer(EmptyTable)
<1>1. EmptyTable \in Table
  BY DEF EmptyTable, Table, Variable, FreeSlot
<1>2. Occupied(EmptyTable) = {}
  BY DEF Occupied, EmptyTable, variable_is_valid, FreeSlot
<1>3. CountersAgree(EmptyTable)
  BY <1>2, FS_EmptySet, LimitsAssumption DEF CountersAgree, EmptyTable, SlotSize
<1>4. \A i \in Slots : SlotOK(EmptyTable.slots[i])
  BY DEF SlotOK, EmptyTable, variable_is_valid, FreeSlot
<1>5. EmptyTable.iter \in Slots
  BY LimitsAssumption DEF EmptyTable, Slots
<1> QED
  BY <1>1, <1>2, <1>3, <1>4, <1>5, Zenon DEF TableOK, KeysDiffer

\* Putting a well-formed variable into a slot, or clearing one, keeps the
\* table well formed when the counters move by the number of variables gained.
LEMMA PutSlotOK ==
    ASSUME NEW s, TableOK(s), NEW i \in Slots, NEW v \in Variable, SlotOK(v),
           NEW gained \in {-1, 0, 1},
           gained = (IF variable_is_valid(v) THEN 1 ELSE 0)
                    - (IF i \in Occupied(s) THEN 1 ELSE 0)
    PROVE  TableOK(PutSlot(s, i, v, gained))
<1> DEFINE t == PutSlot(s, i, v, gained)
           c == Cardinality(Occupied(s))
<1>1. s \in Table /\ SlotSize \in Nat
  BY LimitsAssumption DEF TableOK, SlotSize
<1>2. \A j \in Slots : t.slots[j] = IF j = i THEN v ELSE s.slots[j]
  BY <1>1 DEF PutSlot, Table
<1>3. t.slots \in [Slots -> Variable] /\ t.iter = s.iter
  BY <1>1 DEF PutSlot, Table
<1>4. Occupied(s) \in SUBSET Slots /\ IsFiniteSet(Occupied(s)) /\ c \in Nat
  BY SlotsFinite DEF Occupied
<1>5. Occupied(t) = IF variable_is_valid(v) THEN Occupied(s) \cup {i}
                    ELSE Occupied(s) \ {i}
  BY <1>2, Zenon DEF Occupied
<1>6. Cardinality(Occupied(t)) = c + gained
  <2>1. Cardinality(Occupied(s) \cup {i})
            = IF i \in Occupied(s) THEN c ELSE c + 1
    BY <1>4, FS_AddElement, ZenonT(30)
  <2>2. Cardinality(Occupied(s) \ {i})
            = IF i \in Occupied(s) THEN c - 1 ELSE c
    BY <1>4, FS_RemoveElement, ZenonT(30)
  <2>3. CASE variable_is_valid(v)
    <3>1. Occupied(t) = Occupied(s) \cup {i}
      BY <1>5, <2>3, Zenon
    <3>2. gained = 1 - (IF i \in Occupied(s) THEN 1 ELSE 0)
      BY <2>3
    <3> HIDE DEF c, t
    <3> QED
      BY <1>4, <2>1, <3>1, <3>2
  <2>4. CASE ~variable_is_valid(v)
    <3>1. Occupied(t) = Occupied(s) \ {i}
      BY <1>5, <2>4
    <3>2. gained = 0 - (IF i \in Occupied(s) THEN 1 ELSE 0)
      BY <2>4
    <3> HIDE DEF c, t
    <3> QED
      BY <1>4, <2>2, <3>1, <3>2
  <2> QED
    BY <2>3, <2>4
<1>7. (c + gained) * SlotSize = c * SlotSize + gained * SlotSize
  BY <1>1, <1>4
<1>8. CountersAgree(t)
  BY <1>6, <1>7, Zenon DEF CountersAgree, TableOK, PutSlot
<1>9. \A j \in Slots : SlotOK(t.slots[j])
  BY <1>2 DEF TableOK
<1>10. t \in Table
  <2>1. Occupied(t) \in SUBSET Slots
    BY DEF Occupied
  <2>2. Cardinality(Occupied(t)) \in Nat
    BY <2>1, SlotsFinite
  <2>3. t.total \in Nat /\ t.used \in Nat
    BY <1>1, <1>8, <2>2 DEF CountersAgree
  <2> QED
    BY <1>1, <1>3, <2>3, Zenon DEF PutSlot, Table
<1> QED
  BY <1>3, <1>8, <1>9, <1>10, Zenon DEF TableOK

\* Keys stay unique when the slot is cleared, keeps its key, or takes a key
\* that no slot held.
LEMMA PutSlotUnique ==
    ASSUME NEW s, s \in Table, KeysDiffer(s), NEW i \in Slots, NEW v, NEW gained,
           \/ v.key = NoKey
           \/ v.key = s.slots[i].key
           \/ \A j \in Slots : s.slots[j].key # v.key
    PROVE  KeysDiffer(PutSlot(s, i, v, gained))
<1>1. \A j \in Slots : PutSlot(s, i, v, gained).slots[j]
                       = IF j = i THEN v ELSE s.slots[j]
  BY DEF PutSlot, Table
<1> QED
  BY <1>1, Zenon DEF KeysDiffer, Occupied, variable_is_valid

\* The storage budget refuses nothing that the limits on a name and on data
\* let pass.
LEMMA OnlySizesBind ==
    ASSUME NEW s, TableOK(s), NEW k \in Keys, NEW data \in Seq(Atoms)
    PROVE  TooLarge(s, Plain(k), data) <=>
               (k \in {j \in Keys : NameSize[j] > MaxNameSize} \/ Len(data) > MaxDataSize)
<1> DEFINE c == Cardinality(Occupied(s))
<1>1. c \in Nat /\ c <= MaxVarCount
  BY SlotsFinite DEF Occupied
<1>2. SlotSize \in Nat /\ MaxVarCount \in Nat /\ MaxStorageSize \in Nat
  BY LimitsAssumption DEF SlotSize, MaxStorageSize
<1>3. s.used = c * SlotSize
  BY DEF TableOK, CountersAgree
<1>4. namesz(Plain(k)) = NameSize[k] /\ NameSize[k] \in Nat /\ Len(data) \in Nat
  BY KeysAssumption DEF namesz, Plain
<1> HIDE DEF c
<1>5. c * SlotSize + SlotSize <= (MaxVarCount + 1) * SlotSize /\ c * SlotSize \in Nat
  BY <1>1, <1>2
<1>6. NameSize[k] <= MaxNameSize /\ Len(data) <= MaxDataSize =>
          ~(Len(data) + namesz(Plain(k)) + s.used > MaxStorageSize)
  <2> DEFINE u == c * SlotSize
             top == (MaxVarCount + 1) * SlotSize
  <2>1. top \in Nat /\ top <= MaxStorageSize /\ SlotSize = MaxNameSize + MaxDataSize
    BY <1>2, LimitsAssumption DEF SlotSize
  <2> HIDE DEF u, top
  <2> QED
    BY <1>2, <1>3, <1>4, <1>5, <2>1, LimitsAssumption DEF u, top
<1> QED
  BY <1>4, <1>6, LimitsAssumption DEF TooLarge

\* storage_remove clears one slot and takes exactly its charge off.
LEMMA RemoveOK ==
    ASSUME NEW s, TableOK(s), NEW n \in NameArg, n.key \in Keys
    PROVE  /\ TableOK(storage_remove(s, n).s)
           /\ KeysDiffer(s) => KeysDiffer(storage_remove(s, n).s)
<1>1. CASE Matches(s, n) = {}
  BY <1>1, Zenon DEF storage_remove, Result
<1>2. CASE Matches(s, n) # {}
  <2> DEFINE m == Min(Matches(s, n))
  <2>1. m \in Slots /\ s.slots[m].key = n.key
    BY <1>2, FirstMatch, Zenon
  <2>2. m \in Occupied(s)
    BY <2>1, KeysAssumption, Zenon DEF Occupied, variable_is_valid
  <2>3. SlotOK(FreeSlot) /\ ~variable_is_valid(FreeSlot)
    BY FreeSlotType DEF SlotOK, variable_is_valid
  <2>4. TableOK(PutSlot(s, m, FreeSlot, -1))
    BY <2>1, <2>2, <2>3, FreeSlotType, PutSlotOK
  <2>5. KeysDiffer(s) => KeysDiffer(PutSlot(s, m, FreeSlot, -1))
    BY <2>1, FreeSlotType, PutSlotUnique, Zenon DEF TableOK
  <2> QED
    BY <1>2, <2>4, <2>5, Zenon DEF storage_remove, Result
<1> QED
  BY <1>1, <1>2, Zenon

\* variable_set_data leaves the key and the attributes alone.
LEMMA WithData ==
    ASSUME NEW v \in Variable, NEW d \in Seq(Atoms)
    PROVE  /\ [v EXCEPT !.data = d] \in Variable
           /\ [v EXCEPT !.data = d].data = d
           /\ [v EXCEPT !.data = d].key = v.key
           /\ [v EXCEPT !.data = d].attrs = v.attrs
  BY ZenonT(30) DEF Variable

\* variable_set_timestamp leaves the key, the data and the attributes alone.
LEMMA WithTimestamp ==
    ASSUME NEW v \in Variable, NEW ts \in Nat
    PROVE  /\ [v EXCEPT !.timestamp = ts] \in Variable
           /\ [v EXCEPT !.timestamp = ts].data = v.data
           /\ [v EXCEPT !.timestamp = ts].key = v.key
           /\ [v EXCEPT !.timestamp = ts].attrs = v.attrs
  BY Zenon DEF Variable

\* Replacing or extending the data of a variable changes no key and keeps the
\* data within its limit.
LEMMA ReplaceOK ==
    ASSUME NEW s, TableOK(s), NEW i \in Occupied(s), NEW data \in Seq(Atoms),
           NEW attrs, NEW append \in BOOLEAN
    PROVE  /\ TableOK(ReplaceVariable(s, i, data, attrs, append).s)
           /\ KeysDiffer(s) =>
                  KeysDiffer(ReplaceVariable(s, i, data, attrs, append).s)
<1> DEFINE v == s.slots[i]
           new == IF append THEN v.data \o data ELSE data
           w == [v EXCEPT !.data = new]
<1>1. i \in Slots /\ v \in Variable /\ v.key # NoKey /\ SlotOK(v) /\ s \in Table
  BY DEF Occupied, TableOK, Table, variable_is_valid
<1>2. v.data \in Seq(Atoms) /\ new \in Seq(Atoms)
  BY <1>1 DEF Variable
<1>3. w \in Variable /\ w.data = new /\ w.key = v.key /\ w.attrs = v.attrs
  BY <1>1, <1>2, WithData, ZenonT(30)
<1>4. CASE data # <<>> /\ Len(new) <= MaxDataSize
  <2>1. Len(new) \in 1 .. MaxDataSize
    BY <1>1, <1>2, <1>4, LimitsAssumption
  <2>2. SlotOK(w) /\ variable_is_valid(w)
    BY <1>1, <1>3, <2>1, Zenon DEF SlotOK, variable_is_valid
  <2>3. TableOK(PutSlot(s, i, w, 0))
    BY <1>1, <1>3, <2>2, PutSlotOK
  <2>4. KeysDiffer(s) => KeysDiffer(PutSlot(s, i, w, 0))
    BY <1>1, <1>3, PutSlotUnique, ZenonT(30)
  <2> QED
    BY <2>3, <2>4, Zenon DEF ReplaceVariable, Result
<1>5. CASE ~(data # <<>> /\ Len(new) <= MaxDataSize)
  <2>1. Len(new) \in Nat
    BY <1>2
  <2> QED
    BY <1>5, <2>1, LimitsAssumption, SMTT(30) DEF ReplaceVariable, Result
<1> QED
  BY <1>4, <1>5, Zenon

\* A variable is created in a cleared slot; its key is new to the table when
\* no slot matched the name.
LEMMA CreateOK ==
    ASSUME NEW s, TableOK(s), NEW n \in NameArg, n.key \in Keys,
           NEW data \in Seq(Atoms), Len(data) <= MaxDataSize,
           NEW attrs \in SUBSET Attrs, "AP" \notin attrs
    PROVE  /\ TableOK(CreateVariable(s, n, data, attrs).s)
           /\ KeysDiffer(s) /\ ~n.nul /\ Matches(s, n) = {} =>
                  KeysDiffer(CreateVariable(s, n, data, attrs).s)
<1> DEFINE new == [FreeSlot EXCEPT !.key = n.key, !.data = data, !.attrs = attrs]
           i == Min(FreeSlots(s))
<1>1. new \in Variable /\ new.key = n.key /\ new.data = data /\ new.attrs = attrs
  BY ZenonT(30) DEF FreeSlot, Variable
<1>2. CASE FreeSlots(s) # {} /\ data # <<>>
  <2>1. FreeSlots(s) \in SUBSET Nat
    BY LimitsAssumption DEF FreeSlots, Slots
  <2>2. i \in Slots /\ i \notin Occupied(s)
    BY <1>2, <2>1, MinIsSmallest, ZenonT(30) DEF FreeSlots
  <2>3. Len(data) \in 1 .. MaxDataSize
    BY <1>2, LimitsAssumption
  <2>4. SlotOK(new) /\ variable_is_valid(new)
    BY <1>1, <2>3, KeysAssumption, Zenon DEF SlotOK, variable_is_valid
  <2>5. TableOK(PutSlot(s, i, new, 1))
    BY <1>1, <2>2, <2>4, PutSlotOK
  <2>6. KeysDiffer(s) /\ ~n.nul /\ Matches(s, n) = {} =>
            KeysDiffer(PutSlot(s, i, new, 1))
    BY <1>1, <2>2, PutSlotUnique, ZenonT(30) DEF Matches, TableOK
  <2> QED
    BY <1>2, <2>5, <2>6, Zenon DEF CreateVariable, Result
<1>3. CASE FreeSlots(s) = {} \/ data = <<>>
  BY <1>3 DEF CreateVariable, Result
<1> QED
  BY <1>2, <1>3, Zenon

\* Every storage_set keeps the table well formed, and the keys unique unless
\* the caller counted a terminator into the size of the name.
LEMMA SetOK ==
    ASSUME NEW s, TableOK(s), NEW n \in NameArg, n.key \in Keys,
           NEW data \in Seq(Atoms), NEW attrs \in SUBSET Attrs
    PROVE  /\ TableOK(storage_set(s, n, data, attrs).s)
           /\ KeysDiffer(s) /\ ~n.nul =>
                  KeysDiffer(storage_set(s, n, data, attrs).s)
<1> DEFINE append == "AP" \in attrs
           m == Min(Matches(s, n))
<1>1. CASE TooLarge(s, n, data)
  BY <1>1, Zenon DEF storage_set, Result
<1>2. CASE ~TooLarge(s, n, data) /\ ((data = <<>> /\ ~append) \/ attrs = {})
  BY <1>2, RemoveOK, Zenon DEF storage_set
<1>3. CASE /\ ~TooLarge(s, n, data)
           /\ ~((data = <<>> /\ ~append) \/ attrs = {})
           /\ storage_exists(s, n)
  <2>1. m \in Occupied(s)
    BY <1>3, FirstMatch, KeysAssumption
    DEF storage_exists, Occupied, variable_is_valid
  <2>2. append \in BOOLEAN
    OBVIOUS
  <2> QED
    BY <1>3, <2>1, <2>2, ReplaceOK, ZenonT(30) DEF storage_set
<1>4. CASE /\ ~TooLarge(s, n, data)
           /\ ~((data = <<>> /\ ~append) \/ attrs = {})
           /\ ~storage_exists(s, n)
  <2>1. Len(data) <= MaxDataSize
    BY <1>4, LimitsAssumption DEF TooLarge
  <2>2. attrs \ {"AP"} \in SUBSET Attrs /\ "AP" \notin attrs \ {"AP"}
    OBVIOUS
  <2>3. Matches(s, n) = {}
    BY <1>4, Zenon DEF storage_exists
  <2> QED
    BY <1>4, <2>1, <2>2, <2>3, CreateOK, Zenon DEF storage_set
<1> QED
  BY <1>1, <1>2, <1>3, <1>4, Zenon

\* Stamping the variable a name finds changes neither its key nor its shape;
\* without such a variable the table is left alone.
LEMMA SetTimestampOK ==
    ASSUME NEW s, TableOK(s), NEW n \in NameArg, n.key \in Keys, NEW ts \in Nat
    PROVE  /\ TableOK(SetTimestamp(s, n, ts).s)
           /\ KeysDiffer(s) => KeysDiffer(SetTimestamp(s, n, ts).s)
<1> DEFINE i == Min(Matches(s, n))
           v == s.slots[i]
           w == [v EXCEPT !.timestamp = ts]
<1>1. CASE ~storage_exists(s, n)
  BY <1>1 DEF SetTimestamp, Result
<1>2. CASE storage_exists(s, n)
  <2>1. i \in Slots /\ v.key = n.key /\ i \in Occupied(s)
    BY <1>2, FirstMatch, KeysAssumption, Zenon
    DEF storage_exists, Occupied, variable_is_valid
  <2>2. s \in Table /\ v \in Variable /\ SlotOK(v)
    BY <2>1, Zenon DEF TableOK, Table
  <2>3. /\ w \in Variable
        /\ w.key = v.key
        /\ w.data = v.data
        /\ w.attrs = v.attrs
    BY <2>2, WithTimestamp, Zenon
  <2>4. SlotOK(w) /\ variable_is_valid(w)
    BY <2>1, <2>2, <2>3, KeysAssumption, Zenon DEF SlotOK, variable_is_valid
  <2>5. TableOK(PutSlot(s, i, w, 0))
    BY <2>1, <2>3, <2>4, PutSlotOK
  <2>6. KeysDiffer(s) => KeysDiffer(PutSlot(s, i, w, 0))
    BY <2>1, <2>2, <2>3, PutSlotUnique, ZenonT(30)
  <2> QED
    BY <1>2, <2>5, <2>6, Zenon DEF SetTimestamp, Result
<1> QED
  BY <1>1, <1>2, Zenon

\* storage_set_with_timestamp keeps the table well formed, and its keys apart
\* when the name counts no terminator.
LEMMA SetWithTimestampOK ==
    ASSUME NEW s, TableOK(s), NEW n \in NameArg, n.key \in Keys,
           NEW data \in Seq(Atoms), NEW attrs \in SUBSET Attrs, NEW ts \in Nat
    PROVE  /\ TableOK(storage_set_with_timestamp(s, n, data, attrs, ts).s)
           /\ KeysDiffer(s) /\ ~n.nul =>
                  KeysDiffer(storage_set_with_timestamp(s, n, data, attrs, ts).s)
<1>1. /\ TableOK(storage_set(s, n, data, attrs).s)
      /\ KeysDiffer(s) /\ ~n.nul => KeysDiffer(storage_set(s, n, data, attrs).s)
  BY SetOK
<1> QED
  BY <1>1, SetTimestampOK, Zenon DEF storage_set_with_timestamp

-----------------------------------------------------------------------------
(***************************************************************************)
(* Look-up and enumeration                                                 *)
(***************************************************************************)
\* With unique keys, the slot that a look-up finds is the slot of the key.
LEMMA SlotOfKey ==
    ASSUME NEW s, KeysDiffer(s), NEW j \in Slots, s.slots[j].key \in Keys
    PROVE  /\ storage_exists(s, Plain(s.slots[j].key))
           /\ Min(Matches(s, Plain(s.slots[j].key))) = j
<1> DEFINE n == Plain(s.slots[j].key)
           m == Min(Matches(s, n))
<1>1. n.key = s.slots[j].key /\ ~n.nul
  BY DEF Plain
<1>2. Matches(s, n) # {}
  BY <1>1, Zenon DEF Matches
<1>3. m \in Slots /\ s.slots[m].key = s.slots[j].key
  BY <1>1, <1>2, FirstMatch, Zenon
<1> QED
  BY <1>2, <1>3, KeysAssumption, Zenon DEF KeysDiffer, Occupied, variable_is_valid, storage_exists

\* The slot of a key; the empty name stands before the first slot.
SlotBefore(s, k) == IF k = NoKey THEN -1 ELSE Min(Matches(s, Plain(k)))

\* The server looks at the visible slots after that of the name it is passed;
\* for an empty name, at all of them.
LEMMA Candidates ==
    ASSUME NEW s, TableOK(s), NEW k \in Keys \cup {NoKey}, NEW rt,
           k # NoKey => storage_exists(s, Plain(k))
    PROVE  /\ NextCandidates(s, Plain(k), rt) = {j \in Visible(s, rt) : j > SlotBefore(s, k)}
           /\ SlotBefore(s, k) \in Int
           /\ k # NoKey => SlotBefore(s, k) \in Slots
<1>1. Plain(k).key = k
  BY DEF Plain
<1>2. Slots \subseteq Nat /\ \A j \in Visible(s, rt) : j \in Slots /\ j \in Nat
  BY LimitsAssumption DEF Visible, Occupied, Slots
<1>3. CASE k = NoKey
  <2>1. storage_get_first(s, rt) = Visible(s, rt)
    <3>1. CASE s.total = 0
      <4>1. IsFiniteSet(Occupied(s)) /\ Cardinality(Occupied(s)) = 0
        BY <3>1, SlotsFinite, Zenon DEF TableOK, CountersAgree, Occupied
      <4>2. Occupied(s) = {}
        BY <4>1, FS_EmptySet, Zenon
      <4> QED
        BY <3>1, <4>2 DEF storage_get_first, Visible
    <3> QED
      BY <3>1 DEF storage_get_first
  <2>2. SlotBefore(s, k) = -1
    BY <1>3 DEF SlotBefore
  <2>3. NextCandidates(s, Plain(k), rt) = Visible(s, rt)
    BY <1>1, <1>3, <2>1, Zenon DEF NextCandidates
  <2>4. \A j \in Visible(s, rt) : j > -1
    BY <1>2
  <2> QED
    BY <1>3, <2>2, <2>3, <2>4
<1>4. CASE k # NoKey
  <2>1. SlotBefore(s, k) \in Slots
    BY <1>4, FirstMatch, Zenon DEF storage_exists, SlotBefore
  <2>2. SlotBefore(s, k) = Min(Matches(s, Plain(k)))
    BY <1>4 DEF SlotBefore
  <2>3. NextCandidates(s, Plain(k), rt)
            = {j \in Visible(s, rt) : storage_exists(s, Plain(k)) /\ j > SlotBefore(s, k)}
    BY <1>1, <1>4, <2>2, Zenon DEF NextCandidates
  <2>4. NextCandidates(s, Plain(k), rt) = {j \in Visible(s, rt) : j > SlotBefore(s, k)}
    BY <1>4, <2>3, Zenon
  <2>5. SlotBefore(s, k) \in Int
    BY <2>1, LimitsAssumption DEF Slots
  <2> QED
    BY <2>1, <2>4, <2>5, Zenon
<1> QED
  BY <1>3, <1>4, Zenon

\* The answer is the key of the first of these slots, and there is none only
\* when there is no such slot.
LEMMA NextAnswer ==
    ASSUME NEW s, TableOK(s), KeysDiffer(s), NEW k \in Keys \cup {NoKey}, NEW rt,
           k # NoKey => storage_exists(s, Plain(k))
    PROVE  LET next == storage_next_variable(s, Plain(k), rt)
           IN  \/ /\ next = NoKey
                  /\ \A j \in Visible(s, rt) : j <= SlotBefore(s, k)
               \/ /\ next \in Keys
                  /\ storage_exists(s, Plain(next))
                  /\ SlotBefore(s, next) \in Visible(s, rt)
                  /\ s.slots[SlotBefore(s, next)].key = next
                  /\ SlotBefore(s, next) > SlotBefore(s, k)
                  /\ \A j \in Visible(s, rt) : j > SlotBefore(s, k) => j >= SlotBefore(s, next)
<1> DEFINE c == NextCandidates(s, Plain(k), rt)
           m == Min(c)
           next == storage_next_variable(s, Plain(k), rt)
<1>1. /\ c = {j \in Visible(s, rt) : j > SlotBefore(s, k)}
      /\ SlotBefore(s, k) \in Int
  BY Candidates, Zenon
<1>2. Slots \subseteq Nat /\ \A j \in Visible(s, rt) : j \in Slots /\ j \in Nat
  BY LimitsAssumption DEF Visible, Occupied, Slots
<1>3. CASE c = {}
  <2>1. next = NoKey
    BY <1>3, Zenon DEF storage_next_variable
  <2>2. \A j \in Visible(s, rt) : j <= SlotBefore(s, k)
    <3> HIDE DEF c
    <3> SUFFICES ASSUME NEW j \in Visible(s, rt), ~(j <= SlotBefore(s, k)) PROVE FALSE
      OBVIOUS
    <3>1. j > SlotBefore(s, k)
      BY <1>1, <1>2
    <3> QED
      BY <1>1, <1>3, <3>1, Zenon
  <2> QED
    BY <2>1, <2>2, SMTT(30)
<1>4. CASE c # {}
  <2>1. m \in c /\ \A j \in c : m <= j
    BY <1>1, <1>2, <1>4, MinIsSmallest, Zenon
  <2>2. next = s.slots[m].key
    BY <1>4, Zenon DEF storage_next_variable
  <2>3. m \in Slots /\ m \in Visible(s, rt) /\ m > SlotBefore(s, k)
    BY <1>1, <1>2, <2>1, Zenon
  <2>4. next \in Keys
    BY <2>2, <2>3, Zenon DEF Visible, Occupied, variable_is_valid, TableOK, Table, Variable
  <2>5. storage_exists(s, Plain(next)) /\ Min(Matches(s, Plain(next))) = m
    BY <2>2, <2>3, <2>4, SlotOfKey, SMTT(30)
  <2>6. SlotBefore(s, next) = m
    BY <2>4, <2>5, KeysAssumption, Zenon DEF SlotBefore
  <2>7. \A j \in Visible(s, rt) : j > SlotBefore(s, k) => j >= m
    BY <1>1, <1>2, <2>1, Zenon
  <2> HIDE DEF m, next
  <2>8. /\ next \in Keys /\ storage_exists(s, Plain(next))
        /\ SlotBefore(s, next) \in Visible(s, rt)
        /\ s.slots[SlotBefore(s, next)].key = next
        /\ SlotBefore(s, next) > SlotBefore(s, k)
        /\ \A j \in Visible(s, rt) : j > SlotBefore(s, k) => j >= SlotBefore(s, next)
    BY <2>2, <2>3, <2>4, <2>5, <2>6, <2>7, SMTT(30)
  <2> QED
    BY <2>8, SMTT(30) DEF next
<1> QED
  BY <1>3, <1>4, ZenonT(30)

-----------------------------------------------------------------------------
(***************************************************************************)
(* Writing a variable                                                      *)
(***************************************************************************)
\* What a write of k may do to a slot.
Touched(v, w, k, attrs) ==
    /\ v.key \in {k, NoKey}
    /\ \/ w.key = NoKey
       \/ /\ w.key = k /\ w.attrs = attrs \ {"AP"} /\ attrs # {}
          /\ NameSize[k] <= MaxNameSize

\* A write of k changes no slot with another key, and nothing at all when it
\* fails.
LEMMA SetEffect ==
    ASSUME NEW s, TableOK(s), NEW k \in Keys, NEW data \in Seq(Atoms), NEW attrs \in SUBSET Attrs
    PROVE  LET r == storage_set(s, Plain(k), data, attrs)
           IN  /\ \A i \in Slots : r.s.slots[i] = s.slots[i]
                                   \/ Touched(s.slots[i], r.s.slots[i], k, attrs)
               /\ r.st # "SUCCESS" => r.s = s
<1> DEFINE n == Plain(k)
           r == storage_set(s, n, data, attrs)
           append == "AP" \in attrs
           first == Min(Matches(s, n))
           Fine(q) == /\ \A i \in Slots : q.s.slots[i] = s.slots[i]
                                          \/ Touched(s.slots[i], q.s.slots[i], k, attrs)
                      /\ q.st # "SUCCESS" => q.s = s
<1>1. n.key = k /\ DOMAIN s.slots = Slots /\ k # NoKey
  BY KeysAssumption, Zenon DEF Plain, TableOK, Table
<1> HIDE DEF n
<1>2. \A st : Fine(Result(st, s))
  BY Zenon DEF Result
<1>3. ASSUME NEW i \in Slots, NEW w, NEW g, Touched(s.slots[i], w, k, attrs)
      PROVE  Fine(Result("SUCCESS", PutSlot(s, i, w, g)))
  <2>1. PutSlot(s, i, w, g).slots = [s.slots EXCEPT ![i] = w]
    BY Zenon DEF PutSlot
  <2>2. \A j \in Slots : PutSlot(s, i, w, g).slots[j] = IF j = i THEN w ELSE s.slots[j]
    BY <1>1, <2>1, Zenon
  <2> QED
    BY <1>3, <2>2, Zenon DEF Result
<1>4. ASSUME Matches(s, n) # {} PROVE first \in Slots /\ s.slots[first].key = k
  BY <1>1, <1>4, FirstMatch, Zenon
<1>5. Fine(storage_remove(s, n))
  <2>1. CASE Matches(s, n) = {}
    BY <1>2, <2>1, Zenon DEF storage_remove
  <2>2. CASE Matches(s, n) # {}
    <3>1. Touched(s.slots[first], FreeSlot, k, attrs)
      BY <1>4, <2>2, FreeSlotType, Zenon DEF Touched
    <3>2. storage_remove(s, n) = Result("SUCCESS", PutSlot(s, first, FreeSlot, -1))
      BY <2>2, Zenon DEF storage_remove
    <3> HIDE DEF Fine, first
    <3> QED
      BY <1>3, <1>4, <2>2, <3>1, <3>2, Zenon
  <2> QED
    BY <2>1, <2>2, Zenon
<1>6. ASSUME Matches(s, n) # {}, ~TooLarge(s, n, data), attrs # {}
      PROVE  Fine(ReplaceVariable(s, first, data, attrs \ {"AP"}, append))
  <2> DEFINE v == s.slots[first]
             new == IF append THEN v.data \o data ELSE data
             w == [v EXCEPT !.data = new]
             q == ReplaceVariable(s, first, data, attrs \ {"AP"}, append)
  <2>1. first \in Slots /\ v.key = k /\ v \in Variable
    BY <1>4, <1>6, Zenon DEF TableOK, Table
  <2>2. w.key = v.key /\ w.attrs = v.attrs
    BY <2>1, Zenon DEF Variable
  <2>3. NameSize[k] <= MaxNameSize
    BY <1>6, OnlySizesBind, LimitsAssumption, KeysAssumption DEF n
  <2>4. \/ \E st : q = Result(st, s)
        \/ v.attrs = attrs \ {"AP"} /\ q = Result("SUCCESS", PutSlot(s, first, w, 0))
    BY Zenon DEF ReplaceVariable
  <2> HIDE DEF q, Fine, w, first, v
  <2>5. v.attrs = attrs \ {"AP"} => Touched(v, w, k, attrs)
    BY <1>6, <2>1, <2>2, <2>3, Zenon DEF Touched
  <2>6. CASE \E st : q = Result(st, s)
    BY <1>2, <2>6, Zenon DEF q
  <2>7. CASE v.attrs = attrs \ {"AP"} /\ q = Result("SUCCESS", PutSlot(s, first, w, 0))
    BY <1>3, <2>1, <2>5, <2>7, Zenon DEF q, v
  <2> QED
    BY <2>4, <2>6, <2>7, Zenon
<1>7. ASSUME ~TooLarge(s, n, data), attrs # {}
      PROVE  Fine(CreateVariable(s, n, data, attrs \ {"AP"}))
  <2> DEFINE q == CreateVariable(s, n, data, attrs \ {"AP"})
             i == Min(FreeSlots(s))
             w == [FreeSlot EXCEPT !.key = n.key, !.data = data, !.attrs = attrs \ {"AP"}]
  <2>1. CASE FreeSlots(s) = {} \/ data = <<>>
    <3>1. q = Result("DEVICE_ERROR", s)
      BY <2>1 DEF CreateVariable
    <3> HIDE DEF q, Fine
    <3> QED
      BY <1>2, <3>1, Zenon DEF q
  <2>2. CASE ~(FreeSlots(s) = {} \/ data = <<>>)
    <3>1. q = Result("SUCCESS", PutSlot(s, i, w, 1))
      BY <2>2, Zenon DEF CreateVariable
    <3>2. i \in FreeSlots(s)
      <4>1. FreeSlots(s) \in SUBSET Nat /\ FreeSlots(s) # {}
        BY <2>2, LimitsAssumption DEF FreeSlots, Slots
      <4> QED
        BY <4>1, MinIsSmallest, Zenon
    <3>3. i \in Slots /\ s.slots[i].key = NoKey
      BY <3>2, Zenon DEF FreeSlots, Occupied, variable_is_valid
    <3>4. w.key = k /\ w.attrs = attrs \ {"AP"}
      BY <1>1 DEF FreeSlot
    <3>5. NameSize[k] <= MaxNameSize
      BY <1>7, OnlySizesBind, LimitsAssumption, KeysAssumption DEF n
    <3> HIDE DEF q, Fine, w, i
    <3>6. Touched(s.slots[i], w, k, attrs)
      BY <1>7, <3>3, <3>4, <3>5, Zenon DEF Touched
    <3> QED
      BY <1>3, <3>1, <3>3, <3>6, Zenon DEF q
  <2> QED
    BY <2>1, <2>2, ZenonT(30)
<1>8. Fine(r)
  <2> HIDE DEF Fine
  <2> QED
    BY <1>2, <1>5, <1>6, <1>7, Zenon DEF storage_set, storage_exists
<1> QED
  BY <1>8, Zenon DEF n

-----------------------------------------------------------------------------
(***************************************************************************)
(* Storing what was kept                                                   *)
(***************************************************************************)
\* A variable as a list holds it, and one that storage_set takes again.
Listed(v) == v \in Variable /\ v.key \in Keys /\ v.data # <<>>

Loadable(v) ==
    /\ Listed(v) /\ Len(v.data) <= MaxDataSize /\ NameSize[v.key] <= MaxNameSize
    /\ "AP" \notin v.attrs /\ v.attrs # {}

\* Slot m of t holds v, and the other slots are as in s.
Placed(s, t, m, v) ==
    /\ \A i \in Slots : i # m => t.slots[i] = s.slots[i]
    /\ t.slots[m].key = v.key /\ t.slots[m].data = v.data /\ t.slots[m].attrs = v.attrs

\* The occupied slots are the first m, and v is in none of them.
Ready(s, m, v) ==
    /\ m < MaxVarCount - 1
    /\ Occupied(s) = 0 .. m - 1
    /\ \A i \in Occupied(s) : s.slots[i].key # v.key

\* storage_set puts a new variable into the first slot that is free.
LEMMA SetPlaces ==
    ASSUME NEW s, TableOK(s), NEW v, Loadable(v), NEW m \in Nat, Ready(s, m, v)
    PROVE  LET r == storage_set(s, Plain(v.key), v.data, v.attrs)
           IN  r.st = "SUCCESS" /\ Placed(s, r.s, m, v)
<1> DEFINE n == Plain(v.key)
           new == [FreeSlot EXCEPT !.key = v.key, !.data = v.data, !.attrs = v.attrs]
<1>1. /\ n.key = v.key /\ v.key \in Keys /\ v.data \in Seq(Atoms) /\ v.data # <<>>
      /\ v.attrs # {} /\ "AP" \notin v.attrs /\ v.attrs \ {"AP"} = v.attrs
      /\ Len(v.data) <= MaxDataSize /\ NameSize[v.key] <= MaxNameSize
  BY Zenon DEF Plain, Loadable, Listed, Variable
<1>2. m \in Slots /\ m \notin Occupied(s)
  BY LimitsAssumption DEF Ready, Slots
<1>3. Matches(s, n) = {}
  BY <1>1, KeysAssumption, Zenon DEF Matches, Ready, Occupied, variable_is_valid
<1>4. ~TooLarge(s, n, v.data)
  BY <1>1, OnlySizesBind, LimitsAssumption, KeysAssumption
<1>5. Min(FreeSlots(s)) = m
  <2>1. FreeSlots(s) \in SUBSET Nat /\ m \in FreeSlots(s)
    BY <1>2, LimitsAssumption DEF FreeSlots, Slots
  <2>2. Min(FreeSlots(s)) \in FreeSlots(s) /\ Min(FreeSlots(s)) <= m
    BY <2>1, MinIsSmallest, Zenon
  <2>3. Min(FreeSlots(s)) \in Nat /\ Min(FreeSlots(s)) \notin 0 .. m - 1
    BY <2>1, <2>2, ZenonT(30) DEF FreeSlots, Ready
  <2> QED
    BY <2>2, <2>3
<1>6. FreeSlots(s) # {}
  BY <1>2, Zenon DEF FreeSlots
<1> HIDE DEF n
<1>7. storage_set(s, n, v.data, v.attrs) = CreateVariable(s, n, v.data, v.attrs)
  BY <1>1, <1>3, <1>4, Zenon DEF storage_set, storage_exists
<1>8. CreateVariable(s, n, v.data, v.attrs) = Result("SUCCESS", PutSlot(s, m, new, 1))
  BY <1>1, <1>5, <1>6, Zenon DEF CreateVariable
<1>9. new.key = v.key /\ new.data = v.data /\ new.attrs = v.attrs
  BY DEF FreeSlot
<1> HIDE DEF new
<1>10. DOMAIN s.slots = Slots
  BY DEF TableOK, Table
<1>11. Placed(s, PutSlot(s, m, new, 1), m, v)
  BY <1>2, <1>9, <1>10, Zenon DEF Placed, PutSlot
<1> QED
  BY <1>7, <1>8, <1>11 DEF Result, n

\* The time of an authenticated variable is set in that slot.
LEMMA StampPlaces ==
    ASSUME NEW s, NEW t, TableOK(t), NEW v, Loadable(v), NEW m \in Nat, Ready(s, m, v),
           Placed(s, t, m, v), NEW ts
    PROVE  LET r == SetTimestamp(t, Plain(v.key), ts)
           IN  r.st = "SUCCESS" /\ Placed(s, r.s, m, v)
<1> DEFINE n == Plain(v.key)
           new == [t.slots[m] EXCEPT !.timestamp = ts]
<1>1. n.key = v.key /\ ~n.nul /\ v.key \in Keys /\ m \in Slots /\ m \in Nat
  BY LimitsAssumption DEF Plain, Loadable, Listed, Ready, Slots
<1>2. Matches(t, n) = {m}
  <2>1. m \in Matches(t, n)
    BY <1>1, Zenon DEF Matches, Placed
  <2>2. ASSUME NEW i \in Matches(t, n) PROVE i = m
    <3>1. i \in Slots /\ t.slots[i].key = v.key
      BY <1>1, Zenon DEF Matches
    <3>2. CASE i # m
      <4>1. s.slots[i].key = v.key
        BY <3>1, <3>2, Zenon DEF Placed
      <4>2. i \in Occupied(s)
        BY <1>1, <3>1, <4>1, KeysAssumption, Zenon DEF Occupied, variable_is_valid
      <4> QED
        BY <4>1, <4>2, Zenon DEF Ready
    <3> QED
      BY <3>2, Zenon
  <2> QED
    BY <2>1, <2>2, ZenonT(30)
<1>3. Min({m}) = m
  <2>1. {m} \in SUBSET Nat /\ {m} # {}
    OBVIOUS
  <2>2. Min({m}) \in {m}
    BY <2>1, MinIsSmallest, Zenon
  <2> QED
    BY <2>2
<1> HIDE DEF n
<1>4. SetTimestamp(t, n, ts) = Result("SUCCESS", PutSlot(t, m, new, 0))
  BY <1>2, <1>3, Zenon DEF SetTimestamp, storage_exists
<1>5. DOMAIN t.slots = Slots /\ t.slots[m] \in Variable
  BY <1>1, Zenon DEF TableOK, Table
<1>6. new.key = t.slots[m].key /\ new.data = t.slots[m].data /\ new.attrs = t.slots[m].attrs
  BY <1>5, Zenon DEF Variable
<1> HIDE DEF new
<1>7. PutSlot(t, m, new, 0).slots = [t.slots EXCEPT ![m] = new]
  BY Zenon DEF PutSlot
<1>8. Placed(s, PutSlot(t, m, new, 0), m, v)
  BY <1>1, <1>5, <1>6, <1>7, Zenon DEF Placed
<1> QED
  BY <1>4, <1>8 DEF Result, n

\* So xapi_init succeeds.
LEMMA RestorePlaces ==
    ASSUME NEW s, TableOK(s), NEW v, Loadable(v), NEW m \in Nat, Ready(s, m, v)
    PROVE  LET r == RestoreVariable(s, v)
           IN  r.st = "SUCCESS" /\ Placed(s, r.s, m, v)
<1> DEFINE n == Plain(v.key)
           r == storage_set(s, n, v.data, v.attrs)
<1>1. r.st = "SUCCESS" /\ Placed(s, r.s, m, v)
  BY SetPlaces, Zenon
<1>2. n \in NameArg /\ n.key \in Keys /\ v.data \in Seq(Atoms) /\ v.attrs \in SUBSET Attrs
  BY Zenon DEF Plain, NameArg, Loadable, Listed, Variable
<1>3. TableOK(r.s)
  BY <1>2, SetOK, Zenon
<1>4. ~is_delete(v.attrs, v.data)
  BY Zenon DEF is_delete, Loadable, Listed
<1> HIDE DEF r
<1>5. LET q == SetTimestamp(r.s, n, v.timestamp)
      IN  q.st = "SUCCESS" /\ Placed(s, q.s, m, v)
  BY <1>1, <1>3, StampPlaces, Zenon
<1> HIDE DEF n
<1>6. storage_set_with_timestamp(s, n, v.data, v.attrs, v.timestamp)
          = SetTimestamp(r.s, n, v.timestamp)
  BY <1>4 DEF storage_set_with_timestamp, r
<1> QED
  BY <1>1, <1>5, <1>6, Zenon DEF RestoreVariable, n, r

-----------------------------------------------------------------------------
(***************************************************************************)
(* A table by name                                                         *)
(***************************************************************************)
\* What a table between two calls is.
Sound(s) == TableOK(s) /\ KeysDiffer(s)

Known(s, k) == storage_exists(s, Plain(k))
At(s, k) == find_variable(s, Plain(k))

\* Two tables hold the same variable under a name, or both none.
Same(s, t, k) == /\ Known(t, k) <=> Known(s, k)
                 /\ Known(s, k) => At(t, k) = At(s, k)

Triple(v) == <<v.key, v.data, v.attrs>>

\* What a write of k with these attributes may make of a slot.
SlotEdit(v, w, k, attrs) ==
    \/ w = v
    \/ /\ v.key \in {k, NoKey}
       /\ \/ w.key = NoKey
          \/ /\ w.key = k
             /\ \/ Triple(w) = Triple(v)
                \/ w.attrs = attrs \ {"AP"} /\ NameSize[k] <= MaxNameSize

Edit(s, t, k, attrs) ==
    \A i \in Slots : SlotEdit(s.slots[i], t.slots[i], k, attrs)

\* A variable that is known is in one slot, and is well formed.
LEMMA KnownSlot ==
    ASSUME NEW s, Sound(s), NEW k \in Keys, Known(s, k)
    PROVE  /\ Min(Matches(s, Plain(k))) \in Slots
           /\ s.slots[Min(Matches(s, Plain(k)))] = At(s, k)
           /\ At(s, k).key = k /\ At(s, k) \in Variable
           /\ At(s, k).data # <<>> /\ "AP" \notin At(s, k).attrs
           /\ \A i \in Slots : s.slots[i].key = k => i = Min(Matches(s, Plain(k)))
<1> DEFINE m == Min(Matches(s, Plain(k)))
<1>1. m \in Slots /\ s.slots[m].key = k
  BY FirstMatch, Zenon DEF Known, storage_exists, Plain
<1>2. s.slots[m] = At(s, k)
  BY DEF At, find_variable
<1>3. s.slots[m] \in Variable /\ SlotOK(s.slots[m])
  BY <1>1, Zenon DEF Sound, TableOK, Table
<1>4. variable_is_valid(s.slots[m])
  BY <1>1, KeysAssumption, Zenon DEF variable_is_valid
<1>5. ASSUME NEW i \in Slots, s.slots[i].key = k PROVE i = m
  BY <1>1, <1>5, KeysAssumption, Zenon DEF Sound, KeysDiffer, Occupied, variable_is_valid
<1>6. Len(s.slots[m].data) \in 1 .. MaxDataSize /\ "AP" \notin s.slots[m].attrs
  BY <1>3, <1>4, Zenon DEF SlotOK
<1>7. s.slots[m].data # <<>>
  BY <1>6, LimitsAssumption
<1> HIDE DEF m
<1> QED
  BY <1>1, <1>2, <1>3, <1>5, <1>6, <1>7, Zenon DEF m

\* A slot with a key is the variable known by it.
LEMMA SlotKnown ==
    ASSUME NEW s, Sound(s), NEW i \in Slots, NEW k \in Keys, s.slots[i].key = k
    PROVE  Known(s, k) /\ At(s, k) = s.slots[i]
  BY SlotOfKey, Zenon DEF Sound, Known, At, find_variable

\* Without a slot that has the key, nothing is known by it.
LEMMA NoSlotKnown ==
    ASSUME NEW s, NEW k, ~Known(s, k), NEW i \in Slots
    PROVE  s.slots[i].key # k
  BY Zenon DEF Known, storage_exists, Matches, Plain

\* A write of k leaves the variables of other names alone.
LEMMA EditOthers ==
    ASSUME NEW s, Sound(s), NEW t, Sound(t), NEW k \in Keys, NEW attrs, Edit(s, t, k, attrs),
           NEW j \in Keys, j # k
    PROVE  Same(s, t, j)
<1>1. \A i \in Slots : s.slots[i].key = j \/ t.slots[i].key = j => t.slots[i] = s.slots[i]
  BY KeysAssumption, Zenon DEF Edit, SlotEdit
<1>2. ASSUME Known(s, j) PROVE Known(t, j) /\ At(t, j) = At(s, j)
  <2>1. PICK i \in Slots : s.slots[i] = At(s, j) /\ At(s, j).key = j
    BY <1>2, KnownSlot, Zenon
  <2>2. t.slots[i] = s.slots[i]
    BY <1>1, <2>1, Zenon
  <2> QED
    BY <2>1, <2>2, SlotKnown, Zenon
<1>3. ASSUME Known(t, j) PROVE Known(s, j)
  <2>1. PICK i \in Slots : t.slots[i] = At(t, j) /\ At(t, j).key = j
    BY <1>3, KnownSlot, Zenon
  <2>2. t.slots[i] = s.slots[i]
    BY <1>1, <2>1, Zenon
  <2> QED
    BY <2>1, <2>2, SlotKnown
<1> QED
  BY <1>2, <1>3, Zenon DEF Same

\* The names that storage_set takes, and a table with no other.
Fits(k) == NameSize[k] <= MaxNameSize
NamesFit(s) == \A k \in Keys : Known(s, k) => Fits(k)

\* A write adds no other.
LEMMA EditFits ==
    ASSUME NEW s, Sound(s), NEW t, Sound(t), NEW k \in Keys, NEW attrs, Edit(s, t, k, attrs),
           NamesFit(s)
    PROVE  NamesFit(t)
<1> SUFFICES ASSUME NEW j \in Keys, Known(t, j) PROVE Fits(j)
  BY DEF NamesFit
<1>1. PICK i \in Slots : t.slots[i] = At(t, j) /\ t.slots[i].key = j
  BY KnownSlot
<1>2. CASE s.slots[i].key = j
  BY <1>2, SlotKnown, Zenon DEF NamesFit
<1>3. CASE s.slots[i].key # j
  <2>1. SlotEdit(s.slots[i], t.slots[i], k, attrs) /\ j # NoKey
    BY KeysAssumption, Zenon DEF Edit
  <2>2. \A v, w : Triple(w) = Triple(v) => w.key = v.key
    BY Zenon DEF Triple
  <2> QED
    BY <1>1, <1>3, <2>1, <2>2, Zenon DEF SlotEdit, Fits
<1> QED
  BY <1>2, <1>3, Zenon

\* Two writes of k one after the other are a write of k.
LEMMA EditTwice ==
    ASSUME NEW s, NEW t, NEW u, NEW k, NEW attrs, Edit(s, t, k, attrs), Edit(t, u, k, attrs)
    PROVE  Edit(s, u, k, attrs)
<1> SUFFICES ASSUME NEW i \in Slots PROVE SlotEdit(s.slots[i], u.slots[i], k, attrs)
  BY Zenon DEF Edit
<1>1. SlotEdit(s.slots[i], t.slots[i], k, attrs) /\ SlotEdit(t.slots[i], u.slots[i], k, attrs)
  BY Zenon DEF Edit
<1>2. \A v, w : Triple(w) = Triple(v) => w.key = v.key /\ w.attrs = v.attrs
  BY Zenon DEF Triple
<1> QED
  BY <1>1, <1>2 DEF SlotEdit

\* No write is a write of k.
LEMMA NoEdit == ASSUME NEW s, NEW k, NEW attrs PROVE Edit(s, s, k, attrs)
  BY Zenon DEF Edit, SlotEdit

\* Replacing one slot of k, or a cleared one, is a write of k.
LEMMA PutEdit ==
    ASSUME NEW s, TableOK(s), NEW i \in Slots, NEW w, NEW g, NEW k, NEW attrs,
           SlotEdit(s.slots[i], w, k, attrs)
    PROVE  Edit(s, PutSlot(s, i, w, g), k, attrs) /\ PutSlot(s, i, w, g).slots[i] = w
<1>1. \A j \in Slots : PutSlot(s, i, w, g).slots[j] = IF j = i THEN w ELSE s.slots[j]
  BY Zenon DEF PutSlot, TableOK, Table
<1> QED
  BY <1>1, Zenon DEF Edit, SlotEdit

-----------------------------------------------------------------------------
(***************************************************************************)
(* The table's updates, by name                                            *)
(***************************************************************************)
\* A name argument as the server builds it.
LEMMA PlainName ==
    ASSUME NEW k \in Keys
    PROVE  /\ Plain(k) \in NameArg /\ Plain(k).key = k /\ Plain(k).key \in Keys /\ ~Plain(k).nul
           /\ Plain(k).nul = FALSE
  BY Zenon DEF Plain, NameArg

\* storage_remove succeeds exactly when the variable is known, and makes it
\* unknown.
LEMMA RemoveVar ==
    ASSUME NEW s, Sound(s), NEW k \in Keys, NEW attrs
    PROVE  LET r == storage_remove(s, Plain(k))
           IN  /\ Sound(r.s) /\ Edit(s, r.s, k, attrs)
               /\ r.st = "SUCCESS" <=> Known(s, k)
               /\ r.st = "SUCCESS" => ~Known(r.s, k)
               /\ r.st # "SUCCESS" => r.s = s
<1> DEFINE n == Plain(k)
           r == storage_remove(s, n)
           m == Min(Matches(s, n))
<1>1. Sound(r.s)
  BY RemoveOK, PlainName, Zenon DEF Sound
<1>2. CASE ~Known(s, k)
  <2>1. r = Result("NOT_FOUND", s)
    BY <1>2, Zenon DEF storage_remove, Known, storage_exists
  <2>2. r.st = "NOT_FOUND" /\ r.s = s
    BY <2>1 DEF Result
  <2> HIDE DEF r
  <2> QED
    BY <1>1, <1>2, <2>2, NoEdit, Zenon DEF r
<1>3. CASE Known(s, k)
  <2>1. r = Result("SUCCESS", PutSlot(s, m, FreeSlot, -1))
    BY <1>3, Zenon DEF storage_remove, Known, storage_exists
  <2>2. r.st = "SUCCESS" /\ r.s = PutSlot(s, m, FreeSlot, -1)
    BY <2>1 DEF Result
  <2>3. /\ m \in Slots /\ s.slots[m] = At(s, k) /\ At(s, k).key = k
        /\ \A i \in Slots : s.slots[i].key = k => i = m
    BY <1>3, KnownSlot, Zenon
  <2> HIDE DEF r, m
  <2>4. SlotEdit(s.slots[m], FreeSlot, k, attrs)
    BY <2>3, FreeSlotType, Zenon DEF SlotEdit
  <2>5. Edit(s, r.s, k, attrs) /\ r.s.slots[m] = FreeSlot
    BY <2>2, <2>3, <2>4, PutEdit DEF Sound
  <2>6. \A i \in Slots : i # m => r.s.slots[i] = s.slots[i]
    BY <2>2, <2>3 DEF PutSlot, Sound, TableOK, Table
  <2>7. ~Known(r.s, k)
    <3>1. \A i \in Slots : r.s.slots[i].key # k
      BY <2>3, <2>5, <2>6, FreeSlotType, KeysAssumption, Zenon
    <3> QED
      BY <3>1, Zenon DEF Known, storage_exists, Matches, Plain
  <2> QED
    BY <1>1, <1>3, <2>2, <2>5, <2>7, Zenon DEF r
<1> QED
  BY <1>2, <1>3, Zenon

\* The variable a write of k leaves, from the one that was there.
Kin(v, w, attrs) == /\ v.attrs = attrs \ {"AP"} /\ w.attrs = v.attrs
                    /\ w.timestamp = v.timestamp /\ w.cert = v.cert

NewData(v, data, attrs) == IF "AP" \in attrs THEN v.data \o data ELSE data

\* Replacing or extending the data of a known variable leaves the rest of it.
LEMMA ReplaceVar ==
    ASSUME NEW s, Sound(s), NEW k \in Keys, Known(s, k), NEW data \in Seq(Atoms),
           NEW attrs, NameSize[k] <= MaxNameSize
    PROVE  LET old == At(s, k)
               new == NewData(old, data, attrs)
               r == ReplaceVariable(s, Min(Matches(s, Plain(k))), data, attrs \ {"AP"},
                                    "AP" \in attrs)
           IN  /\ Sound(r.s) /\ Edit(s, r.s, k, attrs)
               /\ r.st # "SUCCESS" => r.s = s
               /\ r.st = "SUCCESS" => /\ Known(r.s, k) /\ At(r.s, k).data = new
                                      /\ Kin(old, At(r.s, k), attrs) /\ data # <<>>
               /\ (old.attrs = attrs \ {"AP"} /\ data # <<>> /\ Len(new) <= MaxDataSize)
                      => r.st = "SUCCESS"
<1> DEFINE append == "AP" \in attrs
           m == Min(Matches(s, Plain(k)))
           old == At(s, k)
           new == NewData(old, data, attrs)
           w == [old EXCEPT !.data = new]
           r == ReplaceVariable(s, m, data, attrs \ {"AP"}, append)
           ok == old.attrs = attrs \ {"AP"} /\ data # <<>> /\ Len(new) <= MaxDataSize
<1>1. m \in Slots /\ s.slots[m] = old /\ old.key = k /\ old \in Variable
  BY KnownSlot, Zenon
<1>2. m \in Occupied(s)
  BY <1>1, KeysAssumption, Zenon DEF Occupied, variable_is_valid
<1>3. Sound(r.s)
  <2>1. append \in BOOLEAN
    OBVIOUS
  <2> QED
    BY <1>2, <2>1, ReplaceOK, ZenonT(30) DEF Sound
<1>4. new \in Seq(Atoms) /\ Len(new) \in Nat
  BY <1>1 DEF Variable, NewData
<1>5. /\ w.key = k /\ w.attrs = old.attrs /\ w.data = new
      /\ w.timestamp = old.timestamp /\ w.cert = old.cert
  <2> HIDE DEF new
  <2> QED
    BY <1>1, Zenon DEF Variable
<1>6. CASE ~ok
  <2>1. r.st \in {"INVALID_PARAMETER", "DEVICE_ERROR"} /\ r.s = s
    BY <1>1, <1>4, <1>6, LimitsAssumption DEF ReplaceVariable, Result, NewData
  <2> HIDE DEF r, ok
  <2>2. r.st # "SUCCESS" /\ Edit(s, r.s, k, attrs)
    BY <2>1, NoEdit, Zenon
  <2> QED
    BY <1>3, <1>6, <2>1, <2>2, Zenon DEF ok, r
<1>7. CASE ok
  <2>1. r = Result("SUCCESS", PutSlot(s, m, w, 0))
    BY <1>1, <1>4, <1>7, LimitsAssumption DEF ReplaceVariable, NewData
  <2> HIDE DEF r, m, w
  <2>2. r.st = "SUCCESS" /\ r.s = PutSlot(s, m, w, 0)
    BY <2>1, Zenon DEF Result
  <2>3. SlotEdit(s.slots[m], w, k, attrs)
    BY <1>1, <1>5, <1>7, Zenon DEF SlotEdit
  <2>4. Edit(s, r.s, k, attrs) /\ r.s.slots[m] = w
    BY <1>1, <2>2, <2>3, PutEdit DEF Sound
  <2>5. Known(r.s, k) /\ At(r.s, k) = w
    BY <1>1, <1>3, <1>5, <2>4, SlotKnown, Zenon
  <2> QED
    BY <1>3, <1>5, <1>7, <2>2, <2>4, <2>5, Zenon DEF r, m, Kin
<1> QED
  BY <1>6, <1>7, Zenon

\* A new variable has the data and the attributes of the write.
LEMMA CreateVar ==
    ASSUME NEW s, Sound(s), NEW k \in Keys, ~Known(s, k), NEW data \in Seq(Atoms),
           NEW attrs \in SUBSET Attrs, Len(data) <= MaxDataSize, NameSize[k] <= MaxNameSize
    PROVE  LET r == CreateVariable(s, Plain(k), data, attrs \ {"AP"})
           IN  /\ Sound(r.s) /\ Edit(s, r.s, k, attrs)
               /\ r.st # "SUCCESS" => r.s = s
               /\ r.st = "SUCCESS" =>
                      /\ data # <<>> /\ Known(r.s, k)
                      /\ At(r.s, k).data = data /\ At(r.s, k).attrs = attrs \ {"AP"}
<1> DEFINE n == Plain(k)
           a == attrs \ {"AP"}
           r == CreateVariable(s, n, data, a)
           i == Min(FreeSlots(s))
           w == [FreeSlot EXCEPT !.key = n.key, !.data = data, !.attrs = a]
<1>1. a \in SUBSET Attrs /\ "AP" \notin a /\ Matches(s, n) = {}
  BY Zenon DEF Known, storage_exists
<1>2. Sound(r.s)
  BY <1>1, CreateOK, PlainName, Zenon DEF Sound
<1>3. w.key = k /\ w.data = data /\ w.attrs = a
  BY PlainName, Zenon DEF FreeSlot
<1>4. CASE FreeSlots(s) = {} \/ data = <<>>
  <2>1. r.st = "DEVICE_ERROR" /\ r.s = s
    BY <1>4 DEF CreateVariable, Result
  <2> HIDE DEF r
  <2> QED
    BY <1>2, <2>1, NoEdit, Zenon DEF r
<1>5. CASE FreeSlots(s) # {} /\ data # <<>>
  <2>1. r = Result("SUCCESS", PutSlot(s, i, w, 1))
    BY <1>5, Zenon DEF CreateVariable
  <2>2. r.st = "SUCCESS" /\ r.s = PutSlot(s, i, w, 1)
    BY <2>1 DEF Result
  <2>3. i \in FreeSlots(s)
    <3>1. FreeSlots(s) \in SUBSET Nat
      BY LimitsAssumption DEF FreeSlots, Slots
    <3> QED
      BY <1>5, <3>1, MinIsSmallest, Zenon
  <2>4. i \in Slots /\ s.slots[i].key = NoKey
    BY <2>3, Zenon DEF FreeSlots, Occupied, variable_is_valid
  <2> HIDE DEF r, i, w
  <2>5. SlotEdit(s.slots[i], w, k, attrs)
    BY <1>3, <2>4, Zenon DEF SlotEdit
  <2>6. Edit(s, r.s, k, attrs) /\ r.s.slots[i] = w
    BY <2>2, <2>4, <2>5, PutEdit DEF Sound
  <2>7. Known(r.s, k) /\ At(r.s, k) = w
    BY <1>2, <1>3, <2>4, <2>6, SlotKnown, Zenon
  <2> QED
    BY <1>2, <1>3, <1>5, <2>2, <2>6, <2>7, Zenon DEF r
<1> QED
  BY <1>4, <1>5, Zenon

\* The writes that storage_set takes for a deletion.
Removes(data, attrs) == (data = <<>> /\ "AP" \notin attrs) \/ attrs = {}

\* What storage_set does, by name: a failure changes nothing, a success
\* removes the variable or leaves it with the attributes of the write.
LEMMA SetVar ==
    ASSUME NEW s, Sound(s), NEW k \in Keys, NEW data \in Seq(Atoms), NEW attrs \in SUBSET Attrs
    PROVE  LET r == storage_set(s, Plain(k), data, attrs)
           IN  /\ Sound(r.s) /\ Edit(s, r.s, k, attrs)
               /\ r.st # "SUCCESS" => r.s = s
               /\ r.st = "SUCCESS" /\ Removes(data, attrs) => Known(s, k) /\ ~Known(r.s, k)
               /\ r.st = "SUCCESS" => Fits(k)
               /\ r.st = "SUCCESS" /\ ~Removes(data, attrs) =>
                      /\ data # <<>> /\ Known(r.s, k) /\ At(r.s, k).attrs = attrs \ {"AP"}
                      /\ "AP" \notin attrs => At(r.s, k).data = data
                      /\ Known(s, k) => Kin(At(s, k), At(r.s, k), attrs)
<1> DEFINE n == Plain(k)
           r == storage_set(s, n, data, attrs)
           append == "AP" \in attrs
<1>1. TooLarge(s, n, data) \/ (NameSize[k] <= MaxNameSize /\ Len(data) <= MaxDataSize)
  BY OnlySizesBind, LimitsAssumption, KeysAssumption DEF Sound
<1>0. TooLarge(s, n, data) \/ Fits(k)
  BY <1>1, Zenon DEF Fits
<1>2. CASE TooLarge(s, n, data)
  <2>1. r.st = "OUT_OF_RESOURCES" /\ r.s = s
    BY <1>2, Zenon DEF storage_set, Result
  <2> HIDE DEF r
  <2> QED
    BY <2>1, NoEdit, Zenon DEF r
<1>3. CASE ~TooLarge(s, n, data) /\ Removes(data, attrs)
  <2>1. r = storage_remove(s, n)
    BY <1>3, Zenon DEF storage_set, Removes
  <2> HIDE DEF r
  <2> QED
    BY <1>0, <1>3, <2>1, RemoveVar DEF r
<1>4. CASE ~TooLarge(s, n, data) /\ ~Removes(data, attrs) /\ Known(s, k)
  <2>1. r = ReplaceVariable(s, Min(Matches(s, n)), data, attrs \ {"AP"}, append)
    BY <1>4, Zenon DEF storage_set, Removes, Known
  <2> HIDE DEF r
  <2>2. /\ Sound(r.s) /\ Edit(s, r.s, k, attrs)
        /\ r.st # "SUCCESS" => r.s = s
        /\ r.st = "SUCCESS" => /\ Known(r.s, k) /\ data # <<>>
                               /\ At(r.s, k).data = NewData(At(s, k), data, attrs)
                               /\ Kin(At(s, k), At(r.s, k), attrs)
    BY <1>1, <1>4, <2>1, ReplaceVar
  <2> QED
    BY <1>0, <1>4, <2>2, Zenon DEF r, Kin, NewData
<1>5. CASE ~TooLarge(s, n, data) /\ ~Removes(data, attrs) /\ ~Known(s, k)
  <2>1. r = CreateVariable(s, n, data, attrs \ {"AP"})
    BY <1>5, Zenon DEF storage_set, Removes, Known
  <2> HIDE DEF r
  <2>2. /\ Sound(r.s) /\ Edit(s, r.s, k, attrs)
        /\ r.st # "SUCCESS" => r.s = s
        /\ r.st = "SUCCESS" =>
               /\ data # <<>> /\ Known(r.s, k)
               /\ At(r.s, k).data = data /\ At(r.s, k).attrs = attrs \ {"AP"}
    BY <1>1, <1>5, <2>1, CreateVar
  <2> QED
    BY <1>0, <1>5, <2>2, Zenon DEF r
<1> QED
  BY <1>2, <1>3, <1>4, <1>5, Zenon

\* A known variable takes data with the same attributes, if there is room.
LEMMA SetKnown ==
    ASSUME NEW s, Sound(s), NEW k \in Keys, NEW data \in Seq(Atoms), NEW attrs \in SUBSET Attrs,
           Known(s, k), ~Removes(data, attrs), At(s, k).attrs = attrs \ {"AP"}, data # <<>>,
           Len(data) <= MaxDataSize, Len(NewData(At(s, k), data, attrs)) <= MaxDataSize,
           NameSize[k] <= MaxNameSize
    PROVE  storage_set(s, Plain(k), data, attrs).st = "SUCCESS"
<1> DEFINE n == Plain(k)
           r == storage_set(s, n, data, attrs)
<1>1. ~TooLarge(s, n, data)
  BY OnlySizesBind, LimitsAssumption, KeysAssumption DEF Sound
<1>2. r = ReplaceVariable(s, Min(Matches(s, n)), data, attrs \ {"AP"}, "AP" \in attrs)
  BY <1>1, Zenon DEF storage_set, Known, Removes
<1> HIDE DEF r
<1> QED
  BY <1>2, ReplaceVar DEF r

\* Stamping a known variable changes its timestamp and nothing else.
LEMMA StampVar ==
    ASSUME NEW s, Sound(s), NEW k \in Keys, NEW ts \in Nat, NEW attrs
    PROVE  LET r == SetTimestamp(s, Plain(k), ts)
           IN  /\ Sound(r.s) /\ Edit(s, r.s, k, attrs)
               /\ ~Known(s, k) => r.st = "NOT_FOUND" /\ r.s = s
               /\ Known(s, k) =>
                      /\ r.st = "SUCCESS" /\ Known(r.s, k)
                      /\ Triple(At(r.s, k)) = Triple(At(s, k))
                      /\ At(r.s, k).cert = At(s, k).cert /\ At(r.s, k).timestamp = ts
<1> DEFINE n == Plain(k)
           r == SetTimestamp(s, n, ts)
           m == Min(Matches(s, n))
           w == [s.slots[m] EXCEPT !.timestamp = ts]
<1>1. Sound(r.s)
  BY SetTimestampOK, PlainName, Zenon DEF Sound
<1>2. CASE ~Known(s, k)
  <2>1. r.st = "NOT_FOUND" /\ r.s = s
    BY <1>2, Zenon DEF SetTimestamp, Known, Result
  <2> HIDE DEF r
  <2> QED
    BY <1>1, <1>2, <2>1, NoEdit, Zenon DEF r
<1>3. CASE Known(s, k)
  <2>1. r = Result("SUCCESS", PutSlot(s, m, w, 0))
    BY <1>3, Zenon DEF SetTimestamp, Known
  <2>2. m \in Slots /\ s.slots[m] = At(s, k) /\ At(s, k).key = k /\ At(s, k) \in Variable
    BY <1>3, KnownSlot, Zenon
  <2> HIDE DEF m
  <2>3. /\ w.key = k /\ w.data = At(s, k).data /\ w.attrs = At(s, k).attrs
        /\ w.cert = At(s, k).cert /\ w.timestamp = ts
    BY <2>2, Zenon DEF Variable
  <2> HIDE DEF r, w
  <2>4. r.st = "SUCCESS" /\ r.s = PutSlot(s, m, w, 0)
    BY <2>1, Zenon DEF Result
  <2>5. Triple(w) = Triple(At(s, k))
    BY <2>2, <2>3, Zenon DEF Triple
  <2>6. SlotEdit(s.slots[m], w, k, attrs)
    BY <2>2, <2>3, <2>5, Zenon DEF SlotEdit
  <2>7. Edit(s, r.s, k, attrs) /\ r.s.slots[m] = w
    BY <2>2, <2>4, <2>6, PutEdit DEF Sound
  <2>8. Known(r.s, k) /\ At(r.s, k) = w
    BY <1>1, <2>2, <2>3, <2>7, SlotKnown, Zenon
  <2> QED
    BY <1>1, <1>3, <2>3, <2>4, <2>5, <2>7, <2>8, Zenon DEF r
<1> QED
  BY <1>2, <1>3, Zenon

\* What storage_set_with_timestamp does, by name.
LEMMA SetStamped ==
    ASSUME NEW s, Sound(s), NEW k \in Keys, NEW data \in Seq(Atoms), NEW attrs \in SUBSET Attrs,
           NEW ts \in Nat, "AT" \in attrs
    PROVE  LET r == storage_set_with_timestamp(s, Plain(k), data, attrs, ts)
           IN  /\ Sound(r.s) /\ Edit(s, r.s, k, attrs)
               /\ r.st # "SUCCESS" => r.s = s
               /\ r.st = "SUCCESS" /\ data = <<>> =>
                      "AP" \notin attrs /\ Known(s, k) /\ ~Known(r.s, k)
               /\ r.st = "SUCCESS" /\ data # <<>> =>
                      /\ Known(r.s, k) /\ At(r.s, k).timestamp = ts
                      /\ Known(s, k) => At(r.s, k).cert = At(s, k).cert
<1> DEFINE n == Plain(k)
           q == storage_set(s, n, data, attrs)
           t == SetTimestamp(q.s, n, ts)
           r == storage_set_with_timestamp(s, n, data, attrs, ts)
<1>1. /\ Sound(q.s) /\ Edit(s, q.s, k, attrs)
      /\ q.st # "SUCCESS" => q.s = s
      /\ q.st = "SUCCESS" /\ Removes(data, attrs) => Known(s, k) /\ ~Known(q.s, k)
      /\ q.st = "SUCCESS" /\ ~Removes(data, attrs) =>
             /\ data # <<>> /\ Known(q.s, k)
             /\ Known(s, k) => Kin(At(s, k), At(q.s, k), attrs)
  BY SetVar
<1>2. CASE data = <<>>
  <2>1. r = q
    BY <1>2, Zenon DEF storage_set_with_timestamp, is_delete
  <2> HIDE DEF q, r
  <2>2. q.st = "SUCCESS" => Removes(data, attrs)
    BY <1>1, <1>2, Zenon
  <2>3. Removes(data, attrs) => "AP" \notin attrs
    BY <1>2, Zenon DEF Removes
  <2> QED
    BY <1>1, <1>2, <2>1, <2>2, <2>3, Zenon DEF r
<1>3. CASE data # <<>>
  <2>1. r = t
    BY <1>3, Zenon DEF storage_set_with_timestamp, is_delete
  <2>2. ~Removes(data, attrs)
    BY <1>3, Zenon DEF Removes
  <2> HIDE DEF q
  <2>3. /\ Sound(t.s) /\ Edit(q.s, t.s, k, attrs)
        /\ ~Known(q.s, k) => t.st = "NOT_FOUND" /\ t.s = q.s
        /\ Known(q.s, k) =>
               /\ t.st = "SUCCESS" /\ Known(t.s, k)
               /\ At(t.s, k).cert = At(q.s, k).cert /\ At(t.s, k).timestamp = ts
    BY <1>1, StampVar
  <2> HIDE DEF t, r
  <2>4. Edit(s, t.s, k, attrs)
    BY <1>1, <2>3, EditTwice, Zenon
  <2>5. CASE ~Known(q.s, k)
    BY <1>1, <1>3, <2>1, <2>2, <2>3, <2>4, <2>5, Zenon DEF r
  <2>6. CASE Known(q.s, k)
    <3>1. Known(s, k) => At(q.s, k).cert = At(s, k).cert
      BY <1>1, <2>2, Zenon DEF Kin
    <3> QED
      BY <1>3, <2>1, <2>3, <2>4, <2>6, <3>1, Zenon DEF r
  <2> QED
    BY <2>5, <2>6, Zenon
<1> QED
  BY <1>2, <1>3, Zenon
=============================================================================
