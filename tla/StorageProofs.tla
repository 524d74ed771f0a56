--------------------------- MODULE StorageProofs -----------------------------
(***************************************************************************)
(* The invariants of Storage for tables of any size, any set of keys and   *)
(* any data.  TableOK, the inductive invariant, joins the type invariant   *)
(* to the counters and the shape of the slots: the counters alone are not  *)
(* inductive, since a deletion is charged back by the slot it finds.       *)
(***************************************************************************)
EXTENDS Storage, TableProofs

\* Every call of the table's users, the stamped writes included, keeps the
\* table well formed.
LEMMA StepKeepsTable ==
    ASSUME TableOK(storage), [StampedNext]_vars
    PROVE  /\ TableOK(storage')
           /\ ~TerminatedNames /\ KeysDiffer(storage) => KeysDiffer(storage')
<1>1. \A n \in Names : n \in NameArg /\ n.key \in Keys /\ (~TerminatedNames => ~n.nul)
  BY Zenon DEF Names
<1>2. ASSUME NEW n \in Names, NEW data \in DataIn, NEW attrs \in AttrsIn,
             Set(n, data, attrs)
      PROVE  /\ TableOK(storage')
             /\ ~TerminatedNames /\ KeysDiffer(storage) => KeysDiffer(storage')
  BY <1>1, <1>2, SetOK, InputsAssumption, Zenon DEF Set
<1>3. ASSUME NEW n \in Names, NEW data \in DataIn, NEW attrs \in AttrsIn,
             NEW ts \in Timestamps, SetWithTimestamp(n, data, attrs, ts)
      PROVE  /\ TableOK(storage')
             /\ ~TerminatedNames /\ KeysDiffer(storage) => KeysDiffer(storage')
  BY <1>1, <1>3, SetWithTimestampOK, InputsAssumption, Zenon DEF SetWithTimestamp
<1>4. ASSUME NEW n \in Names, NEW bufsz \in BufferSizes, NEW rt \in BOOLEAN,
             Get(n, bufsz, rt)
      PROVE  storage' = storage
  BY <1>4, Zenon DEF Get
<1>5. ASSUME NEW n, NEW bufsz, NEW rt, GetNext(n, bufsz, rt)
      PROVE  storage' = storage
  BY <1>5, Zenon DEF GetNext
<1>6. ASSUME NEW attrs, QueryInfo(attrs)
      PROVE  storage' = storage
  BY <1>6, Zenon DEF QueryInfo
<1>7. CASE UNCHANGED vars
  BY <1>7, Zenon DEF vars
<1> QED
  BY <1>2, <1>3, <1>4, <1>5, <1>6, <1>7 DEF StampedNext, Next

\* The inductive invariant holds in every state, with and without the
\* timestamped writes of the authenticated path.
THEOREM TableAlwaysOK == StampedSpec => []TableOK(storage)
<1>1. Init => TableOK(storage)
  BY EmptyTableOK, Zenon DEF Init
<1>2. TableOK(storage) /\ [StampedNext]_vars => TableOK(storage)'
  BY StepKeepsTable, Zenon
<1> QED
  BY <1>1, <1>2, PTL DEF StampedSpec

\* The ordinary path makes no call that the authenticated path does not make.
THEOREM PlainIsStamped == Spec => StampedSpec
<1>1. [Next]_vars => [StampedNext]_vars
  BY Zenon DEF StampedNext
<1> QED
  BY <1>1, PTL DEF Spec, StampedSpec

\* The table, its counters and its iterator keep their types.
THEOREM TypeCorrect == Spec => []TypeOK
<1>1. TableOK(storage) => TypeOK
  BY Zenon DEF TableOK, TypeOK
<1> QED
  BY <1>1, TableAlwaysOK, PlainIsStamped, PTL

\* total and used never drift from the slots, whatever calls succeed or fail,
\* for a table of any size: the proof needs that storage_remove clears exactly
\* one occupied slot and that a creation takes a cleared one.
THEOREM AccountingHolds == Spec => []Accounting
<1>1. TableOK(storage) => Accounting
  BY Zenon DEF TableOK, Accounting
<1> QED
  BY <1>1, TableAlwaysOK, PlainIsStamped, PTL

\* Occupied slots hold data within the limit and cleared slots hold nothing.
THEOREM SlotsWellFormedHolds == Spec => []SlotsWellFormed
<1>1. TableOK(storage) => SlotsWellFormed
  BY Zenon DEF TableOK, SlotsWellFormed
<1> QED
  BY <1>1, TableAlwaysOK, PlainIsStamped, PTL

\* The product that config.h uses as the budget is never the limit that a
\* write meets: with at most MaxVarCount slots charged, one more fits.
THEOREM BudgetNeverBindsHolds == Spec => []BudgetNeverBinds
<1>1. TableOK(storage) => BudgetNeverBinds
  <2> SUFFICES ASSUME TableOK(storage) PROVE BudgetNeverBinds
    BY Zenon
  <2> DEFINE c == Cardinality(Occupied(storage))
  <2>1. c \in Nat /\ c <= MaxVarCount
    BY SlotsFinite, Zenon DEF Occupied
  <2>2. SlotSize \in Nat /\ MaxVarCount \in Nat /\ MaxStorageSize \in Nat
    BY LimitsAssumption DEF SlotSize, MaxStorageSize
  <2>3. storage.used = c * SlotSize
    BY Zenon DEF TableOK, CountersAgree
  <2> HIDE DEF c
  <2>4. c * SlotSize + SlotSize <= (MaxVarCount + 1) * SlotSize
    BY <2>1, <2>2
  <2> QED
    BY <2>1, <2>2, <2>3, <2>4, LimitsAssumption DEF BudgetNeverBinds
<1> QED
  BY <1>1, TableAlwaysOK, PlainIsStamped, PTL

\* When callers leave terminators out of the size of a name, no key is ever
\* in two slots.
THEOREM UniqueKeysHold ==
    ASSUME ~TerminatedNames
    PROVE  Spec => []UniqueKeys
<1>1. Init => TableOK(storage) /\ UniqueKeys
  BY EmptyTableOK, Zenon DEF Init, UniqueKeys
<1>2. TableOK(storage) /\ UniqueKeys /\ [Next]_vars => UniqueKeys'
  BY StepKeepsTable, Zenon DEF UniqueKeys, StampedNext
<1> QED
  BY <1>1, <1>2, TableAlwaysOK, PlainIsStamped, PTL DEF Spec

-----------------------------------------------------------------------------
(***************************************************************************)
(* The slot array implements the dictionary of VariableStore, for tables   *)
(* of any size, any keys, any data and any buffers: every call on the      *)
(* array is that call on the dictionary, with the same answer.             *)
(***************************************************************************)
KeysOf(s) == {s.slots[i].key : i \in Occupied(s)}
Cell(data, attrs) == [data |-> data, attrs |-> attrs]
Entry(v) == Cell(v.data, v.attrs)
DictionaryOf(s) == [k \in KeysOf(s) |-> Entry(find_variable(s, Plain(k)))]

\* The refinement mapping is the dictionary of the table, before and after.
LEMMA DictionaryIs == Dictionary = DictionaryOf(storage)
BY Zenon DEF Dictionary, DictionaryOf, Stored, KeysOf, Entry, Cell

\* The same for the next state.
LEMMA DictionaryWillBe == Dictionary' = DictionaryOf(storage')
BY Zenon DEF Dictionary, DictionaryOf, Stored, KeysOf, Entry, Cell

-----------------------------------------------------------------------------
(***************************************************************************)
(* The dictionary of a table                                               *)
(***************************************************************************)
\* An occupied slot is an entry.
LEMMA EntryOfSlot ==
    ASSUME NEW s, Sound(s), NEW i \in Occupied(s)
    PROVE  /\ s.slots[i].key \in KeysOf(s) /\ s.slots[i].key \in Keys
           /\ DictionaryOf(s)[s.slots[i].key] = Entry(s.slots[i])
<1>1. i \in Slots /\ s.slots[i].key \in Keys
  BY Zenon DEF Sound, TableOK, Table, Variable, Occupied, variable_is_valid
<1>2. s.slots[i].key \in KeysOf(s)
  BY Zenon DEF KeysOf
<1>3. find_variable(s, Plain(s.slots[i].key)) = s.slots[i]
  BY <1>1, SlotOfKey, Zenon DEF find_variable, Sound
<1> QED
  BY <1>1, <1>2, <1>3, Zenon DEF DictionaryOf

\* A key is in the dictionary when a look-up finds it.
LEMMA EntryFound ==
    ASSUME NEW s, Sound(s), NEW k \in Keys
    PROVE  /\ k \in KeysOf(s) <=> storage_exists(s, Plain(k))
           /\ storage_exists(s, Plain(k)) =>
                  /\ Min(Matches(s, Plain(k))) \in Occupied(s)
                  /\ s.slots[Min(Matches(s, Plain(k)))].key = k
                  /\ DictionaryOf(s)[k] = Entry(find_variable(s, Plain(k)))
<1>1. Plain(k).key = k /\ ~Plain(k).nul
  BY Zenon DEF Plain
<1>2. ASSUME k \in KeysOf(s) PROVE storage_exists(s, Plain(k))
  <2>1. PICK i \in Occupied(s) : s.slots[i].key = k
    BY <1>2, Zenon DEF KeysOf
  <2> QED
    BY <1>1, <2>1, Zenon DEF storage_exists, Matches, Occupied
<1>3. ASSUME storage_exists(s, Plain(k))
      PROVE  /\ k \in KeysOf(s)
             /\ Min(Matches(s, Plain(k))) \in Occupied(s)
             /\ s.slots[Min(Matches(s, Plain(k)))].key = k
             /\ DictionaryOf(s)[k] = Entry(find_variable(s, Plain(k)))
  <2> DEFINE m == Min(Matches(s, Plain(k)))
  <2>1. m \in Slots /\ s.slots[m].key = k
    BY <1>1, <1>3, FirstMatch, Zenon DEF storage_exists
  <2>2. m \in Occupied(s)
    BY <2>1, KeysAssumption, Zenon DEF Occupied, variable_is_valid
  <2>3. k \in KeysOf(s)
    BY <2>1, <2>2, Zenon DEF KeysOf
  <2> QED
    BY <2>1, <2>2, <2>3, Zenon DEF DictionaryOf
<1> QED
  BY <1>2, <1>3, Zenon

\* There are as many entries as occupied slots.
LEMMA EntriesCounted ==
    ASSUME NEW s, Sound(s)
    PROVE  /\ Cardinality(KeysOf(s)) = Cardinality(Occupied(s))
           /\ Cardinality(KeysOf(s)) \in Nat
<1> DEFINE f == [i \in Occupied(s) |-> s.slots[i].key]
<1>1. IsFiniteSet(Occupied(s)) /\ Cardinality(Occupied(s)) \in Nat
  BY SlotsFinite, Zenon DEF Occupied
<1>2. f \in [Occupied(s) -> KeysOf(s)]
  BY Zenon DEF KeysOf
<1>3. \A i, j \in Occupied(s) : f[i] = f[j] => i = j
  BY Zenon DEF Sound, KeysDiffer
<1>4. \A k \in KeysOf(s) : \E i \in Occupied(s) : f[i] = k
  BY Zenon DEF KeysOf
<1>5. f \in Bijection(Occupied(s), KeysOf(s))
  <2>1. f \in Injection(Occupied(s), KeysOf(s))
    BY <1>2, <1>3, Zenon DEF Injection, IsInjective
  <2>2. f \in Surjection(Occupied(s), KeysOf(s))
    BY <1>2, <1>4, Zenon DEF Surjection
  <2> QED
    BY <2>1, <2>2, Zenon DEF Bijection
<1>6. ExistsBijection(Occupied(s), KeysOf(s))
  BY <1>5, Zenon DEF ExistsBijection
<1> QED
  BY <1>1, <1>6, FS_Bijection, Zenon

\* Clearing a slot takes its entry out.
LEMMA RemoveEntry ==
    ASSUME NEW s, Sound(s), NEW i \in Occupied(s), NEW t, Sound(t), NEW gained,
           t = PutSlot(s, i, FreeSlot, gained)
    PROVE  DictionaryOf(t)
               = [j \in KeysOf(s) \ {s.slots[i].key} |-> DictionaryOf(s)[j]]
<1> DEFINE k == s.slots[i].key
<1>1. i \in Slots /\ \A j \in Slots : t.slots[j] = IF j = i THEN FreeSlot ELSE s.slots[j]
  BY Zenon DEF Occupied, PutSlot, Sound, TableOK, Table
<1>2. Occupied(t) = Occupied(s) \ {i}
  BY <1>1, FreeSlotType, Zenon DEF Occupied, variable_is_valid
<1>3. \A j \in Occupied(t) : t.slots[j] = s.slots[j] /\ s.slots[j].key # k
  BY <1>1, <1>2, Zenon DEF Occupied, Sound, KeysDiffer
<1>4. KeysOf(t) = KeysOf(s) \ {k}
  BY <1>2, <1>3 DEF KeysOf
<1>5. ASSUME NEW q \in KeysOf(t) PROVE DictionaryOf(t)[q] = DictionaryOf(s)[q]
  <2>1. PICK j \in Occupied(t) : t.slots[j].key = q
    BY Zenon DEF KeysOf
  <2>2. j \in Occupied(s) /\ s.slots[j] = t.slots[j]
    BY <1>2, <1>3, <2>1, Zenon
  <2>3. DictionaryOf(t)[q] = Entry(t.slots[j])
    BY <2>1, EntryOfSlot, Zenon
  <2>4. DictionaryOf(s)[q] = Entry(s.slots[j])
    BY <2>1, <2>2, EntryOfSlot, Zenon
  <2> QED
    BY <2>2, <2>3, <2>4, Zenon
<1>6. DictionaryOf(t) = [q \in KeysOf(t) |-> DictionaryOf(t)[q]]
  BY Zenon DEF DictionaryOf
<1> QED
  BY <1>4, <1>5, <1>6, Zenon

\* The dictionary with the entry of a key set.
Extended(s, k, e) == [j \in KeysOf(s) \cup {k} |-> IF j = k THEN e ELSE DictionaryOf(s)[j]]

\* Filling a slot, or giving it other data, sets the entry of its key.
LEMMA PutEntry ==
    ASSUME NEW s, Sound(s), NEW t, Sound(t), NEW k \in Keys,
           NEW i \in Slots, t.slots[i].key = k,
           \A j \in Slots : j # i => t.slots[j] = s.slots[j],
           i \in Occupied(s) => s.slots[i].key = k,
           i \notin Occupied(s) => k \notin KeysOf(s)
    PROVE  DictionaryOf(t) = Extended(s, k, Entry(t.slots[i]))
<1>1. Occupied(t) = Occupied(s) \cup {i}
  BY KeysAssumption, Zenon DEF Occupied, variable_is_valid
<1>2. \A j \in Occupied(t) \ {i} : t.slots[j] = s.slots[j] /\ j \in Occupied(s)
  BY <1>1, Zenon DEF Occupied
<1>3. \A j \in Occupied(s) : j # i => t.slots[j] = s.slots[j]
  BY <1>1, <1>2, Zenon
<1>4. KeysOf(t) = KeysOf(s) \cup {k}
  <2>1. ASSUME NEW q \in KeysOf(t) PROVE q \in KeysOf(s) \cup {k}
    <3>1. PICK j \in Occupied(t) : t.slots[j].key = q
      BY Zenon DEF KeysOf
    <3> QED
      BY <1>2, <3>1, Zenon DEF KeysOf
  <2>2. ASSUME NEW q \in KeysOf(s) PROVE q \in KeysOf(t)
    <3>1. PICK j \in Occupied(s) : s.slots[j].key = q
      BY Zenon DEF KeysOf
    <3>2. j \in Occupied(t) /\ t.slots[j].key = q
      BY <1>1, <1>3, <3>1, Zenon
    <3> QED
      BY <3>2, Zenon DEF KeysOf
  <2>3. k \in KeysOf(t)
    BY <1>1, Zenon DEF KeysOf
  <2> QED
    BY <2>1, <2>2, <2>3, Zenon
<1>5. ASSUME NEW q \in KeysOf(t)
      PROVE  DictionaryOf(t)[q] = IF q = k THEN Entry(t.slots[i]) ELSE DictionaryOf(s)[q]
  <2>1. PICK j \in Occupied(t) : t.slots[j].key = q
    BY DEF KeysOf
  <2>2. DictionaryOf(t)[q] = Entry(t.slots[j])
    BY <2>1, EntryOfSlot, Zenon
  <2>3. CASE j = i
    BY <2>1, <2>2, <2>3, Zenon
  <2>4. CASE j # i
    <3>1. t.slots[j] = s.slots[j] /\ j \in Occupied(s)
      BY <1>2, <2>4, Zenon
    <3>2. DictionaryOf(s)[q] = Entry(s.slots[j])
      BY <2>1, <3>1, EntryOfSlot, Zenon
    <3>3. i \in Occupied(t)
      BY <1>1, Zenon
    <3>4. q # k
      BY <2>1, <2>4, <3>3, Zenon DEF Sound, KeysDiffer
    <3> QED
      BY <2>2, <3>1, <3>2, <3>4, Zenon
  <2> QED
    BY <2>3, <2>4, Zenon
<1>6. DictionaryOf(t) = [q \in KeysOf(t) |-> DictionaryOf(t)[q]]
  BY Zenon DEF DictionaryOf
<1> QED
  BY <1>4, <1>5, <1>6 DEF Extended

\* What PutSlot leaves in the slots.
LEMMA PutSlotSlots ==
    ASSUME NEW s, Sound(s), NEW i \in Slots, NEW v, NEW gained
    PROVE  /\ PutSlot(s, i, v, gained).slots[i] = v
           /\ \A j \in Slots : j # i => PutSlot(s, i, v, gained).slots[j] = s.slots[j]
BY Zenon DEF PutSlot, Sound, TableOK, Table

-----------------------------------------------------------------------------
(***************************************************************************)
(* The updates on the dictionary                                           *)
(***************************************************************************)
\* storage_remove takes the entry out, or reports that there is none.
LEMMA RemoveEffect ==
    ASSUME NEW s, Sound(s), NEW k \in Keys
    PROVE  LET r == storage_remove(s, Plain(k))
           IN  IF k \in KeysOf(s)
               THEN /\ r.st = "SUCCESS"
                    /\ DictionaryOf(r.s) = [j \in KeysOf(s) \ {k} |-> DictionaryOf(s)[j]]
               ELSE r = Result("NOT_FOUND", s)
<1> DEFINE n == Plain(k)
           m == Min(Matches(s, n))
           t == PutSlot(s, m, FreeSlot, -1)
<1>1. n \in NameArg /\ n.key = k
  BY Zenon DEF Plain, NameArg
<1>2. CASE k \in KeysOf(s)
  <2>1. Matches(s, n) # {} /\ m \in Occupied(s) /\ s.slots[m].key = k
    BY <1>2, EntryFound, Zenon DEF storage_exists
  <2>2. storage_remove(s, n) = Result("SUCCESS", t)
    BY <2>1, Zenon DEF storage_remove
  <2>3. Sound(t)
    BY <1>1, <2>2, RemoveOK DEF Sound, Result
  <2>4. t = PutSlot(s, m, FreeSlot, -1)
    BY Zenon
  <2> HIDE DEF t, m
  <2>5. DictionaryOf(t) = [j \in KeysOf(s) \ {k} |-> DictionaryOf(s)[j]]
    BY <2>1, <2>3, <2>4, RemoveEntry, Zenon
  <2> QED
    BY <1>2, <2>2, <2>5 DEF Result
<1>3. CASE k \notin KeysOf(s)
  BY <1>3, EntryFound, Zenon DEF storage_exists, storage_remove
<1> QED
  BY <1>2, <1>3, Zenon

\* Replacing or extending the data of a variable does that to its entry.
LEMMA ReplaceEffect ==
    ASSUME NEW s, Sound(s), NEW k \in KeysOf(s), k \in Keys,
           NEW data \in Seq(Atoms), NEW attrs, NEW append \in BOOLEAN
    PROVE  LET r == ReplaceVariable(s, Min(Matches(s, Plain(k))), data, attrs, append)
               old == DictionaryOf(s)[k]
               new == IF append THEN old.data \o data ELSE data
           IN  IF attrs # old.attrs THEN r = Result("INVALID_PARAMETER", s)
               ELSE IF data = <<>> \/ Len(new) > MaxDataSize
               THEN r = Result("DEVICE_ERROR", s)
               ELSE /\ r.st = "SUCCESS"
                    /\ DictionaryOf(r.s) = Extended(s, k, Cell(new, attrs))
<1> DEFINE i == Min(Matches(s, Plain(k)))
           v == s.slots[i]
           old == DictionaryOf(s)[k]
           new == IF append THEN old.data \o data ELSE data
           w == [v EXCEPT !.data = new]
           r == ReplaceVariable(s, i, data, attrs, append)
<1>1. i \in Occupied(s) /\ v.key = k /\ old = Entry(v)
  BY EntryFound, Zenon DEF find_variable
<1>2. i \in Slots /\ v \in Variable
  BY <1>1, Zenon DEF Occupied, Sound, TableOK, Table
<1>3. old.data = v.data /\ old.attrs = v.attrs
  BY <1>1 DEF Entry, Cell
<1>4. v.data \in Seq(Atoms) /\ new \in Seq(Atoms)
  BY <1>2, <1>3 DEF Variable
<1>5. w \in Variable /\ w.data = new /\ w.key = k /\ w.attrs = v.attrs
  BY <1>1, <1>2, <1>4, WithData, ZenonT(30)
<1>6. CASE attrs = old.attrs /\ data # <<>> /\ ~(Len(new) > MaxDataSize)
  <2> DEFINE t == PutSlot(s, i, w, 0)
  <2>1. r = Result("SUCCESS", t) /\ t = PutSlot(s, i, w, 0)
    BY <1>3, <1>6, SMTT(30) DEF ReplaceVariable
  <2>2. Sound(t)
    BY <1>1, <2>1, ReplaceOK, SMTT(30) DEF Sound, Result
  <2>3. t.slots[i] = w /\ \A j \in Slots : j # i => t.slots[j] = s.slots[j]
    BY <1>2, PutSlotSlots
  <2>4. Entry(w) = Cell(new, attrs)
    BY <1>3, <1>5, <1>6, SMTT(30) DEF Entry
  <2> HIDE DEF t, w, r, new, old, i
  <2>5. DictionaryOf(t) = Extended(s, k, Entry(t.slots[i]))
    BY <1>1, <1>2, <1>5, <2>2, <2>3, PutEntry
  <2>6. r.st = "SUCCESS"
    BY <2>1, Zenon DEF Result
  <2>7. r.s = t
    BY <2>1, Zenon DEF Result
  <2> QED
    BY <1>6, <2>3, <2>4, <2>5, <2>6, <2>7, SMTT(30) DEF r, new, old, i
<1>7. CASE attrs # old.attrs
  BY <1>3, <1>7, SMTT(30) DEF ReplaceVariable
<1>8. CASE attrs = old.attrs /\ (data = <<>> \/ Len(new) > MaxDataSize)
  BY <1>3, <1>8, ZenonT(30) DEF ReplaceVariable
<1> QED
  BY <1>6, <1>7, <1>8, SMTT(30)

\* Creating a variable adds an entry, and there is no cleared slot exactly when
\* the dictionary is at its capacity.
LEMMA CreateEffect ==
    ASSUME NEW s, Sound(s), NEW k \in Keys, k \notin KeysOf(s),
           NEW data \in Seq(Atoms), Len(data) <= MaxDataSize,
           NEW attrs \in SUBSET Attrs, "AP" \notin attrs
    PROVE  LET r == CreateVariable(s, Plain(k), data, attrs)
           IN  IF data = <<>> \/ Cardinality(KeysOf(s)) >= MaxVarCount
               THEN r = Result("DEVICE_ERROR", s)
               ELSE /\ r.st = "SUCCESS"
                    /\ DictionaryOf(r.s) = Extended(s, k, Cell(data, attrs))
<1> DEFINE new == [FreeSlot EXCEPT !.key = k, !.data = data, !.attrs = attrs]
           i == Min(FreeSlots(s))
           r == CreateVariable(s, Plain(k), data, attrs)
<1>1. Plain(k) \in NameArg /\ Plain(k).key = k /\ ~Plain(k).nul
  BY Zenon DEF Plain, NameArg
<1>2. new.key = k /\ Entry(new) = Cell(data, attrs)
  BY Zenon DEF FreeSlot, Entry
<1>3. FreeSlots(s) = {} <=> Cardinality(KeysOf(s)) >= MaxVarCount
  <2>1. Occupied(s) \subseteq Slots
    BY Zenon DEF Occupied
  <2>2. IsFiniteSet(Slots) /\ Cardinality(Slots) = MaxVarCount
    <3>1. 0 \in Int /\ MaxVarCount - 1 \in Int
      BY LimitsAssumption
    <3>2. /\ IsFiniteSet(0 .. MaxVarCount - 1)
          /\ Cardinality(0 .. MaxVarCount - 1)
                 = IF 0 > MaxVarCount - 1 THEN 0 ELSE MaxVarCount - 1 - 0 + 1
      BY <3>1, FS_Interval, ZenonT(30)
    <3> QED
      BY <3>2, LimitsAssumption DEF Slots
  <2>3. /\ Cardinality(Occupied(s)) <= MaxVarCount
        /\ Cardinality(Occupied(s)) = MaxVarCount => Occupied(s) = Slots
    BY <2>1, <2>2, FS_Subset
  <2>4. FreeSlots(s) = {} <=> Occupied(s) = Slots
    BY <2>1, ZenonT(30) DEF FreeSlots
  <2>5. Cardinality(KeysOf(s)) = Cardinality(Occupied(s)) /\ Cardinality(KeysOf(s)) \in Nat
    BY EntriesCounted, Zenon
  <2> QED
    BY <2>2, <2>3, <2>4, <2>5, LimitsAssumption
<1>4. CASE data # <<>> /\ FreeSlots(s) # {}
  <2>1. FreeSlots(s) \in SUBSET Nat
    BY LimitsAssumption DEF FreeSlots, Slots
  <2>2. i \in Slots /\ i \notin Occupied(s)
    BY <1>4, <2>1, MinIsSmallest, ZenonT(30) DEF FreeSlots
  <2> DEFINE t == PutSlot(s, i, new, 1)
  <2>3. r = Result("SUCCESS", t) /\ t = PutSlot(s, i, new, 1)
    BY <1>1, <1>4, Zenon DEF CreateVariable
  <2>4. Matches(s, Plain(k)) = {}
    BY EntryFound, Zenon DEF storage_exists
  <2>5. Sound(t)
    BY <1>1, <2>3, <2>4, CreateOK DEF Sound, Result
  <2>6. t.slots[i] = new /\ \A j \in Slots : j # i => t.slots[j] = s.slots[j]
    BY <2>2, PutSlotSlots
  <2> HIDE DEF t, r, new, i
  <2>8. DictionaryOf(t) = Extended(s, k, Entry(t.slots[i]))
    BY <1>2, <2>2, <2>5, <2>6, PutEntry
  <2>7. r.st = "SUCCESS" /\ r.s = t
    BY <2>3, Zenon DEF Result
  <2> QED
    BY <1>2, <1>3, <1>4, <2>6, <2>7, <2>8 DEF r
<1>5. CASE data = <<>> \/ FreeSlots(s) = {}
  BY <1>3, <1>5, Zenon DEF CreateVariable
<1> QED
  BY <1>4, <1>5, Zenon

-----------------------------------------------------------------------------
(***************************************************************************)
(* The calls                                                               *)
(***************************************************************************)
\* Without terminators a name argument is its key.
LEMMA NamesPlain ==
    ASSUME ~TerminatedNames, NEW n \in Names
    PROVE  n.key \in Keys /\ n = Plain(n.key)
BY Zenon DEF Names, NameArg, Plain

\* The abstract dictionary has the keys of the occupied slots.
LEMMA StoreDomain == DOMAIN Dictionary = KeysOf(storage)
BY DictionaryIs, Zenon DEF DictionaryOf

\* Both modules count with the operator of FiniteSets.
LEMMA SameCount == ASSUME NEW S PROVE VS!Cardinality(S) = Cardinality(S)
BY Zenon DEF VS!Cardinality, Cardinality

\* storage_set is Set: refused for its sizes, a deletion, a replacement or a
\* creation.
LEMMA SetIsSet ==
    ASSUME Sound(storage), NEW k \in Keys, NEW data \in Seq(Atoms),
           NEW attrs \in SUBSET Attrs, Set(Plain(k), data, attrs)
    PROVE  VS!Set(k, data, attrs)
<1> DEFINE s == storage
           D == DictionaryOf(storage)
           append == "AP" \in attrs
           r == storage_set(storage, Plain(k), data, attrs)
<1>1. /\ storage' = r.s /\ resp' = VS!Answer(r.st)
      /\ Dictionary = D /\ Dictionary' = DictionaryOf(r.s) /\ DOMAIN Dictionary = KeysOf(s)
  BY DictionaryIs, DictionaryWillBe, StoreDomain, Zenon DEF Set, Answer, VS!Answer
<1>2. \A st : r = Result(st, s) => VS!Refuse(st)
  BY <1>1 DEF Result, VS!Refuse
<1>3. \A new : r.st = "SUCCESS" /\ DictionaryOf(r.s) = new => VS!Accept(new)
  BY <1>1, Zenon DEF VS!Accept
<1>4. \A e : VS!With(k, e) = Extended(s, k, e)
  BY <1>1, Zenon DEF VS!With, Extended
<1>5. VS!Without(k) = [j \in KeysOf(s) \ {k} |-> D[j]]
  BY <1>1, Zenon DEF VS!Without
<1>6. TooLarge(s, Plain(k), data) <=>
          (k \in {j \in Keys : NameSize[j] > MaxNameSize} \/ Len(data) > MaxDataSize)
  BY OnlySizesBind, Zenon DEF Sound
<1>7. append \in BOOLEAN /\ attrs \ {"AP"} \in SUBSET Attrs /\ "AP" \notin attrs \ {"AP"}
  OBVIOUS
<1>8. CASE TooLarge(s, Plain(k), data)
  <2>1. r = Result("OUT_OF_RESOURCES", s)
    BY <1>8, Zenon DEF storage_set
  <2> HIDE DEF r, s, D
  <2> QED
    BY <1>2, <1>6, <1>8, <2>1 DEF VS!Set, s
<1>9. CASE ~TooLarge(s, Plain(k), data) /\ ((data = <<>> /\ ~append) \/ attrs = {})
  <2>1. r = storage_remove(s, Plain(k))
    BY <1>9, Zenon DEF storage_set
  <2>2. VS!Delete(k)
    <3>1. CASE k \in KeysOf(s)
      <4>1. r.st = "SUCCESS" /\ DictionaryOf(r.s) = VS!Without(k)
        BY <1>5, <2>1, <3>1, RemoveEffect, ZenonT(30)
      <4> QED
        BY <1>1, <1>3, <3>1, <4>1 DEF VS!Delete
    <3>2. CASE k \notin KeysOf(s)
      <4>1. r = Result("NOT_FOUND", s)
        BY <2>1, <3>2, RemoveEffect, ZenonT(30)
      <4> QED
        BY <1>1, <1>2, <3>2, <4>1 DEF VS!Delete
    <3> QED
      BY <3>1, <3>2, Zenon
  <2> QED
    BY <1>6, <1>9, <2>2 DEF VS!Set
<1>10. CASE /\ ~TooLarge(s, Plain(k), data)
            /\ ~((data = <<>> /\ ~append) \/ attrs = {})
            /\ k \in KeysOf(s)
  <2> DEFINE a == attrs \ {"AP"}
             old == D[k]
             new == IF append THEN old.data \o data ELSE data
  <2>1. r = ReplaceVariable(s, Min(Matches(s, Plain(k))), data, a, append)
    BY <1>10, EntryFound, ZenonT(30) DEF storage_set
  <2>2. IF a # old.attrs THEN r = Result("INVALID_PARAMETER", s)
        ELSE IF data = <<>> \/ Len(new) > MaxDataSize THEN r = Result("DEVICE_ERROR", s)
        ELSE /\ r.st = "SUCCESS"
             /\ DictionaryOf(r.s) = Extended(s, k, Cell(new, a))
    <3> HIDE DEF a, append
    <3> QED
      BY <1>7, <1>10, <2>1, ReplaceEffect
  <2>3. VS!Replace(k, data, a, append)
    <3> HIDE DEF r, s, a
    <3> QED
      BY <1>1, <1>2, <1>3, <1>4, <2>2, ZenonT(30) DEF VS!Replace, Cell
  <2> QED
    BY <1>1, <1>6, <1>10, <2>3, SMTT(30) DEF VS!Set
<1>11. CASE /\ ~TooLarge(s, Plain(k), data)
            /\ ~((data = <<>> /\ ~append) \/ attrs = {})
            /\ k \notin KeysOf(s)
  <2> DEFINE a == attrs \ {"AP"}
  <2>1. r = CreateVariable(s, Plain(k), data, a)
    BY <1>11, EntryFound, ZenonT(30) DEF storage_set
  <2>2. Len(data) <= MaxDataSize
    BY <1>6, <1>11, LimitsAssumption
  <2>3. IF data = <<>> \/ Cardinality(KeysOf(s)) >= MaxVarCount
        THEN r = Result("DEVICE_ERROR", s)
        ELSE /\ r.st = "SUCCESS"
             /\ DictionaryOf(r.s) = Extended(s, k, Cell(data, a))
    BY <1>7, <1>11, <2>1, <2>2, CreateEffect
  <2>4. VS!Create(k, data, a)
    <3> HIDE DEF r, s, a
    <3> QED
      BY <1>1, <1>2, <1>3, <1>4, <2>3, SameCount, ZenonT(30) DEF VS!Create, Cell
  <2> QED
    BY <1>1, <1>6, <1>11, <2>4, ZenonT(30) DEF VS!Set
<1> QED
  BY <1>8, <1>9, <1>10, <1>11

\* A read finds the entry, or none that the guest may see.
LEMMA GetIsGet ==
    ASSUME Sound(storage), NEW k \in Keys, NEW bufsz, NEW rt \in BOOLEAN,
           Get(Plain(k), bufsz, rt)
    PROVE  VS!Get(k, bufsz, rt)
<1> DEFINE v == find_variable(storage, Plain(k))
<1>1. Dictionary = DictionaryOf(storage) /\ DOMAIN Dictionary = KeysOf(storage)
  BY DictionaryIs, StoreDomain, Zenon
<1>2. Dictionary' = Dictionary
  BY DictionaryIs, DictionaryWillBe, Zenon DEF Get
<1>3. k \in KeysOf(storage) <=> storage_exists(storage, Plain(k))
  BY EntryFound, Zenon
<1>4. CASE k \notin KeysOf(storage)
  BY <1>1, <1>2, <1>3, <1>4 DEF Get, VS!Get, VS!Visible, Answer, VS!Answer
<1>5. CASE k \in KeysOf(storage)
  <2>1. Dictionary[k].data = v.data /\ Dictionary[k].attrs = v.attrs
    <3>1. Dictionary[k] = Entry(v)
      BY <1>1, <1>3, <1>5, EntryFound
    <3> QED
      BY <3>1 DEF Entry, Cell
  <2>2. k \in VS!Visible(rt) <=> ~rt_deny_access(rt, v.attrs)
    BY <1>1, <1>5, <2>1 DEF VS!Visible, rt_deny_access
  <2> HIDE DEF v
  <2> QED
    BY <1>2, <1>3, <1>5, <2>1, <2>2, ZenonT(30) DEF Get, VS!Get, VS!Fits, Answer, VS!Answer, v
<1> QED
  BY <1>4, <1>5, Zenon

\* An enumeration step answers another visible entry, or none; a first step
\* answers none only when nothing is visible.
LEMMA GetNextIsGetNext ==
    ASSUME Sound(storage), NEW k \in Keys \cup {NoKey}, NEW bufsz, NEW rt \in BOOLEAN,
           GetNext(Plain(k), bufsz, rt)
    PROVE  VS!GetNext(k, bufsz, rt)
<1> DEFINE next == storage_next_variable(storage, Plain(k), rt)
<1>1. Dictionary = DictionaryOf(storage) /\ DOMAIN Dictionary = KeysOf(storage)
  BY DictionaryIs, StoreDomain, Zenon
<1>2. Dictionary' = Dictionary
  BY DictionaryIs, DictionaryWillBe, Zenon DEF GetNext
<1>3. \A i \in Occupied(storage) :
          i \in Visible(storage, rt) <=> storage.slots[i].key \in VS!Visible(rt)
  <2> TAKE i \in Occupied(storage)
  <2>1. /\ storage.slots[i].key \in KeysOf(storage)
        /\ DictionaryOf(storage)[storage.slots[i].key] = Entry(storage.slots[i])
    BY EntryOfSlot, Zenon
  <2>2. Entry(storage.slots[i]).attrs = storage.slots[i].attrs
    BY Zenon DEF Entry, Cell
  <2> QED
    BY <1>1, <2>1, <2>2, SMTT(30) DEF Visible, VS!Visible, rt_deny_access
<1>4. Visible(storage, rt) \subseteq Occupied(storage)
  BY Zenon DEF Visible
<1>5. CASE k # NoKey /\ ~storage_exists(storage, Plain(k))
  <2>1. next = NoKey
    BY <1>5, Zenon DEF storage_next_variable, NextCandidates, Plain
  <2> QED
    BY <1>2, <1>5, <2>1 DEF GetNext, VS!GetNext, Answer, VS!Answer
<1>6. CASE k # NoKey => storage_exists(storage, Plain(k))
  <2>1. CASE next = NoKey
    <3>1. k # NoKey \/ VS!Visible(rt) = {}
      <4> SUFFICES ASSUME k = NoKey, NEW q \in VS!Visible(rt) PROVE FALSE
        BY Zenon
      <4>1. PICK i \in Occupied(storage) : storage.slots[i].key = q
        BY <1>1, Zenon DEF VS!Visible, KeysOf
      <4>2. i \in Visible(storage, rt)
        BY <1>3, <4>1, Zenon
      <4>3. i <= -1
        BY <1>6, <2>1, <4>2, NextAnswer, KeysAssumption, SMTT(30) DEF SlotBefore, Sound
      <4>4. i \in Nat
        BY LimitsAssumption, SMTT(30) DEF Occupied, Slots
      <4> QED
        BY <4>3, <4>4
    <3> QED
      BY <1>2, <2>1, <3>1 DEF GetNext, VS!GetNext, Answer, VS!Answer
  <2>2. CASE next # NoKey
    <3> DEFINE j == SlotBefore(storage, next)
    <3>1. /\ next \in Keys /\ j \in Visible(storage, rt) /\ storage.slots[j].key = next
          /\ j > SlotBefore(storage, k)
      BY <1>6, <2>2, NextAnswer, ZenonT(30) DEF Sound
    <3>2. next \in VS!Visible(rt)
      BY <1>3, <1>4, <3>1, ZenonT(30)
    <3>3. SlotBefore(storage, k) \in Int
      BY <1>6, Candidates DEF Sound
    <3>4. next # k
      BY <3>1, <3>3, SMTT(30)
    <3> HIDE DEF next
    <3> QED
      BY <1>2, <2>2, <3>2, <3>4, ZenonT(30) DEF GetNext, VS!GetNext, VS!Fits, Answer, VS!Answer, next
  <2> QED
    BY <2>1, <2>2, Zenon
<1> QED
  BY <1>5, <1>6

\* The remaining storage is what the entries leave.
LEMMA QueryIsQuery ==
    ASSUME Sound(storage), NEW attrs, QueryInfo(attrs)
    PROVE  VS!QueryInfo(attrs)
<1>1. DOMAIN Dictionary = KeysOf(storage)
  BY StoreDomain, Zenon
<1>2. Dictionary' = Dictionary
  BY DictionaryIs, DictionaryWillBe, Zenon DEF QueryInfo
<1>3. storage.used = SlotSize * Cardinality(KeysOf(storage))
  <2> DEFINE c == Cardinality(KeysOf(storage))
  <2>1. c \in Nat /\ storage.used = c * SlotSize
    BY EntriesCounted, SMTT(30) DEF Sound, TableOK, CountersAgree
  <2>2. SlotSize \in Nat
    BY LimitsAssumption DEF SlotSize
  <2> HIDE DEF c
  <2> QED
    BY <2>1, <2>2 DEF c
<1> DEFINE left == MaxStorageSize - storage.used
<1>4. left = MaxStorageSize - SlotSize * Cardinality(DOMAIN Dictionary)
  BY <1>1, <1>3, Zenon
<1>5. IF attrs = {} \/ ("RT" \in attrs /\ "BS" \notin attrs)
      THEN resp' = VS!Answer("INVALID_PARAMETER")
      ELSE resp' = [VS!Answer("SUCCESS") EXCEPT !.size = left]
  BY ZenonT(30) DEF QueryInfo, Answer, VS!Answer
<1> HIDE DEF left
<1> QED
  BY <1>2, <1>4, <1>5, SameCount DEF VS!QueryInfo

-----------------------------------------------------------------------------
(***************************************************************************)
(* The refinement.  It needs Sound as an invariant: with a key in two      *)
(* slots a deletion would uncover the other one, and with counters that    *)
(* drift QueryVariableInfo and the first name of an enumeration would      *)
(* differ from what the dictionary answers.                                *)
(***************************************************************************)
\* Every table between two calls is sound.
LEMMA AlwaysSound ==
    ASSUME ~TerminatedNames
    PROVE  Spec => []Sound(storage)
<1>1. TableOK(storage) /\ UniqueKeys => Sound(storage)
  BY Zenon DEF Sound, UniqueKeys
<1> QED
  BY <1>1, TableAlwaysOK, PlainIsStamped, UniqueKeysHold, PTL

\* The cleared table is the empty dictionary.
LEMMA InitIsInit == Init => VS!Init
<1> SUFFICES ASSUME Init PROVE VS!Init
  BY Zenon
<1>1. Occupied(storage) = {}
  BY Zenon DEF Init, EmptyTable, Occupied, variable_is_valid, FreeSlot
<1>2. KeysOf(storage) = {}
  BY <1>1, Zenon DEF KeysOf
<1>3. Dictionary = [k \in {} |-> {}]
  BY <1>2, DictionaryIs, Zenon DEF DictionaryOf
<1> QED
  BY <1>3, Zenon DEF Init, VS!Init, Answer, VS!Answer

\* Every call on a sound table is that call on the dictionary.
LEMMA CallIsCall ==
    ASSUME ~TerminatedNames, Sound(storage)
    PROVE  SameCall
<1> SUFFICES ASSUME NEW n \in Names
             PROVE  /\ \A data \in DataIn, attrs \in AttrsIn :
                           Set(n, data, attrs) => VS!Set(n.key, data, attrs)
                    /\ \A bufsz \in BufferSizes, rt \in BOOLEAN :
                           /\ Get(n, bufsz, rt) => VS!Get(n.key, bufsz, rt)
                           /\ GetNext(n, bufsz, rt) => VS!GetNext(n.key, bufsz, rt)
                           /\ GetNext(Plain(NoKey), bufsz, rt) => VS!GetNext(NoKey, bufsz, rt)
                    /\ \A attrs \in AttrsIn : QueryInfo(attrs) => VS!QueryInfo(attrs)
  BY Zenon DEF SameCall
<1>1. n.key \in Keys /\ n = Plain(n.key)
  BY NamesPlain, Zenon
<1>2. ASSUME NEW data \in DataIn, NEW attrs \in AttrsIn, Set(n, data, attrs)
      PROVE  VS!Set(n.key, data, attrs)
  <2>1. data \in Seq(Atoms) /\ attrs \in SUBSET Attrs
    BY InputsAssumption
  <2>2. Set(Plain(n.key), data, attrs)
    BY <1>1, <1>2
  <2> QED
    BY <1>1, <2>1, <2>2, SetIsSet
<1>3. ASSUME NEW bufsz \in BufferSizes, NEW rt \in BOOLEAN
      PROVE  /\ Get(n, bufsz, rt) => VS!Get(n.key, bufsz, rt)
             /\ GetNext(n, bufsz, rt) => VS!GetNext(n.key, bufsz, rt)
             /\ GetNext(Plain(NoKey), bufsz, rt) => VS!GetNext(NoKey, bufsz, rt)
  <2>1. Get(n, bufsz, rt) => Get(Plain(n.key), bufsz, rt)
    BY <1>1, Zenon
  <2>2. GetNext(n, bufsz, rt) => GetNext(Plain(n.key), bufsz, rt)
    BY <1>1, Zenon
  <2> QED
    BY <1>1, <2>1, <2>2, GetIsGet, GetNextIsGetNext, SMTT(30)
<1> QED
  BY <1>2, <1>3, QueryIsQuery

\* The slot array implements the dictionary for every size of the table, every
\* set of keys and data and every buffer: each call of storage.c answers what
\* the dictionary answers and leaves what it leaves, when callers do not count
\* a terminator into the size of a name.
THEOREM TableImplementsStore ==
    ASSUME ~TerminatedNames
    PROVE  Spec => ImplementsStore
<1>1. Init => VS!Init
  BY InitIsInit, Zenon
<1>2. Sound(storage) => [SameCall]_vars
  BY CallIsCall, Zenon
<1> QED
  BY <1>1, <1>2, AlwaysSound, PTL DEF Spec, ImplementsStore
=============================================================================
