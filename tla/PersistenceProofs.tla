-------------------------- MODULE PersistenceProofs --------------------------
(***************************************************************************)
(* Proofs about Persistence and Serializer, for tables of any size, any    *)
(* writes, any failures of XAPI and any disk: a list is read back as it    *)
(* was written, the lists that are sent and saved are complete, what was   *)
(* kept can be stored again, a resumed guest finds the variables it was    *)
(* suspended with, and what the guest was told is stored stays in XAPI.    *)
(***************************************************************************)
EXTENDS Persistence, TableProofs

-----------------------------------------------------------------------------
(***************************************************************************)
(* The serializer                                                          *)
(***************************************************************************)
\* A list of variables.
Sane(l) == l \in Seq(Variable) /\ \A j \in DOMAIN l : Listed(l[j])

\* What can be decoded are variables.
Readable(b) == Sane(from_bytes_to_vars(b).list)

\* Where the fields of the j-th variable are.
LEMMA FieldPlaces ==
    ASSUME NEW j \in Nat \ {0}
    PROVE  /\ ((3 * j - 1) + 1) \div 3 = j /\ ((3 * j - 1) - 2) % 3 = 0
           /\ (3 * j + 1) \div 3 = j /\ (3 * j - 2) % 3 = 1
           /\ ((3 * j + 1) + 1) \div 3 = j /\ ((3 * j + 1) - 2) % 3 = 2
OBVIOUS

\* The fields of a list.
LEMMA FieldsOf ==
    ASSUME NEW l, Sane(l)
    PROVE  LET b == serialize_variable_list(l)
           IN  /\ Len(b) = 1 + 3 * Len(l) /\ b # <<>> /\ b[1] = Len(l)
               /\ DOMAIN b = 1 .. 1 + 3 * Len(l)
               /\ \A j \in 1 .. Len(l) :
                      /\ b[3 * j - 1] = l[j].key
                      /\ b[3 * j] = l[j].data
                      /\ b[3 * j + 1] = [attrs |-> l[j].attrs, timestamp |-> l[j].timestamp,
                                         cert |-> l[j].cert]
<1> DEFINE n == Len(l)
           b == serialize_variable_list(l)
<1>1. n \in Nat
  BY DEF Sane
<1>2. b = [f \in 1 .. 1 + 3 * n |->
              IF f = 1 THEN n ELSE serialize_var(l[(f + 1) \div 3])[1 + ((f - 2) % 3)]]
  BY DEF serialize_variable_list
<1> HIDE DEF b
<1>3. DOMAIN b = 1 .. 1 + 3 * n /\ b[1] = n
  BY <1>1, <1>2
<1>4. Len(b) = 1 + 3 * n
  <2>1. 1 + 3 * n \in Nat
    BY <1>1
  <2> DEFINE R == {b[f] : f \in DOMAIN b}
  <2>2. b \in [1 .. 1 + 3 * n -> R]
    BY <1>2, <1>3, Zenon
  <2>3. b \in Seq(R)
    BY <2>1, <2>2
  <2> QED
    BY <1>3, <2>1, <2>3
<1>5. ASSUME NEW j \in 1 .. n
      PROVE  /\ b[3 * j - 1] = l[j].key
             /\ b[3 * j] = l[j].data
             /\ b[3 * j + 1] = [attrs |-> l[j].attrs, timestamp |-> l[j].timestamp,
                                cert |-> l[j].cert]
  <2>1. j \in Nat \ {0} /\ 3 * j - 1 \in 2 .. 1 + 3 * n /\ 3 * j \in 2 .. 1 + 3 * n
        /\ 3 * j + 1 \in 2 .. 1 + 3 * n
    BY <1>1
  <2>2. \A f \in 2 .. 1 + 3 * n : b[f] = serialize_var(l[(f + 1) \div 3])[1 + ((f - 2) % 3)]
    BY <1>1, <1>2
  <2>3. b[3 * j - 1] = serialize_var(l[j])[1]
    BY <2>1, <2>2, FieldPlaces
  <2>4. b[3 * j] = serialize_var(l[j])[2]
    BY <2>1, <2>2, FieldPlaces
  <2>5. b[3 * j + 1] = serialize_var(l[j])[3]
    <3> DEFINE f == 3 * j + 1
    <3>1. f \in 2 .. 1 + 3 * n /\ (f + 1) \div 3 = j /\ 1 + ((f - 2) % 3) = 3
      BY <2>1, FieldPlaces
    <3> HIDE DEF f
    <3>2. b[f] = serialize_var(l[j])[3]
      BY <2>2, <3>1, Zenon
    <3> QED
      BY <3>2, Zenon DEF f
  <2> QED
    BY <2>3, <2>4, <2>5, Zenon DEF serialize_var
<1>6. b # <<>>
  BY <1>1, <1>3
<1> QED
  BY <1>3, <1>4, <1>5, <1>6, Zenon DEF b

\* What serialize_variable_list writes, from_bytes_to_vars reads back.
THEOREM RoundTrip ==
    ASSUME NEW l, Sane(l), Len(l) <= MaxVarCount
    PROVE  from_bytes_to_vars(serialize_variable_list(l)) = Decoded(TRUE, l)
<1> DEFINE b == serialize_variable_list(l)
           n == Len(l)
<1>1. /\ Len(b) = 1 + 3 * n /\ b # <<>> /\ b[1] = n
      /\ \A j \in 1 .. n :
             /\ b[3 * j - 1] = l[j].key
             /\ b[3 * j] = l[j].data
             /\ b[3 * j + 1] = [attrs |-> l[j].attrs, timestamp |-> l[j].timestamp,
                                cert |-> l[j].cert]
  BY FieldsOf, Zenon
<1>2. n \in Nat /\ \A j \in 1 .. n : Listed(l[j])
  BY DEF Sane
<1> HIDE DEF b
<1>3. \A j \in 1 .. n : unserialize_var_cached(b, j) = l[j]
  <2> TAKE j \in 1 .. n
  <2>1. l[j] \in Variable
    BY <1>2, Zenon DEF Listed
  <2>2. unserialize_var_cached(b, j)
            = [key |-> l[j].key, data |-> l[j].data, attrs |-> l[j].attrs,
               timestamp |-> l[j].timestamp, cert |-> l[j].cert]
    <3> DEFINE rest == [attrs |-> l[j].attrs, timestamp |-> l[j].timestamp,
                        cert |-> l[j].cert]
    <3>1. b[3 * j - 1] = l[j].key /\ b[3 * j] = l[j].data /\ b[3 * j + 1] = rest
      BY <1>1, Zenon
    <3>2. rest.attrs = l[j].attrs /\ rest.timestamp = l[j].timestamp /\ rest.cert = l[j].cert
      BY Zenon
    <3> HIDE DEF rest
    <3> QED
      BY <3>1, <3>2, Zenon DEF unserialize_var_cached
  <2> QED
    BY <2>1, <2>2, Zenon DEF Variable
<1>4. l = [j \in 1 .. n |-> l[j]]
  BY DEF Sane
<1>5. [j \in 1 .. b[1] |-> unserialize_var_cached(b, j)] = l
  BY <1>1, <1>3, <1>4, Zenon
<1>6. \A j \in 1 .. b[1] : b[3 * j - 1] # NoKey /\ b[3 * j] # <<>>
  <2> TAKE j \in 1 .. b[1]
  <2>1. j \in 1 .. n /\ Listed(l[j])
    BY <1>1, <1>2, Zenon
  <2>2. b[3 * j - 1] = l[j].key /\ b[3 * j] = l[j].data
    BY <1>1, <2>1, ZenonT(30)
  <2> QED
    BY <2>1, <2>2, KeysAssumption, Zenon DEF Listed
<1>7. ~(b[1] > MaxVarCount)
  BY <1>1, <1>2, LimitsAssumption
<1>8. from_bytes_to_vars(b) = Decoded(TRUE, [j \in 1 .. b[1] |-> unserialize_var_cached(b, j)])
  BY <1>1, <1>6, <1>7, ZenonT(30) DEF from_bytes_to_vars
<1> QED
  BY <1>5, <1>8, ZenonT(30) DEF b

\* A list that is cut is not read at all.
THEOREM CutIsRefused ==
    ASSUME NEW l, Sane(l), NEW room \in Nat, room < 1 + 3 * Len(l)
    PROVE  from_bytes_to_vars(SubSeq(serialize_variable_list(l), 1, room)).ok = FALSE
<1> DEFINE b == serialize_variable_list(l)
           c == SubSeq(b, 1, room)
<1>1. Len(b) = 1 + 3 * Len(l) /\ b[1] = Len(l) /\ Len(l) \in Nat /\ DOMAIN b = 1 .. Len(b)
  BY FieldsOf DEF Sane
<1> HIDE DEF b
<1>2. c = [f \in 1 .. room |-> b[f]]
  BY <1>1
<1> HIDE DEF c
<1>3. CASE room = 0
  <2>1. c = <<>>
    BY <1>2, <1>3
  <2> QED
    BY <2>1, Zenon DEF from_bytes_to_vars, Decoded, b, c
<1>4. CASE room # 0
  <2>1. c[1] = Len(l)
    BY <1>1, <1>2, <1>4
  <2>2. Len(c) = room
    <3> DEFINE R == {b[f] : f \in 1 .. room}
    <3>1. c \in [1 .. room -> R] /\ DOMAIN c = 1 .. room
      BY <1>2, Zenon
    <3> HIDE DEF R
    <3>2. c \in Seq(R)
      BY <3>1
    <3> QED
      BY <3>1, <3>2
  <2>3. Len(c) # 1 + 3 * c[1]
    BY <1>1, <2>1, <2>2
  <2>4. from_bytes_to_vars(c).ok = FALSE
    BY <2>3, Zenon DEF from_bytes_to_vars, Decoded
  <2> QED
    BY <2>4, Zenon DEF b, c
<1> QED
  BY <1>3, <1>4, ZenonT(30)

-----------------------------------------------------------------------------
(***************************************************************************)
(* Collecting a list                                                       *)
(***************************************************************************)
\* The slots before n whose variables have the attributes wanted.
Passed(s, wanted, n) == {i \in Occupied(s) : i < n /\ wanted \subseteq s.slots[i].attrs}

EntriesAt(s, S) == {Entry(s.slots[i]) : i \in S}

\* Each key is in one slot, unless names come with a terminator.
Distinct(s) == PlainNames => KeysDiffer(s)

\* The list holds these variables and, of different keys, each once.
Gathered(s, l, wanted, n) ==
    /\ Sane(l)
    /\ Entries(l) = EntriesAt(s, Passed(s, wanted, n))
    /\ IsFiniteSet(Entries(l))
    /\ PlainNames => Len(l) = Cardinality(Entries(l))
    /\ Len(l) <= n

\* Nothing was passed at the start of an iteration.
LEMMA NothingGathered == ASSUME NEW s, NEW wanted PROVE Gathered(s, <<>>, wanted, 0)
<1>1. Passed(s, wanted, 0) = {}
  BY LimitsAssumption DEF Passed, Occupied, Slots
<1>2. Entries(<<>>) = {} /\ EntriesAt(s, {}) = {}
  BY DEF Entries, EntriesAt
<1>3. IsFiniteSet({}) /\ Cardinality({}) = 0
  BY FS_EmptySet, Zenon
<1>4. Sane(<<>>) /\ Len(<<>>) = 0
  BY DEF Sane
<1>5. Len(<<>>) <= 0
  BY <1>4
<1> QED
  BY <1>1, <1>2, <1>3, <1>4, <1>5, Zenon DEF Gathered

\* Moving the iterator changes nothing else.
LEMMA OnlyIter ==
    ASSUME NEW s, TableOK(s), Distinct(s), NEW i \in Slots
    PROVE  LET t == [s EXCEPT !.iter = i]
           IN  /\ t.slots = s.slots /\ t.iter = i /\ Occupied(t) = Occupied(s)
               /\ TableOK(t) /\ Distinct(t)
<1> DEFINE t == [s EXCEPT !.iter = i]
<1>1. s \in Table /\ i \in Nat
  BY LimitsAssumption DEF TableOK, Slots
<1>2. /\ t.slots = s.slots /\ t.iter = i /\ t.total = s.total /\ t.used = s.used
      /\ t \in Table
  BY <1>1, Zenon DEF Table
<1> HIDE DEF t
<1>3. Occupied(t) = Occupied(s)
  BY <1>2, Zenon DEF Occupied
<1>4. CountersAgree(t)
  BY <1>2, <1>3, Zenon DEF TableOK, CountersAgree
<1> QED
  BY <1>2, <1>3, <1>4, Zenon DEF TableOK, Distinct, KeysDiffer, t

\* What was gathered depends on the slots alone.
LEMMA GatheredFromSlots ==
    ASSUME NEW s, NEW t, t.slots = s.slots, NEW l, NEW wanted, NEW n, Gathered(s, l, wanted, n)
    PROVE  Gathered(t, l, wanted, n)
BY Zenon DEF Gathered, EntriesAt, Passed, Occupied

\* A variable that is appended adds its entry.
LEMMA AppendEntry ==
    ASSUME NEW l, Sane(l), NEW v, Listed(v)
    PROVE  /\ Sane(Append(l, v)) /\ Entries(Append(l, v)) = Entries(l) \cup {Entry(v)}
           /\ Len(Append(l, v)) = Len(l) + 1
<1> DEFINE m == Append(l, v)
<1>1. /\ l \in Seq(Variable) /\ v \in Variable /\ Len(l) \in Nat
      /\ DOMAIN l = 1 .. Len(l)
  BY DEF Sane, Listed
<1>2. /\ m \in Seq(Variable) /\ Len(m) = Len(l) + 1 /\ DOMAIN m = 1 .. Len(l) + 1
      /\ m[Len(l) + 1] = v /\ \A j \in 1 .. Len(l) : m[j] = l[j]
  BY <1>1
<1> HIDE DEF m
<1>3. Sane(m)
  BY <1>1, <1>2 DEF Sane
<1>4. \A j \in DOMAIN m : Entry(m[j]) \in Entries(l) \cup {Entry(v)}
  BY <1>1, <1>2 DEF Entries
<1>5. \A j \in DOMAIN l : j \in DOMAIN m /\ m[j] = l[j]
  BY <1>1, <1>2
<1>6. Len(l) + 1 \in DOMAIN m
  BY <1>1, <1>2
<1>7. Entries(m) = Entries(l) \cup {Entry(v)}
  BY <1>2, <1>4, <1>5, <1>6, Zenon DEF Entries
<1> QED
  BY <1>2, <1>3, <1>7, Zenon DEF m

\* One call of storage_iter moves the list on by the slots it passes; at the
\* end the list has all but what is in the last slot.
LEMMA IterStep ==
    ASSUME NEW s, TableOK(s), Distinct(s), NEW wanted, NEW l, Gathered(s, l, wanted, s.iter)
    PROVE  LET r == storage_iter(s)
               m == IF r.st = "SUCCESS" /\ wanted \subseteq r.var.attrs
                    THEN Append(l, r.var) ELSE l
           IN  /\ TableOK(r.s) /\ Distinct(r.s) /\ r.s.slots = s.slots
               /\ r.st = "SUCCESS" => Gathered(r.s, m, wanted, r.s.iter)
               /\ r.st # "SUCCESS" => m = l /\ r.s.iter = 0
                                      /\ Gathered(r.s, l, wanted, MaxVarCount - 1)
<1> DEFINE rest == {i \in Occupied(s) : i >= s.iter}
           next == IF rest = {} THEN MaxVarCount ELSE Min(rest) + 1
           r == storage_iter(s)
           m == IF r.st = "SUCCESS" /\ wanted \subseteq r.var.attrs
                THEN Append(l, r.var) ELSE l
<1>1. /\ s.iter \in Nat /\ s.iter <= MaxVarCount - 1 /\ MaxVarCount \in Nat \ {0}
      /\ \A i \in Occupied(s) : i \in Slots /\ i \in Nat /\ i <= MaxVarCount - 1
      /\ Len(l) \in Nat /\ Len(l) <= s.iter
  BY LimitsAssumption DEF TableOK, Slots, Occupied, Gathered, Sane
<1>2. rest # {} => /\ Min(rest) \in Occupied(s) /\ Min(rest) >= s.iter
                   /\ \A i \in Occupied(s) : i >= s.iter => i >= Min(rest)
  <2> SUFFICES ASSUME rest # {}
               PROVE  /\ Min(rest) \in rest /\ \A i \in rest : Min(rest) <= i
    BY <1>1, ZenonT(30)
  <2>1. rest \in SUBSET Nat
    BY <1>1, Zenon
  <2> HIDE DEF rest
  <2> QED
    BY <2>1, MinIsSmallest, Zenon
<1>3. CASE next >= MaxVarCount
  <2>1. r.st = "NOT_FOUND" /\ r.s = [s EXCEPT !.iter = 0]
    BY <1>3, Zenon DEF storage_iter
  <2>2. 0 \in Slots
    BY LimitsAssumption DEF Slots
  <2>3. TableOK(r.s) /\ Distinct(r.s) /\ r.s.slots = s.slots /\ r.s.iter = 0
    BY <2>1, <2>2, OnlyIter
  <2>4. \A i \in Occupied(s) : i < s.iter <=> i < MaxVarCount - 1
    <3> TAKE i \in Occupied(s)
    <3>1. CASE rest = {}
      <4>1. ~(i >= s.iter)
        BY <3>1, Zenon
      <4> QED
        BY <1>1, <4>1
    <3>2. CASE rest # {}
      <4>1. Min(rest) + 1 >= MaxVarCount
        BY <1>3, <3>2, Zenon
      <4>2. /\ Min(rest) \in Nat /\ Min(rest) <= MaxVarCount - 1 /\ Min(rest) >= s.iter
            /\ i >= s.iter => i >= Min(rest)
        BY <1>1, <1>2, <3>2, Zenon
      <4> HIDE DEF rest
      <4> QED
        BY <1>1, <4>1, <4>2
    <3> QED
      BY <3>1, <3>2, Zenon
  <2>5. Passed(s, wanted, MaxVarCount - 1) = Passed(s, wanted, s.iter)
    BY <2>4, Zenon DEF Passed
  <2>6. Gathered(s, l, wanted, MaxVarCount - 1)
    BY <1>1, <2>5 DEF Gathered
  <2>7. Gathered(r.s, l, wanted, MaxVarCount - 1)
    BY <2>3, <2>6, GatheredFromSlots, Zenon
  <2>8. m = l
    BY <2>1, Zenon
  <2> HIDE DEF r, m
  <2> QED
    BY <2>1, <2>3, <2>7, <2>8, Zenon DEF r, m
<1>4. CASE ~(next >= MaxVarCount)
  <2> DEFINE k == Min(rest)
             v == s.slots[k]
             w == variable_copy(v)
  <2>1. rest # {} /\ next = k + 1
    BY <1>1, <1>4
  <2>2. k \in Occupied(s) /\ k \in Nat /\ k >= s.iter /\ k + 1 < MaxVarCount
    BY <1>1, <1>2, <1>4, <2>1
  <2>3. r.st = "SUCCESS" /\ r.s = [s EXCEPT !.iter = k + 1] /\ r.var = w
    <3>1. next - 1 = k
      BY <2>1, <2>2
    <3>2. r = [st |-> "SUCCESS", s |-> [s EXCEPT !.iter = next],
               var |-> variable_copy(s.slots[next - 1])]
      BY <1>4, Zenon DEF storage_iter
    <3> HIDE DEF next, r, w
    <3> QED
      BY <2>1, <3>1, <3>2, Zenon DEF w
  <2>4. k + 1 \in Slots
    BY <1>1, <2>2 DEF Slots
  <2>5. TableOK(r.s) /\ Distinct(r.s) /\ r.s.slots = s.slots /\ r.s.iter = k + 1
    BY <2>3, <2>4, OnlyIter
  <2>6. \A i \in Occupied(s) : i < k + 1 <=> (i < s.iter \/ i = k)
    <3> TAKE i \in Occupied(s)
    <3>1. i >= s.iter => i >= k
      BY <1>2, <2>1, Zenon
    <3>2. i \in Nat /\ s.iter \in Nat /\ k \in Nat /\ k >= s.iter
      BY <1>1, <2>2, Zenon
    <3> HIDE DEF k
    <3> QED
      BY <3>1, <3>2
  <2>7. v \in Variable /\ v.key \in Keys /\ v.data # <<>>
    <3> HIDE DEF k
    <3>1. k \in Slots /\ v.key # NoKey
      BY <2>2, Zenon DEF Occupied, variable_is_valid
    <3>2. v \in Variable /\ SlotOK(v)
      BY <3>1, Zenon DEF TableOK, Table
    <3>3. Len(v.data) \in 1 .. MaxDataSize
      BY <3>1, <3>2, Zenon DEF SlotOK, variable_is_valid
    <3>4. v.data # <<>>
      BY <3>3
    <3> QED
      BY <3>1, <3>2, <3>4, Zenon DEF Variable
  <2>8. /\ Listed(w) /\ w.attrs = v.attrs /\ Entry(w) = Entry(v)
    BY <2>7, ZenonT(30) DEF Listed, variable_copy, Variable, Entry
  <2> HIDE DEF r, w, k, rest, next
  <2>9. CASE wanted \subseteq v.attrs
    <3>1. m = Append(l, w)
      BY <2>3, <2>8, <2>9, Zenon
    <3>2. Passed(s, wanted, k + 1) = Passed(s, wanted, s.iter) \cup {k}
      BY <2>2, <2>6, <2>9, ZenonT(30) DEF Passed
    <3>3. EntriesAt(s, Passed(s, wanted, k + 1)) = Entries(l) \cup {Entry(v)}
      BY <3>2, Zenon DEF EntriesAt, Gathered
    <3>4. /\ Sane(m) /\ Entries(m) = Entries(l) \cup {Entry(v)} /\ Len(m) = Len(l) + 1
      BY <2>8, <3>1, AppendEntry, Zenon DEF Gathered
    <3>5. ASSUME PlainNames PROVE Entry(v) \notin Entries(l)
      <4> SUFFICES ASSUME NEW i \in Passed(s, wanted, s.iter), Entry(s.slots[i]) = Entry(v)
                   PROVE  FALSE
        BY Zenon DEF Gathered, EntriesAt
      <4>1. i \in Occupied(s) /\ i < s.iter /\ s.slots[i].key = v.key
        BY Zenon DEF Passed, Entry
      <4>2. i = k
        BY <2>2, <3>5, <4>1, ZenonT(30) DEF Distinct, KeysDiffer
      <4> QED
        BY <1>1, <2>2, <4>1, <4>2
    <3>6. /\ IsFiniteSet(Entries(m))
          /\ PlainNames => Len(m) = Cardinality(Entries(m))
      <4>1. /\ IsFiniteSet(Entries(m))
            /\ Entry(v) \notin Entries(l) => Cardinality(Entries(m)) = Cardinality(Entries(l)) + 1
        BY <3>4, FS_AddElement DEF Gathered
      <4> QED
        BY <3>4, <3>5, <4>1, Zenon DEF Gathered
    <3>7. Len(m) <= k + 1
      BY <1>1, <2>2, <3>4
    <3>8. Gathered(s, m, wanted, k + 1)
      BY <3>3, <3>4, <3>6, <3>7, ZenonT(30) DEF Gathered
    <3>9. Gathered(r.s, m, wanted, r.s.iter)
      BY <2>5, <3>8, GatheredFromSlots
    <3> HIDE DEF m
    <3> QED
      BY <2>3, <2>5, <3>9, Zenon DEF m, r
  <2>10. CASE ~(wanted \subseteq v.attrs)
    <3>1. m = l
      BY <2>3, <2>8, <2>10, Zenon
    <3>2. Passed(s, wanted, k + 1) = Passed(s, wanted, s.iter)
      BY <2>6, <2>10, Zenon DEF Passed
    <3>3. Gathered(s, m, wanted, k + 1)
      BY <1>1, <2>2, <3>1, <3>2 DEF Gathered
    <3>4. Gathered(r.s, m, wanted, r.s.iter)
      BY <2>5, <3>3, GatheredFromSlots
    <3> HIDE DEF m
    <3> QED
      BY <2>3, <2>5, <3>4, Zenon DEF m, r
  <2> QED
    BY <2>9, <2>10, Zenon
<1> QED
  BY <1>3, <1>4, Zenon

-----------------------------------------------------------------------------
(***************************************************************************)
(* The other operations on the table                                       *)
(***************************************************************************)
\* Writing a variable does not move the iterator.
LEMMA SetKeepsIter ==
    ASSUME NEW s, NEW n, NEW data, NEW attrs
    PROVE  storage_set(s, n, data, attrs).s.iter = s.iter
<1>1. \A i, v, g : PutSlot(s, i, v, g).iter = s.iter
  BY Zenon DEF PutSlot
<1>2. storage_remove(s, n).s.iter = s.iter
  BY <1>1, Zenon DEF storage_remove, Result
<1>3. \A i, at, ap : ReplaceVariable(s, i, data, at, ap).s.iter = s.iter
  BY <1>1, Zenon DEF ReplaceVariable, Result
<1>4. \A at : CreateVariable(s, n, data, at).s.iter = s.iter
  BY <1>1, Zenon DEF CreateVariable, Result
<1> QED
  BY <1>2, <1>3, <1>4, Zenon DEF storage_set, Result

\* Writing a variable keeps the table in order.
LEMMA SetKeepsOrder ==
    ASSUME NEW s, TableOK(s), Distinct(s), NEW n \in NameArg, n.key \in Keys,
           PlainNames => ~n.nul, NEW data \in Seq(Atoms), NEW attrs \in SUBSET Attrs
    PROVE  LET t == storage_set(s, n, data, attrs).s
           IN  TableOK(t) /\ Distinct(t) /\ t.iter = s.iter
<1> DEFINE t == storage_set(s, n, data, attrs).s
<1>1. TableOK(t) /\ (KeysDiffer(s) /\ ~n.nul => KeysDiffer(t))
  BY SetOK, Zenon
<1>2. t.iter = s.iter
  BY SetKeepsIter
<1> HIDE DEF t
<1>3. Distinct(t)
  BY <1>1, Zenon DEF Distinct
<1> QED
  BY <1>1, <1>2, <1>3, Zenon DEF t

\* The requests of the guest are calls storage_set is made for.
LEMMA WriteTypes ==
    ASSUME NEW w \in Writes
    PROVE  /\ w.name \in NameArg /\ w.name.key \in Keys
           /\ w.data \in Seq(Atoms) /\ w.attrs \in SUBSET Attrs
           /\ PlainNames => ~w.name.nul /\ w.name = Plain(w.name.key)
<1>1. /\ w \in [name : NameArg, data : Seq(Atoms), attrs : SUBSET Attrs]
      /\ w.name.key # NoKey
  BY PersistenceAssumption, Zenon
<1>2. w.name \in NameArg /\ w.data \in Seq(Atoms) /\ w.attrs \in SUBSET Attrs
  BY <1>1, Zenon
<1>3. w.name.key \in Keys
  BY <1>1, <1>2, Zenon DEF NameArg
<1>4. ASSUME PlainNames PROVE ~w.name.nul /\ w.name = Plain(w.name.key)
  <2>1. ~w.name.nul
    BY <1>4, Zenon DEF PlainNames
  <2> QED
    BY <1>2, <2>1 DEF NameArg, Plain
<1> QED
  BY <1>2, <1>3, <1>4, Zenon

\* Storing a variable from a list at start keeps the table in order.
LEMMA RestoreOK ==
    ASSUME NEW s, TableOK(s), Distinct(s), NEW v, Listed(v)
    PROVE  LET t == RestoreVariable(s, v).s
           IN  TableOK(t) /\ Distinct(t) /\ t.iter = s.iter
<1> DEFINE n == Plain(v.key)
<1>1. /\ n \in NameArg /\ n.key \in Keys /\ ~n.nul
      /\ v.data \in Seq(Atoms) /\ v.attrs \in SUBSET Attrs /\ v.timestamp \in Nat
  BY Zenon DEF Listed, Variable, Plain, NameArg
<1> HIDE DEF n
<1>2. LET t == storage_set(s, n, v.data, v.attrs).s
      IN  TableOK(t) /\ Distinct(t) /\ t.iter = s.iter
  BY <1>1, SetKeepsOrder, Zenon
<1>3. LET t == storage_set_with_timestamp(s, n, v.data, v.attrs, v.timestamp).s
      IN  TableOK(t) /\ Distinct(t)
  BY <1>1, SetWithTimestampOK, Zenon DEF Distinct
<1>4. storage_set_with_timestamp(s, n, v.data, v.attrs, v.timestamp).s.iter = s.iter
  <2> DEFINE t == storage_set(s, n, v.data, v.attrs).s
  <2>1. t.iter = s.iter
    BY <1>2, Zenon
  <2> HIDE DEF t
  <2>2. SetTimestamp(t, n, v.timestamp).s.iter = t.iter
    BY Zenon DEF SetTimestamp, Result, PutSlot
  <2> QED
    BY <2>1, <2>2, Zenon DEF storage_set_with_timestamp, t
<1> QED
  BY <1>2, <1>3, <1>4, Zenon DEF RestoreVariable, n

\* storage_destroy leaves no variable.
LEMMA DestroyOK ==
    ASSUME NEW s, TableOK(s)
    PROVE  LET t == storage_destroy(s)
           IN  TableOK(t) /\ Distinct(t) /\ t.iter = s.iter
<1>1. s.iter \in Slots
  BY Zenon DEF TableOK
<1> QED
  BY <1>1, EmptyTableOK, OnlyIter, Zenon DEF storage_destroy, Distinct

\* The first variable of a list, and the others.
LEMMA HeadAndTail ==
    ASSUME NEW l, Sane(l), l # <<>>
    PROVE  Listed(Head(l)) /\ Sane(Tail(l))
<1>1. l \in Seq(Variable) /\ Len(l) \in Nat \ {0} /\ DOMAIN l = 1 .. Len(l)
  BY DEF Sane
<1>2. Head(l) = l[1] /\ 1 \in DOMAIN l
  BY <1>1
<1>3. /\ Tail(l) \in Seq(Variable) /\ DOMAIN Tail(l) = 1 .. Len(l) - 1
      /\ \A j \in 1 .. Len(l) - 1 : Tail(l)[j] = l[j + 1]
  BY <1>1
<1>4. \A j \in DOMAIN Tail(l) : Listed(Tail(l)[j])
  <2> TAKE j \in DOMAIN Tail(l)
  <2>1. Tail(l)[j] = l[j + 1] /\ j + 1 \in DOMAIN l
    BY <1>1, <1>3
  <2> QED
    BY <2>1, Zenon DEF Sane
<1> QED
  BY <1>2, <1>3, <1>4, Zenon DEF Sane

\* What is not decoded gives no variables.
LEMMA NotDecoded ==
    ASSUME NEW b, from_bytes_to_vars(b).ok = FALSE
    PROVE  Readable(b) /\ from_bytes_to_vars(b).list = <<>>
<1>1. from_bytes_to_vars(b).list = <<>>
  BY Zenon DEF from_bytes_to_vars, Decoded
<1>2. Sane(<<>>)
  BY DEF Sane
<1> QED
  BY <1>1, <1>2, Zenon DEF Readable

\* Neither does an empty file.
LEMMA NothingToRead == Readable(<<>>) /\ Sane(<<>>)
<1>1. from_bytes_to_vars(<<>>).ok = FALSE
  BY Zenon DEF from_bytes_to_vars, Decoded
<1>2. Sane(<<>>)
  BY DEF Sane
<1>3. Readable(<<>>)
  BY <1>1, NotDecoded, ZenonT(30)
<1> QED
  BY <1>2, <1>3, Zenon

\* What is written is readable, cut or not.
LEMMA WrittenReadable ==
    ASSUME NEW l, Sane(l), Len(l) <= MaxVarCount
    PROVE  /\ Readable(serialize_variable_list(l))
           /\ \A room \in Nat : room < Len(serialize_variable_list(l)) =>
                  Readable(SubSeq(serialize_variable_list(l), 1, room))
<1>1. from_bytes_to_vars(serialize_variable_list(l)).list = l
  BY RoundTrip DEF Decoded
<1>2. Len(serialize_variable_list(l)) = 1 + 3 * Len(l)
  BY FieldsOf, Zenon
<1>3. ASSUME NEW room \in Nat, room < Len(serialize_variable_list(l))
      PROVE  Readable(SubSeq(serialize_variable_list(l), 1, room))
  BY <1>2, <1>3, CutIsRefused, NotDecoded, ZenonT(30)
<1> QED
  BY <1>1, <1>3, Zenon DEF Readable

-----------------------------------------------------------------------------
(***************************************************************************)
(* The lists that are sent                                                 *)
(***************************************************************************)
\* No signal comes while variables are collected: it would leave the index of
\* the iteration in the middle of the table, where the handler goes on.
QuietCollection ==
    "collect" \notin SignalAt /\ NestedAt \cap {"h_collect", "h_gather"} = {}

Collecting == {"collect", "h_collect", "h_gather"}

\* The inductive invariant.  Outside of a collection the index is at the
\* start, so each collection begins there.
CollectInv ==
    /\ pc \in Main \cup Handler \cup {"down"}
    /\ TableOK(storage) /\ Distinct(storage)
    /\ Sane(list) /\ Sane(input) /\ Readable(xapi) /\ Readable(file)
    /\ pc \notin Collecting => storage.iter = 0
    /\ pc = "load" => list = <<>>
    /\ pc \in {"collect", "h_collect"} => Gathered(storage, list, {"NV"}, storage.iter)
    /\ pc \in {"send", "h_send"} => Gathered(storage, list, {"NV"}, MaxVarCount - 1)
    /\ pc = "h_gather" => Gathered(storage, list, {}, storage.iter)
    /\ pc = "h_write" => Gathered(storage, list, {}, MaxVarCount - 1)

\* The facts every step has to keep, whatever the program counter.
StorageSound == /\ TableOK(storage) /\ Distinct(storage)
         /\ Sane(list) /\ Sane(input) /\ Readable(xapi) /\ Readable(file)

\* A step of a collection, whichever it is.
LEMMA IterateStep ==
    ASSUME StorageSound, NEW wanted, NEW here, NEW next, Iterate(wanted, here, next),
           here # next, Gathered(storage, list, wanted, storage.iter)
    PROVE  /\ StorageSound' /\ storage'.slots = storage.slots /\ pc' \in {here, next}
           /\ pc' = here => Gathered(storage', list', wanted, storage'.iter)
           /\ pc' = next => /\ storage'.iter = 0
                            /\ Gathered(storage', list', wanted, MaxVarCount - 1)
<1> DEFINE r == storage_iter(storage)
           m == IF r.st = "SUCCESS" /\ wanted \subseteq r.var.attrs
                THEN Append(list, r.var) ELSE list
<1>1. /\ storage' = r.s /\ pc' = (IF r.st = "SUCCESS" THEN here ELSE next) /\ list' = m
      /\ input' = input /\ xapi' = xapi /\ file' = file
  BY Zenon DEF Iterate, disk
<1>2. /\ TableOK(r.s) /\ Distinct(r.s) /\ r.s.slots = storage.slots
      /\ r.st = "SUCCESS" => Gathered(r.s, m, wanted, r.s.iter)
      /\ r.st # "SUCCESS" => m = list /\ r.s.iter = 0
                             /\ Gathered(r.s, list, wanted, MaxVarCount - 1)
  BY IterStep, ZenonT(30) DEF StorageSound
<1> HIDE DEF r, m
<1>3. Sane(m)
  BY <1>2, Zenon DEF Gathered
<1>4. StorageSound'
  BY <1>1, <1>2, <1>3, Zenon DEF StorageSound
<1> QED
  BY <1>1, <1>2, <1>4, Zenon

\* A list at hand fits the limit of the decoder.
LEMMA ListFits ==
    ASSUME NEW s, NEW l, NEW wanted, Gathered(s, l, wanted, MaxVarCount - 1)
    PROVE  Sane(l) /\ Len(l) <= MaxVarCount
<1>1. Sane(l) /\ Len(l) \in Nat /\ Len(l) <= MaxVarCount - 1
  BY DEF Gathered, Sane
<1> QED
  BY <1>1, LimitsAssumption

\* The invariant holds before the first start.
LEMMA CollectInit == Init => CollectInv
<1>1. TableOK(EmptyTable) /\ Distinct(EmptyTable) /\ EmptyTable.iter = 0
  BY EmptyTableOK, Zenon DEF Distinct, EmptyTable
<1> QED
  BY <1>1, NothingToRead, Zenon DEF Init, CollectInv, Collecting, Main, Handler

\* Every step keeps it.
LEMMA CollectStep ==
    ASSUME QuietCollection, CollectInv, [Next]_vars
    PROVE  CollectInv'
<1> USE PersistenceAssumption
<1>0. StorageSound /\ storage.iter \in Slots
  BY ZenonT(30) DEF CollectInv, StorageSound, TableOK
<1>1. CASE Load
  <2> DEFINE v == Head(input)
             r == RestoreVariable(storage, v)
  <2>1. /\ pc = "load" /\ input # <<>> /\ storage' = r.s /\ input' = Tail(input)
        /\ list' = list /\ xapi' = xapi /\ file' = file
        /\ pc' \in {"load", "h_collect"}
    BY <1>1, Zenon DEF Load, disk
  <2>2. Listed(v) /\ Sane(input')
    BY <1>0, <2>1, HeadAndTail, Zenon DEF StorageSound
  <2>3. TableOK(r.s) /\ Distinct(r.s) /\ r.s.iter = storage.iter
    BY <1>0, <2>2, RestoreOK, Zenon DEF StorageSound
  <2>4. storage'.iter = 0 /\ list' = <<>>
    BY <2>1, <2>3, Zenon DEF CollectInv, Collecting
  <2> HIDE DEF r
  <2>5. StorageSound'
    BY <1>0, <2>1, <2>2, <2>3, Zenon DEF StorageSound
  <2>6. Gathered(storage', list', {"NV"}, storage'.iter)
    BY <2>4, NothingGathered, Zenon
  <2> QED
    BY <2>1, <2>4, <2>5, <2>6, Zenon DEF CollectInv, StorageSound, Main, Handler
<1>2. CASE Loaded
  <2>1. /\ pc = "load" /\ pc' = "collect" /\ list' = <<>> /\ storage' = storage
        /\ input' = input /\ xapi' = xapi /\ file' = file
    BY <1>2, Zenon DEF Loaded, disk
  <2>2. storage'.iter = 0
    BY <2>1, Zenon DEF CollectInv, Collecting
  <2>3. Gathered(storage', list', {"NV"}, storage'.iter)
    BY <2>1, <2>2, NothingGathered, Zenon
  <2> QED
    BY <1>0, <2>1, <2>2, <2>3, NothingToRead, Zenon DEF CollectInv, StorageSound, Main, Handler
<1>3. CASE retrieve_nonvolatile_vars
  <2>1. CASE Iterate({"NV"}, "collect", "send")
    <3>1. pc = "collect" /\ Gathered(storage, list, {"NV"}, storage.iter)
      BY <2>1, Zenon DEF Iterate, CollectInv
    <3>2. /\ StorageSound' /\ pc' \in {"collect", "send"}
          /\ pc' = "collect" => Gathered(storage', list', {"NV"}, storage'.iter)
          /\ pc' = "send" => /\ storage'.iter = 0
                             /\ Gathered(storage', list', {"NV"}, MaxVarCount - 1)
      BY <1>0, <2>1, <3>1, IterateStep, Zenon
    <3> QED
      BY <3>2, Zenon DEF CollectInv, StorageSound, Main, Handler, Collecting
  <2>2. CASE Iterate({"NV"}, "h_collect", "h_send")
    <3>1. pc = "h_collect" /\ Gathered(storage, list, {"NV"}, storage.iter)
      BY <2>2, Zenon DEF Iterate, CollectInv
    <3>2. /\ StorageSound' /\ pc' \in {"h_collect", "h_send"}
          /\ pc' = "h_collect" => Gathered(storage', list', {"NV"}, storage'.iter)
          /\ pc' = "h_send" => /\ storage'.iter = 0
                               /\ Gathered(storage', list', {"NV"}, MaxVarCount - 1)
      BY <1>0, <2>2, <3>1, IterateStep, Zenon
    <3> QED
      BY <3>2, Zenon DEF CollectInv, StorageSound, Main, Handler, Collecting
  <2> QED
    BY <1>3, <2>1, <2>2, Zenon DEF retrieve_nonvolatile_vars
<1>4. CASE retrieve_vars
  <2>1. /\ pc = "h_gather" /\ Gathered(storage, list, {}, storage.iter)
        /\ Iterate({}, "h_gather", "h_write")
    BY <1>4, Zenon DEF retrieve_vars, Iterate, CollectInv
  <2>2. /\ StorageSound' /\ pc' \in {"h_gather", "h_write"}
        /\ pc' = "h_gather" => Gathered(storage', list', {}, storage'.iter)
        /\ pc' = "h_write" => /\ storage'.iter = 0
                              /\ Gathered(storage', list', {}, MaxVarCount - 1)
    BY <1>0, <2>1, IterateStep, Zenon
  <2> QED
    BY <2>2, Zenon DEF CollectInv, StorageSound, Main, Handler, Collecting
<1>5. CASE \E ok \in PushAnswers : SendList(ok)
  <2>1. PICK ok \in PushAnswers : SendList(ok)
    BY <1>5, Zenon
  <2>2. /\ pc \in {"send", "h_send"} /\ pc' \in {"idle", "h_open"} /\ list' = <<>>
        /\ xapi' \in {serialize_variable_list(list), xapi}
        /\ storage' = storage /\ input' = input /\ file' = file
    BY <2>1, Zenon DEF SendList
  <2>3. Gathered(storage, list, {"NV"}, MaxVarCount - 1) /\ storage.iter = 0
    BY <2>2, Zenon DEF CollectInv, Collecting
  <2>4. Readable(xapi')
    BY <1>0, <2>2, <2>3, ListFits, WrittenReadable, Zenon DEF StorageSound
  <2> QED
    BY <1>0, <2>2, <2>3, <2>4, NothingToRead, Zenon DEF CollectInv, StorageSound, Main, Handler
<1>6. CASE \E room \in DiskSpace : WriteFile(room)
  <2>1. PICK room \in DiskSpace : WriteFile(room)
    BY <1>6, Zenon
  <2> DEFINE whole == serialize_variable_list(list)
  <2>2. /\ pc = "h_write" /\ pc' = "h_end" /\ list' = <<>> /\ input' = input /\ xapi' = xapi
        /\ storage' = storage_destroy(storage)
    BY <2>1, Zenon DEF WriteFile
  <2>3. \/ file' = <<>>
        \/ file' = whole
        \/ room < Len(whole) /\ file' = SubSeq(whole, 1, room)
    <3>1. CASE list = <<>>
      <4>1. \/ file' = <<>>
            \/ room < Len(<<>>)
        BY <2>1, <3>1, Zenon DEF WriteFile
      <4> QED
        BY <4>1
    <3>2. CASE list # <<>>
      BY <2>1, <3>2, Zenon DEF WriteFile
    <3> QED
      BY <3>1, <3>2, Zenon
  <2>4. Gathered(storage, list, {}, MaxVarCount - 1) /\ storage.iter = 0
    BY <2>2, Zenon DEF CollectInv, Collecting
  <2>5. /\ Readable(whole)
        /\ room < Len(whole) => Readable(SubSeq(whole, 1, room))
    BY <2>4, ListFits, WrittenReadable, Zenon
  <2> HIDE DEF whole
  <2>6. Readable(file')
    BY <2>3, <2>5, NothingToRead, ZenonT(30)
  <2>7. TableOK(storage') /\ Distinct(storage') /\ storage'.iter = 0
    BY <1>0, <2>2, <2>4, DestroyOK, Zenon DEF StorageSound
  <2> QED
    BY <1>0, <2>2, <2>6, <2>7, NothingToRead, Zenon DEF CollectInv, StorageSound, Main, Handler
<1>7. CASE OpenFile
  <2>1. /\ pc = "h_open" /\ list' = <<>> /\ input' = input /\ xapi' = xapi
        /\ \/ pc' = "h_gather" /\ file' = <<>> /\ storage' = storage
           \/ pc' = "h_end" /\ storage' = storage_destroy(storage) /\ file' = file
    BY <1>7, Zenon DEF OpenFile
  <2>2. storage.iter = 0
    BY <2>1, Zenon DEF CollectInv, Collecting
  <2>3. TableOK(storage') /\ Distinct(storage') /\ storage'.iter = 0
    BY <1>0, <2>1, <2>2, DestroyOK, Zenon DEF StorageSound
  <2>4. Gathered(storage', list', {}, storage'.iter)
    BY <2>1, <2>3, NothingGathered, Zenon
  <2>5. Readable(file')
    BY <1>0, <2>1, NothingToRead, Zenon DEF StorageSound
  <2> QED
    BY <1>0, <2>1, <2>3, <2>4, <2>5, NothingToRead, Zenon DEF CollectInv, StorageSound, Main, Handler
<1>8. CASE Exit
  BY <1>8, Zenon DEF Exit, disk, CollectInv, Collecting, Main, Handler
<1>9. CASE \E resume \in BOOLEAN, ok \in PullAnswers : Start(resume, ok)
  <2>1. PICK resume \in BOOLEAN, ok \in PullAnswers : Start(resume, ok)
    BY <1>9, Zenon
  <2> DEFINE d == IF resume THEN xapi_variables_read_file ELSE xapi_variables_request(ok)
  <2>2. /\ pc' \in {"load", "down"} /\ input' = d.list /\ storage' = EmptyTable
        /\ list' = <<>> /\ xapi' = xapi /\ file' = file
    BY <2>1, Zenon DEF Start, disk
  <2>3. d.list \in {<<>>, from_bytes_to_vars(file).list, from_bytes_to_vars(xapi).list}
    BY Zenon DEF xapi_variables_read_file, xapi_variables_request, Decoded
  <2>4. Sane(input')
    BY <1>0, <2>2, <2>3, NothingToRead, Zenon DEF StorageSound, Readable
  <2> HIDE DEF d
  <2>5. storage'.iter = 0
    BY <2>2, Zenon DEF EmptyTable
  <2> QED
    BY <1>0, <2>2, <2>4, <2>5, EmptyTableOK, NothingToRead, ZenonT(30)
       DEF CollectInv, StorageSound, Distinct, Main, Handler
<1>10. CASE \E w \in Writes : SetVariable(w.name, w.data, w.attrs)
  <2>1. PICK w \in Writes : SetVariable(w.name, w.data, w.attrs)
    BY <1>10, Zenon
  <2> DEFINE r == storage_set(storage, w.name, w.data, w.attrs)
  <2>2. /\ pc = "idle" /\ storage' = r.s /\ pc' \in {"idle", "collect"} /\ list' = <<>>
        /\ input' = input /\ xapi' = xapi /\ file' = file
    BY <2>1, Zenon DEF SetVariable, disk
  <2>4. TableOK(r.s) /\ Distinct(r.s) /\ r.s.iter = storage.iter
    BY <1>0, WriteTypes, SetKeepsOrder, Zenon DEF StorageSound
  <2> HIDE DEF r
  <2>5. storage'.iter = 0
    BY <2>2, <2>4, ZenonT(30) DEF CollectInv, Collecting
  <2>6. Gathered(storage', list', {"NV"}, storage'.iter)
    BY <2>2, <2>5, NothingGathered, Zenon
  <2> QED
    BY <1>0, <2>2, <2>4, <2>5, <2>6, NothingToRead, SMTT(30) DEF CollectInv, StorageSound, Main, Handler
<1>11. CASE Signal \/ NestedSignal
  <2>1. /\ pc \in SignalAt \cup NestedAt /\ pc' = "h_collect" /\ list' = <<>>
        /\ storage' = storage /\ input' = input /\ xapi' = xapi /\ file' = file
    BY <1>11, Zenon DEF Signal, NestedSignal, disk
  <2>2. pc \notin Collecting
    BY <2>1, Zenon DEF QuietCollection, Collecting, Main, Handler
  <2>3. storage'.iter = 0
    BY <2>1, <2>2, Zenon DEF CollectInv
  <2>4. Gathered(storage', list', {"NV"}, storage'.iter)
    BY <2>1, <2>3, NothingGathered, Zenon
  <2> QED
    BY <1>0, <2>1, <2>3, <2>4, NothingToRead, SMTT(30) DEF CollectInv, StorageSound, Main, Handler
<1>12. CASE Kill
  <2>1. /\ pc' = "down" /\ storage' = EmptyTable /\ list' = <<>> /\ input' = <<>>
        /\ xapi' = xapi /\ file' = file
    BY <1>12, Zenon DEF Kill, disk
  <2>2. storage'.iter = 0
    BY <2>1, Zenon DEF EmptyTable
  <2> QED
    BY <1>0, <2>1, <2>2, EmptyTableOK, NothingToRead, ZenonT(30)
       DEF CollectInv, StorageSound, Distinct, Main, Handler
<1>13. CASE UNCHANGED vars
  BY <1>13, Zenon DEF vars, disk, CollectInv
<1> QED
  BY <1>1, <1>2, <1>3, <1>4, <1>5, <1>6, <1>7, <1>8, <1>9, <1>10, <1>11, <1>12, <1>13
     DEF Next, Step

\* What the slots storage_iter gets to hold, in the words of Gathered.
LEMMA WhatIsReached ==
    ASSUME NEW s, TableOK(s)
    PROVE  /\ Contents(s) = EntriesAt(s, Passed(s, {}, MaxVarCount - 1))
           /\ NonVolatile(s) = EntriesAt(s, Passed(s, {"NV"}, MaxVarCount - 1))
<1>1. Contents(s) = EntriesAt(s, Reached(s)) /\ Passed(s, {}, MaxVarCount - 1) = Reached(s)
  BY Zenon DEF Contents, EntriesAt, Reached, Passed
<1>2. Passed(s, {"NV"}, MaxVarCount - 1) = {i \in Reached(s) : "NV" \in s.slots[i].attrs}
  BY Zenon DEF Reached, Passed
<1>3. \A i : Entry(s.slots[i])[3] = s.slots[i].attrs
  BY Zenon DEF Entry
<1> QED
  BY <1>1, <1>2, <1>3, SMTT(30) DEF NonVolatile, EntriesAt

\* At every state of the invariant the list about to be sent is complete.
LEMMA CollectImplies == PlainNames /\ CollectInv => ListComplete
<1> SUFFICES ASSUME PlainNames, CollectInv, pc \in {"send", "h_send"}
             PROVE  /\ Entries(list) = NonVolatile(storage)
                    /\ Len(list) = Cardinality(Entries(list))
  BY Zenon DEF ListComplete
<1>1. Gathered(storage, list, {"NV"}, MaxVarCount - 1) /\ TableOK(storage)
  BY Zenon DEF CollectInv
<1> QED
  BY <1>1, WhatIsReached, Zenon DEF Gathered

\* The list that is sent to XAPI has every non-volatile variable the iteration
\* gets to, and each once, as long as no signal arrives while variables are
\* collected and the guest counts no terminators.
THEOREM ListsComplete ==
    ASSUME PlainNames, QuietCollection
    PROVE  Spec => []ListComplete
<1>1. Init => CollectInv
  BY CollectInit, Zenon
<1>2. CollectInv /\ [Next]_vars => CollectInv'
  BY CollectStep, Zenon
<1>3. CollectInv => ListComplete
  BY CollectImplies, Zenon
<1> QED
  BY <1>1, <1>2, <1>3, PTL DEF Spec

-----------------------------------------------------------------------------
(***************************************************************************)
(* The save file                                                           *)
(***************************************************************************)
\* Nor does one come once the table is cleared: the handler would save that.
QuietEnd == "h_end" \notin NestedAt

Saving == {"h_collect", "h_send", "h_open", "h_gather", "h_write"}

\* The file has the variables of the moment the signal came.
FileIsFrozen ==
    LET d == from_bytes_to_vars(file)
    IN  IF frozen = {} THEN file = <<>> ELSE d.ok /\ Entries(d.list) = frozen

SaveInv ==
    /\ pc \in Saving => frozen = Contents(storage)
    /\ ended = "saved" => pc \in {"h_end", "down"} /\ FileIsFrozen

\* A process that has not ended as saved while it runs stays so.
LEMMA NotSavedYet ==
    ASSUME SaveInv, pc \notin {"h_end", "down"}, ended' = ended
    PROVE  ended' # "saved"
BY Zenon DEF SaveInv

\* Every step keeps the invariant.
LEMMA SaveStep ==
    ASSUME QuietEnd, CollectInv, SaveInv, [Next]_vars
    PROVE  SaveInv'
<1> USE PersistenceAssumption
<1>0. StorageSound
  BY Zenon DEF CollectInv, StorageSound
<1>1. CASE Load
  <2>1. /\ pc = "load" /\ ended' = ended
        /\ \/ pc' = "load"
           \/ pc' = "h_collect" /\ frozen' = Contents(storage')
    BY <1>1, Zenon DEF Load
  <2> QED
    BY <2>1, NotSavedYet, Zenon DEF SaveInv, Saving
<1>2. CASE Loaded
  <2>1. pc = "load" /\ pc' = "collect" /\ ended' = ended
    BY <1>2, Zenon DEF Loaded
  <2> QED
    BY <2>1, NotSavedYet, Zenon DEF SaveInv, Saving
<1>3. ASSUME NEW wanted, NEW here, NEW next, Iterate(wanted, here, next), here # next,
             here \notin {"h_end", "down"}, next \in Saving => here \in Saving,
             here \in Saving => next \in Saving,
             Gathered(storage, list, wanted, storage.iter)
      PROVE  SaveInv'
  <2>1. pc = here /\ ended' = ended /\ frozen' = frozen
    BY <1>3, Zenon DEF Iterate, ghosts
  <2>2. storage'.slots = storage.slots /\ pc' \in {here, next}
    BY <1>0, <1>3, IterateStep, Zenon
  <2>3. Contents(storage') = Contents(storage)
    BY <2>2, Zenon DEF Contents, Reached, Occupied
  <2>4. ended' # "saved"
    BY <1>3, <2>1, NotSavedYet, Zenon
  <2> QED
    BY <1>3, <2>1, <2>2, <2>3, <2>4, Zenon DEF SaveInv
<1>4. CASE retrieve_nonvolatile_vars
  <2>1. CASE Iterate({"NV"}, "collect", "send")
    <3>1. Gathered(storage, list, {"NV"}, storage.iter)
      BY <2>1, Zenon DEF Iterate, CollectInv
    <3> QED
      BY <1>3, <2>1, <3>1 DEF Saving
  <2>2. CASE Iterate({"NV"}, "h_collect", "h_send")
    <3>1. Gathered(storage, list, {"NV"}, storage.iter)
      BY <2>2, ZenonT(30) DEF Iterate, CollectInv
    <3> QED
      BY <1>3, <2>2, <3>1 DEF Saving
  <2> QED
    BY <1>4, <2>1, <2>2, Zenon DEF retrieve_nonvolatile_vars
<1>5. CASE retrieve_vars
  <2>1. Iterate({}, "h_gather", "h_write") /\ Gathered(storage, list, {}, storage.iter)
    BY <1>5, ZenonT(30) DEF retrieve_vars, Iterate, CollectInv
  <2> QED
    BY <1>3, <2>1, Zenon DEF Saving
<1>6. CASE \E ok \in PushAnswers : SendList(ok)
  <2>1. /\ pc \in {"send", "h_send"} /\ pc' = (IF pc = "send" THEN "idle" ELSE "h_open")
        /\ storage' = storage /\ ended' = ended /\ frozen' = frozen
    BY <1>6, Zenon DEF SendList
  <2>2. ended' # "saved"
    BY <2>1, NotSavedYet, Zenon
  <2> QED
    BY <2>1, <2>2, Zenon DEF SaveInv, Saving
<1>7. CASE \E room \in DiskSpace : WriteFile(room)
  <2>1. PICK room \in DiskSpace : WriteFile(room)
    BY <1>7, Zenon
  <2> DEFINE bytes == IF list = <<>> THEN <<>> ELSE serialize_variable_list(list)
  <2>2. /\ pc = "h_write" /\ pc' = "h_end" /\ frozen' = frozen
        /\ ended' = "saved" => file' = bytes
    BY <2>1, Zenon DEF WriteFile, ghosts
  <2>3. /\ Gathered(storage, list, {}, MaxVarCount - 1) /\ TableOK(storage)
        /\ frozen = Contents(storage)
    BY <2>2, Zenon DEF CollectInv, SaveInv, Saving
  <2>4. frozen = Entries(list) /\ Sane(list)
    BY <2>3, WhatIsReached, Zenon DEF Gathered
  <2>5. CASE list = <<>>
    <3>1. frozen = {} /\ bytes = <<>>
      BY <2>4, <2>5 DEF Entries
    <3> HIDE DEF bytes
    <3> QED
      BY <2>2, <3>1, Zenon DEF SaveInv, FileIsFrozen, Saving
  <2>6. CASE list # <<>>
    <3>1. 1 \in DOMAIN list
      BY <2>4, <2>6 DEF Sane
    <3>2. frozen # {}
      BY <2>4, <3>1, Zenon DEF Entries
    <3>3. from_bytes_to_vars(bytes) = Decoded(TRUE, list)
      BY <2>3, <2>6, ListFits, RoundTrip, ZenonT(30)
    <3> HIDE DEF bytes
    <3>4. from_bytes_to_vars(bytes).ok = TRUE /\ from_bytes_to_vars(bytes).list = list
      BY <3>3 DEF Decoded
    <3>5. ended' = "saved" => FileIsFrozen'
      BY <2>2, <2>4, <3>2, <3>4, Zenon DEF FileIsFrozen
    <3> QED
      BY <2>2, <3>5, Zenon DEF SaveInv, Saving
  <2> QED
    BY <2>5, <2>6, Zenon
<1>8. CASE OpenFile
  <2>1. /\ pc = "h_open" /\ frozen' = frozen
        /\ \/ pc' = "h_gather" /\ storage' = storage /\ ended' = ended
           \/ pc' = "h_end" /\ ended' = "unsaved"
    BY <1>8, Zenon DEF OpenFile, ghosts
  <2>2. ended' # "saved"
    BY <2>1, NotSavedYet, Zenon
  <2> QED
    BY <2>1, <2>2, Zenon DEF SaveInv, Saving
<1>9. CASE Exit
  <2>1. pc = "h_end" /\ pc' = "down" /\ ended' = ended /\ frozen' = frozen /\ file' = file
    BY <1>9, Zenon DEF Exit, disk, ghosts
  <2> QED
    BY <2>1, Zenon DEF SaveInv, FileIsFrozen, Saving
<1>10. CASE \E resume \in BOOLEAN, ok \in PullAnswers : Start(resume, ok)
  <2>1. pc' \in {"load", "down"} /\ ended' \in {"resumed", "started"}
    BY <1>10, Zenon DEF Start
  <2> QED
    BY <2>1, Zenon DEF SaveInv, Saving
<1>11. CASE \E w \in Writes : SetVariable(w.name, w.data, w.attrs)
  <2>1. pc = "idle" /\ pc' \in {"idle", "collect"} /\ ended' = ended
    BY <1>11, Zenon DEF SetVariable
  <2> QED
    BY <2>1, NotSavedYet, Zenon DEF SaveInv, Saving
<1>12. CASE Signal
  <2>1. /\ pc \in Main /\ pc' = "h_collect" /\ ended' = ended /\ storage' = storage
        /\ frozen' = Contents(storage)
    BY <1>12, Zenon DEF Signal
  <2>2. ended' # "saved"
    BY <2>1, NotSavedYet, Zenon DEF Main
  <2> QED
    BY <2>1, <2>2, Zenon DEF SaveInv, Saving
<1>13. CASE NestedSignal
  <2>1. /\ pc \in Saving /\ pc' = "h_collect" /\ ended' = ended /\ storage' = storage
        /\ frozen' = frozen
    BY <1>13, Zenon DEF NestedSignal, ghosts, Saving, Handler, QuietEnd
  <2>2. ended' # "saved"
    BY <2>1, NotSavedYet, Zenon DEF Saving
  <2> QED
    BY <2>1, <2>2, Zenon DEF SaveInv, Saving
<1>14. CASE Kill
  BY <1>14, Zenon DEF Kill, SaveInv, Saving
<1>15. CASE UNCHANGED vars
  BY <1>15, Zenon DEF vars, disk, ghosts, SaveInv, FileIsFrozen
<1> QED
  BY <1>1, <1>2, <1>4, <1>5, <1>6, <1>7, <1>8, <1>9, <1>10, <1>11, <1>12, <1>13, <1>14, <1>15
     DEF Next, Step

\* A handler that had room for its file leaves one with the variables of the
\* moment the first signal came, whatever the guest wrote, whatever XAPI did and
\* wherever else the handler was entered again.
THEOREM SavesUsable ==
    ASSUME QuietCollection, QuietEnd
    PROVE  Spec => []SaveUsable
<1>1. Init => CollectInv /\ SaveInv
  BY CollectInit, Zenon DEF Init, SaveInv, Saving
<1>2. CollectInv /\ SaveInv /\ [Next]_vars => CollectInv' /\ SaveInv'
  BY CollectStep, SaveStep, Zenon
<1>3. CollectInv /\ SaveInv => SaveUsable
  BY Zenon DEF SaveInv, FileIsFrozen, SaveUsable
<1> QED
  BY <1>1, <1>2, <1>3, PTL DEF Spec

\* No write creates a variable without attributes.  storage_set takes the
\* append attribute off, so one that has no other would; at the next resume
\* storage_set takes its attributes, 0, for a deletion.
WritesHaveAttributes == \A w \in Writes : w.attrs # {"AP"}

-----------------------------------------------------------------------------
(***************************************************************************)
(* Lists that can be loaded                                                *)
(***************************************************************************)
Storable(s) ==
    \A i \in Occupied(s) : s.slots[i].attrs # {} /\ NameSize[s.slots[i].key] <= MaxNameSize

Restorable(l) ==
    /\ Sane(l) /\ Len(l) <= MaxVarCount - 1
    /\ \A j \in DOMAIN l : Loadable(l[j])
    /\ \A i, j \in DOMAIN l : l[i].key = l[j].key => i = j

\* What is kept in XAPI or in the file.
Kept(b) == Restorable(from_bytes_to_vars(b).list)

\* A list with as many variables as different entries has none twice.
LEMMA NoneTwice ==
    ASSUME NEW l, Sane(l), IsFiniteSet(Entries(l)), Len(l) = Cardinality(Entries(l)),
           NEW i \in DOMAIN l, NEW j \in DOMAIN l, Entry(l[i]) = Entry(l[j])
    PROVE  i = j
<1> DEFINE n == Len(l)
           f == [k \in 1 .. n |-> Entry(l[k])]
<1>1. n \in Nat /\ DOMAIN l = 1 .. n
  BY DEF Sane
<1>2. f \in Surjection(1 .. n, Entries(l))
  BY <1>1, ZenonT(30) DEF Surjection, Entries
<1>3. IsFiniteSet(1 .. n) /\ Cardinality(1 .. n) = n
  <2>1. 1 \in Int /\ n \in Int
    BY <1>1
  <2>2. IsFiniteSet(1 .. n) /\ Cardinality(1 .. n) = IF 1 > n THEN 0 ELSE n - 1 + 1
    BY <2>1, FS_Interval, ZenonT(30)
  <2> QED
    BY <1>1, <2>2
<1>4. f[i] = f[j] /\ i \in 1 .. n /\ j \in 1 .. n /\ DOMAIN f = 1 .. n
  BY <1>1, Zenon
<1> HIDE DEF f
<1>5. f \in Injection(1 .. n, Entries(l))
  BY <1>2, <1>3, FS_Surjection, Zenon
<1> QED
  BY <1>4, <1>5, Zenon DEF Injection, IsInjective

\* What is collected from a table can be loaded again.
LEMMA GatheredRestorable ==
    ASSUME PlainNames, NEW s, TableOK(s), Distinct(s), Storable(s), NEW l, NEW wanted,
           Gathered(s, l, wanted, MaxVarCount - 1)
    PROVE  Restorable(l)
<1>1. Sane(l) /\ Len(l) <= MaxVarCount - 1
  BY Zenon DEF Gathered
<1>2. ASSUME NEW j \in DOMAIN l
      PROVE  \E i \in Occupied(s) : Entry(l[j]) = Entry(s.slots[i])
  <2>1. Entry(l[j]) \in EntriesAt(s, Passed(s, wanted, MaxVarCount - 1))
    BY Zenon DEF Gathered, Entries
  <2> QED
    BY <2>1, Zenon DEF EntriesAt, Passed
<1>3. \A v, w : Entry(v) = Entry(w) => v.key = w.key /\ v.data = w.data /\ v.attrs = w.attrs
  BY Zenon DEF Entry
<1>4. ASSUME NEW j \in DOMAIN l PROVE Loadable(l[j])
  <2>1. PICK i \in Occupied(s) : Entry(l[j]) = Entry(s.slots[i])
    BY <1>2, Zenon
  <2>2. l[j].key = s.slots[i].key /\ l[j].data = s.slots[i].data /\ l[j].attrs = s.slots[i].attrs
    BY <1>3, <2>1, Zenon
  <2>3. i \in Slots /\ variable_is_valid(s.slots[i]) /\ SlotOK(s.slots[i])
    BY Zenon DEF Occupied, TableOK
  <2>4. Len(s.slots[i].data) \in 1 .. MaxDataSize /\ "AP" \notin s.slots[i].attrs
    BY <2>3, Zenon DEF SlotOK
  <2>5. Len(s.slots[i].data) <= MaxDataSize
    BY <2>4
  <2>6. Listed(l[j])
    BY <1>1, Zenon DEF Sane
  <2> QED
    BY <2>2, <2>4, <2>5, <2>6, Zenon DEF Loadable, Storable
<1>5. ASSUME NEW i \in DOMAIN l, NEW j \in DOMAIN l, l[i].key = l[j].key
      PROVE  i = j
  <2>1. PICK a \in Occupied(s) : Entry(l[i]) = Entry(s.slots[a])
    BY <1>2, Zenon
  <2>2. PICK b \in Occupied(s) : Entry(l[j]) = Entry(s.slots[b])
    BY <1>2, Zenon
  <2>3. s.slots[a].key = s.slots[b].key
    BY <1>3, <1>5, <2>1, <2>2, Zenon
  <2>4. Entry(l[i]) = Entry(l[j])
    BY <2>1, <2>2, <2>3, Zenon DEF Distinct, KeysDiffer
  <2> QED
    BY <2>4, NoneTwice, Zenon DEF Gathered
<1> QED
  BY <1>1, <1>4, <1>5, Zenon DEF Restorable

\* An empty list can be loaded, and no bytes are read as one.
LEMMA NothingKept == Restorable(<<>>) /\ Kept(<<>>)
<1>1. from_bytes_to_vars(<<>>).list = <<>>
  BY Zenon DEF from_bytes_to_vars, Decoded
<1>2. Sane(<<>>) /\ Len(<<>>) = 0 /\ DOMAIN <<>> = {}
  BY DEF Sane
<1>3. Restorable(<<>>)
  BY <1>2, LimitsAssumption DEF Restorable
<1> QED
  BY <1>1, <1>3, Zenon DEF Kept

\* What is written of such a list is kept, cut or not.
LEMMA WrittenKept ==
    ASSUME NEW l, Restorable(l), NEW b,
           \/ b = serialize_variable_list(l)
           \/ \E room \in Nat : /\ room < Len(serialize_variable_list(l))
                                /\ b = SubSeq(serialize_variable_list(l), 1, room)
    PROVE  Kept(b)
<1> DEFINE whole == serialize_variable_list(l)
<1>1. /\ Sane(l) /\ Len(l) <= MaxVarCount
  BY LimitsAssumption DEF Restorable, Sane
<1>2. Len(whole) = 1 + 3 * Len(l)
  BY <1>1, FieldsOf, Zenon
<1>3. CASE b = whole
  <2>1. from_bytes_to_vars(b).list = l
    BY <1>1, <1>3, RoundTrip DEF Decoded
  <2> QED
    BY <2>1, Zenon DEF Kept
<1>4. ASSUME NEW room \in Nat, room < Len(whole), b = SubSeq(whole, 1, room)
      PROVE  Kept(b)
  <2>1. from_bytes_to_vars(b).ok = FALSE
    BY <1>1, <1>2, <1>4, CutIsRefused, ZenonT(30)
  <2> QED
    BY <2>1, NotDecoded, NothingKept, ZenonT(30) DEF Kept
<1> QED
  BY <1>3, <1>4, Zenon

-----------------------------------------------------------------------------
(***************************************************************************)
(* Loading one variable                                                    *)
(***************************************************************************)
\* What the table holds then.
LEMMA PlacedEffect ==
    ASSUME NEW s, NEW t, NEW v, Loadable(v), NEW m \in Nat, Ready(s, m, v),
           Placed(s, t, m, v), Storable(s)
    PROVE  /\ Occupied(t) = 0 .. m
           /\ Storable(t)
           /\ Contents(t) = Contents(s) \cup {Entry(v)}
<1>1. m \in Slots /\ m < MaxVarCount - 1 /\ MaxVarCount \in Nat /\ Occupied(s) = 0 .. m - 1
  BY LimitsAssumption DEF Ready, Slots
<1>2. v.key # NoKey
  BY KeysAssumption, Zenon DEF Loadable, Listed
<1>3. Occupied(t) = Occupied(s) \cup {m}
  BY <1>1, <1>2, ZenonT(30) DEF Occupied, variable_is_valid, Placed
<1>4. Occupied(t) = 0 .. m
  BY <1>1, <1>3
<1>5. \A i \in Occupied(s) : i # m /\ i \in Slots /\ t.slots[i] = s.slots[i]
  BY <1>1 DEF Placed, Occupied
<1>6. Storable(t)
  BY <1>3, <1>5, Zenon DEF Storable, Placed, Loadable
<1>7. Reached(t) = Occupied(t) /\ Reached(s) = Occupied(s)
  BY <1>1, <1>4 DEF Reached
<1>8. Entry(t.slots[m]) = Entry(v)
  BY Zenon DEF Entry, Placed
<1>9. Contents(t) = Contents(s) \cup {Entry(v)}
  BY <1>3, <1>5, <1>7, <1>8 DEF Contents
<1> QED
  BY <1>4, <1>6, <1>9, Zenon

-----------------------------------------------------------------------------
(***************************************************************************)
(* Writing a variable                                                      *)
(***************************************************************************)
\* A write with attributes leaves variables that can be loaded again.
LEMMA SetStorable ==
    ASSUME NEW s, TableOK(s), Storable(s), NEW k \in Keys, NEW data \in Seq(Atoms),
           NEW attrs \in SUBSET Attrs, attrs # {"AP"}
    PROVE  Storable(storage_set(s, Plain(k), data, attrs).s)
<1> DEFINE t == storage_set(s, Plain(k), data, attrs).s
<1>1. \A i \in Slots : t.slots[i] = s.slots[i] \/ Touched(s.slots[i], t.slots[i], k, attrs)
  BY SetEffect, Zenon
<1> HIDE DEF t
<1>2. ASSUME NEW i \in Occupied(t)
      PROVE  t.slots[i].attrs # {} /\ NameSize[t.slots[i].key] <= MaxNameSize
  <2>1. i \in Slots /\ t.slots[i].key # NoKey
    BY Zenon DEF Occupied, variable_is_valid
  <2>2. CASE t.slots[i] = s.slots[i]
    BY <2>1, <2>2, ZenonT(30) DEF Storable, Occupied, variable_is_valid
  <2>3. CASE Touched(s.slots[i], t.slots[i], k, attrs)
    BY <2>1, <2>3, Zenon DEF Touched
  <2> QED
    BY <1>1, <2>1, <2>2, <2>3, ZenonT(30)
<1> QED
  BY <1>2, ZenonT(30) DEF Storable, t

\* What is stored under other keys stays where it is.
LEMMA OthersStay ==
    ASSUME NEW s, TableOK(s), NEW k \in Keys, NEW data \in Seq(Atoms), NEW attrs \in SUBSET Attrs,
           NEW e \in NonVolatile(s), e[1] # k
    PROVE  e \in NonVolatile(storage_set(s, Plain(k), data, attrs).s)
<1> DEFINE t == storage_set(s, Plain(k), data, attrs).s
<1>1. \A i \in Slots : t.slots[i] = s.slots[i] \/ Touched(s.slots[i], t.slots[i], k, attrs)
  BY SetEffect, Zenon
<1> HIDE DEF t
<1>2. PICK i \in Reached(s) : e = Entry(s.slots[i])
  BY Zenon DEF NonVolatile, Contents
<1>3. i \in Slots /\ s.slots[i].key # NoKey /\ i < MaxVarCount - 1 /\ e[1] = s.slots[i].key
  BY <1>2, Zenon DEF Reached, Occupied, variable_is_valid, Entry
<1>4. t.slots[i] = s.slots[i]
  BY <1>1, <1>3, Zenon DEF Touched
<1>5. i \in Reached(t)
  BY <1>3, <1>4, ZenonT(30) DEF Reached, Occupied, variable_is_valid
<1>6. e \in Contents(t)
  BY <1>2, <1>4, <1>5, Zenon DEF Contents
<1> QED
  BY <1>6, Zenon DEF NonVolatile, t

-----------------------------------------------------------------------------
(***************************************************************************)
(* The start                                                               *)
(***************************************************************************)
\* The table is filled from the front, and what is still to come fits in and
\* is not there yet.
Filling(s, l) ==
    \E m \in Nat : /\ Occupied(s) = 0 .. m - 1
                   /\ m + Len(l) <= MaxVarCount - 1
                   /\ \A i \in Occupied(s), j \in DOMAIN l : s.slots[i].key # l[j].key

RestoreInv ==
    /\ CollectInv
    /\ Storable(storage) /\ Restorable(input) /\ Kept(xapi) /\ Kept(file)
    /\ pc = "load" => Filling(storage, input)

\* A step of the loop in xapi_init.
LEMMA LoadOne ==
    ASSUME NEW s, TableOK(s), Storable(s), NEW l, Restorable(l), l # <<>>, Filling(s, l)
    PROVE  LET r == RestoreVariable(s, Head(l))
           IN  /\ r.st = "SUCCESS" /\ Storable(r.s) /\ Restorable(Tail(l))
               /\ Filling(r.s, Tail(l))
               /\ Contents(r.s) = Contents(s) \cup {Entry(Head(l))}
               /\ Entries(l) = {Entry(Head(l))} \cup Entries(Tail(l))
<1> DEFINE v == Head(l)
           r == RestoreVariable(s, v)
<1>1. PICK m \in Nat : /\ Occupied(s) = 0 .. m - 1
                       /\ m + Len(l) <= MaxVarCount - 1
                       /\ \A i \in Occupied(s), j \in DOMAIN l : s.slots[i].key # l[j].key
  BY Zenon DEF Filling
<1>2. /\ l \in Seq(Variable) /\ Len(l) \in Nat /\ Len(l) > 0 /\ DOMAIN l = 1 .. Len(l)
      /\ Len(l) <= MaxVarCount - 1 /\ MaxVarCount \in Nat
  BY LimitsAssumption DEF Restorable, Sane
<1>3. v = l[1] /\ 1 \in DOMAIN l
  BY <1>2
<1>4. /\ DOMAIN Tail(l) = 1 .. Len(l) - 1 /\ Len(Tail(l)) = Len(l) - 1
      /\ \A j \in 1 .. Len(l) - 1 : Tail(l)[j] = l[j + 1]
  BY <1>2
<1>5. Loadable(v) /\ Sane(Tail(l))
  BY <1>3, HeadAndTail, Zenon DEF Restorable
<1>6. Ready(s, m, v)
  BY <1>1, <1>2, <1>3 DEF Ready
<1> HIDE DEF v
<1>7. r.st = "SUCCESS" /\ Placed(s, r.s, m, v)
  BY <1>5, <1>6, RestorePlaces, Zenon
<1> HIDE DEF r
<1>8. Occupied(r.s) = 0 .. m /\ Storable(r.s) /\ Contents(r.s) = Contents(s) \cup {Entry(v)}
  BY <1>5, <1>6, <1>7, PlacedEffect, Zenon
<1>9. \A j \in DOMAIN Tail(l) : j + 1 \in DOMAIN l /\ j \in Nat /\ Tail(l)[j] = l[j + 1]
  BY <1>2, <1>4
<1>10. Restorable(Tail(l))
  <2>1. \A j \in DOMAIN Tail(l) : Loadable(Tail(l)[j])
    BY <1>9, Zenon DEF Restorable
  <2>2. ASSUME NEW i \in DOMAIN Tail(l), NEW j \in DOMAIN Tail(l), Tail(l)[i].key = Tail(l)[j].key
        PROVE  i = j
    <3>1. i + 1 = j + 1
      BY <1>9, <2>2, Zenon DEF Restorable
    <3> QED
      BY <1>9, <3>1
  <2>3. Len(Tail(l)) <= MaxVarCount - 1
    BY <1>2, <1>4
  <2> QED
    BY <1>5, <2>1, <2>2, <2>3, ZenonT(30) DEF Restorable
<1>11. Filling(r.s, Tail(l))
  <2>1. Occupied(r.s) = 0 .. (m + 1) - 1
    BY <1>8
  <2>2. (m + 1) + Len(Tail(l)) <= MaxVarCount - 1
    BY <1>1, <1>2, <1>4
  <2>3. ASSUME NEW i \in Occupied(r.s), NEW j \in DOMAIN Tail(l)
        PROVE  r.s.slots[i].key # Tail(l)[j].key
    <3>1. Tail(l)[j] = l[j + 1] /\ j + 1 \in DOMAIN l /\ j + 1 # 1
      BY <1>4, <1>9
    <3>2. CASE i = m
      <4>1. r.s.slots[i].key = l[1].key
        BY <1>3, <1>7, <3>2, Zenon DEF Placed
      <4> QED
        BY <1>3, <3>1, <4>1, Zenon DEF Restorable
    <3>3. CASE i # m
      <4>1. i \in Occupied(s) /\ i \in Slots
        BY <1>1, <1>8, <3>3 DEF Occupied
      <4>2. r.s.slots[i] = s.slots[i]
        BY <1>7, <3>3, <4>1, Zenon DEF Placed
      <4> QED
        BY <1>1, <3>1, <4>1, <4>2, ZenonT(30)
    <3> QED
      BY <3>2, <3>3, Zenon
  <2> QED
    BY <2>1, <2>2, <2>3 DEF Filling
<1>12. Entries(l) = {Entry(v)} \cup Entries(Tail(l))
  <2>1. ASSUME NEW i \in DOMAIN l PROVE Entry(l[i]) \in {Entry(v)} \cup Entries(Tail(l))
    <3>1. CASE i = 1
      BY <1>3, <3>1, Zenon
    <3>2. CASE i # 1
      <4>1. i - 1 \in DOMAIN Tail(l) /\ Tail(l)[i - 1] = l[i]
        BY <1>2, <1>4, <3>2
      <4> QED
        BY <4>1, Zenon DEF Entries
    <3> QED
      BY <3>1, <3>2, Zenon
  <2>2. Entries(Tail(l)) \subseteq Entries(l)
    BY <1>9, Zenon DEF Entries
  <2>3. Entry(v) \in Entries(l)
    BY <1>3, Zenon DEF Entries
  <2>4. Entries(l) \subseteq {Entry(v)} \cup Entries(Tail(l))
    BY <2>1, Zenon DEF Entries
  <2> QED
    BY <2>2, <2>3, <2>4, Zenon
<1> QED
  BY <1>7, <1>8, <1>10, <1>11, <1>12, Zenon DEF r, v

\* An empty table can be filled with any list that was kept.
LEMMA FillingStarts ==
    /\ Storable(EmptyTable) /\ Contents(EmptyTable) = {}
    /\ \A l : Restorable(l) => Filling(EmptyTable, l)
<1>1. Occupied(EmptyTable) = {}
  BY Zenon DEF Occupied, EmptyTable, variable_is_valid, FreeSlot
<1>2. 0 .. 0 - 1 = {}
  OBVIOUS
<1>3. ASSUME NEW l, Restorable(l) PROVE Filling(EmptyTable, l)
  <2>1. 0 + Len(l) <= MaxVarCount - 1
    BY <1>3 DEF Restorable, Sane
  <2>2. 0 \in Nat
    BY Zenon
  <2> QED
    BY <1>1, <1>2, <2>1, <2>2, Zenon DEF Filling
<1>4. Storable(EmptyTable) /\ Contents(EmptyTable) = {}
  BY <1>1, Zenon DEF Storable, Contents, Reached
<1> QED
  BY <1>3, <1>4, Zenon

\* Clearing the table leaves none that could not be loaded.
LEMMA DestroyStorable == ASSUME NEW s PROVE Storable(storage_destroy(s))
<1>1. storage_destroy(s).slots = EmptyTable.slots
  BY Zenon DEF storage_destroy, EmptyTable
<1>2. Occupied(storage_destroy(s)) = {}
  BY <1>1 DEF Occupied, EmptyTable, variable_is_valid, FreeSlot
<1> QED
  BY <1>2, Zenon DEF Storable

\* The invariant holds before the first start.
LEMMA RestoreInit == Init => RestoreInv
<1> SUFFICES ASSUME Init PROVE RestoreInv
  BY Zenon
<1> QED
  BY CollectInit, NothingKept, FillingStarts, Zenon DEF Init, RestoreInv

\* Every step keeps it.
LEMMA RestoreStep ==
    ASSUME PlainNames, QuietCollection, WritesHaveAttributes, RestoreInv, [Next]_vars
    PROVE  RestoreInv'
<1>0. CollectInv' /\ CollectInv /\ TableOK(storage) /\ Distinct(storage)
  BY CollectStep, ZenonT(30) DEF RestoreInv, CollectInv
<1>a. ASSUME Storable(storage'), input' = input, Kept(xapi'), Kept(file'),
             pc' # "load"
      PROVE  RestoreInv'
  BY <1>0, <1>a, Zenon DEF RestoreInv
<1>1. CASE Load
  <2>1. /\ pc = "load" /\ input # <<>> /\ input' = Tail(input) /\ xapi' = xapi /\ file' = file
        /\ storage' = RestoreVariable(storage, Head(input)).s
    BY <1>1, Zenon DEF Load, disk
  <2>2. /\ Storable(storage') /\ Restorable(input') /\ Filling(storage', input')
    BY <1>0, <2>1, LoadOne, Zenon DEF RestoreInv
  <2> QED
    BY <1>0, <2>1, <2>2, Zenon DEF RestoreInv
<1>2. CASE Loaded
  BY <1>2, <1>a, Zenon DEF Loaded, disk, RestoreInv
<1>3. ASSUME NEW wanted, NEW here, NEW next, Iterate(wanted, here, next), here # next,
             here # "load", next # "load", Gathered(storage, list, wanted, storage.iter)
      PROVE  RestoreInv'
  <2>1. StorageSound
    BY <1>0, Zenon DEF CollectInv, StorageSound
  <2>2. storage'.slots = storage.slots /\ pc' \in {here, next}
    BY <1>3, <2>1, IterateStep, Zenon
  <2>3. Storable(storage')
    BY <2>2, Zenon DEF RestoreInv, Storable, Occupied
  <2>4. input' = input /\ xapi' = xapi /\ file' = file
    BY <1>3, Zenon DEF Iterate, disk
  <2> QED
    BY <1>3, <1>a, <2>2, <2>3, <2>4, Zenon DEF RestoreInv
<1>4. CASE retrieve_nonvolatile_vars \/ retrieve_vars
  <2>1. CASE Iterate({"NV"}, "collect", "send")
    <3>1. Gathered(storage, list, {"NV"}, storage.iter)
      BY <1>0, <2>1, ZenonT(30) DEF Iterate, CollectInv
    <3> QED
      BY <1>3, <2>1, <3>1, Zenon
  <2>2. CASE Iterate({"NV"}, "h_collect", "h_send")
    <3>1. Gathered(storage, list, {"NV"}, storage.iter)
      BY <1>0, <2>2, ZenonT(30) DEF Iterate, CollectInv
    <3> QED
      BY <1>3, <2>2, <3>1, Zenon
  <2>3. CASE Iterate({}, "h_gather", "h_write")
    <3>1. Gathered(storage, list, {}, storage.iter)
      BY <1>0, <2>3, ZenonT(30) DEF Iterate, CollectInv
    <3> QED
      BY <1>3, <2>3, <3>1, Zenon
  <2> QED
    BY <1>4, <2>1, <2>2, <2>3, Zenon DEF retrieve_nonvolatile_vars, retrieve_vars
<1>5. CASE \E ok \in PushAnswers : SendList(ok)
  <2>1. PICK ok \in PushAnswers : SendList(ok)
    BY <1>5, Zenon
  <2>2. /\ pc \in {"send", "h_send"} /\ pc' \in {"idle", "h_open"}
        /\ xapi' \in {serialize_variable_list(list), xapi}
        /\ storage' = storage /\ input' = input /\ file' = file
    BY <2>1, Zenon DEF SendList
  <2>3. Restorable(list)
    BY <1>0, <2>2, GatheredRestorable, ZenonT(30) DEF CollectInv, RestoreInv
  <2>4. Kept(xapi')
    BY <2>2, <2>3, WrittenKept, Zenon DEF RestoreInv
  <2> QED
    BY <1>a, <2>2, <2>4, Zenon DEF RestoreInv
<1>6. CASE \E room \in DiskSpace : WriteFile(room)
  <2>1. PICK room \in DiskSpace : WriteFile(room)
    BY <1>6, Zenon
  <2> DEFINE whole == serialize_variable_list(list)
  <2>2. /\ pc = "h_write" /\ pc' = "h_end" /\ input' = input /\ xapi' = xapi
        /\ storage' = storage_destroy(storage) /\ room \in Nat
    BY <2>1, PersistenceAssumption, Zenon DEF WriteFile
  <2>3. \/ file' = <<>>
        \/ file' = whole
        \/ room < Len(whole) /\ file' = SubSeq(whole, 1, room)
    <3>1. CASE list = <<>>
      <4>1. file' = <<>> \/ room < Len(<<>>)
        BY <2>1, <3>1, Zenon DEF WriteFile
      <4> QED
        BY <2>2, <4>1
    <3>2. CASE list # <<>>
      BY <2>1, <3>2, Zenon DEF WriteFile
    <3> QED
      BY <3>1, <3>2, Zenon
  <2>4. Restorable(list)
    BY <1>0, <2>2, GatheredRestorable, ZenonT(30) DEF CollectInv, RestoreInv
  <2> HIDE DEF whole
  <2>5. Kept(file')
    <3>1. CASE file' = <<>>
      BY <3>1, NothingKept, Zenon
    <3>2. CASE file' = whole
      BY <2>4, <3>2, WrittenKept, Zenon DEF whole
    <3>3. CASE room < Len(whole) /\ file' = SubSeq(whole, 1, room)
      BY <2>2, <2>4, <3>3, WrittenKept, ZenonT(30) DEF whole
    <3> QED
      BY <2>3, <3>1, <3>2, <3>3, Zenon
  <2>6. Storable(storage')
    BY <2>2, DestroyStorable, Zenon
  <2> QED
    BY <1>a, <2>2, <2>5, <2>6, Zenon DEF RestoreInv
<1>7. CASE OpenFile
  <2>1. /\ input' = input /\ xapi' = xapi /\ pc' \in {"h_gather", "h_end"}
        /\ storage' \in {storage, storage_destroy(storage)} /\ file' \in {<<>>, file}
    BY <1>7, Zenon DEF OpenFile
  <2>2. Storable(storage')
    BY <2>1, DestroyStorable, Zenon DEF RestoreInv
  <2>3. Kept(file')
    BY <2>1, NothingKept, Zenon DEF RestoreInv
  <2> QED
    BY <1>a, <2>1, <2>2, <2>3, ZenonT(30) DEF RestoreInv
<1>8. CASE Exit \/ Signal \/ NestedSignal
  <2>1. /\ storage' = storage /\ input' = input /\ xapi' = xapi /\ file' = file /\ pc' # "load"
    BY <1>8, Zenon DEF Exit, Signal, NestedSignal, disk
  <2> QED
    BY <1>a, <2>1, Zenon DEF RestoreInv
<1>9. CASE \E resume \in BOOLEAN, ok \in PullAnswers : Start(resume, ok)
  <2>1. PICK resume \in BOOLEAN, ok \in PullAnswers : Start(resume, ok)
    BY <1>9, Zenon
  <2> DEFINE d == IF resume THEN xapi_variables_read_file ELSE xapi_variables_request(ok)
  <2>2. input' = d.list /\ storage' = EmptyTable /\ xapi' = xapi /\ file' = file
    BY <2>1, Zenon DEF Start, disk
  <2>3. d.list \in {<<>>, from_bytes_to_vars(file).list, from_bytes_to_vars(xapi).list}
    BY Zenon DEF xapi_variables_read_file, xapi_variables_request, Decoded
  <2>4. Restorable(input')
    BY <2>2, <2>3, NothingKept, ZenonT(30) DEF RestoreInv, Kept
  <2> HIDE DEF d
  <2> QED
    BY <1>0, <2>2, <2>4, FillingStarts, ZenonT(30) DEF RestoreInv
<1>10. CASE \E w \in Writes : SetVariable(w.name, w.data, w.attrs)
  <2>1. PICK w \in Writes : SetVariable(w.name, w.data, w.attrs)
    BY <1>10, Zenon
  <2>2. /\ storage' = storage_set(storage, w.name, w.data, w.attrs).s
        /\ pc' \in {"idle", "collect"} /\ input' = input /\ xapi' = xapi /\ file' = file
    BY <2>1, ZenonT(30) DEF SetVariable, disk
  <2>3. /\ w.name = Plain(w.name.key) /\ w.name.key \in Keys
        /\ w.data \in Seq(Atoms) /\ w.attrs \in SUBSET Attrs /\ w.attrs # {"AP"}
    BY WriteTypes, Zenon DEF WritesHaveAttributes
  <2>4. Storable(storage')
    BY <1>0, <2>2, <2>3, SetStorable, ZenonT(30) DEF RestoreInv
  <2> QED
    BY <1>a, <2>2, <2>4, ZenonT(30) DEF RestoreInv
<1>11. CASE Kill
  <2>1. /\ pc' = "down" /\ storage' = EmptyTable /\ input' = <<>> /\ xapi' = xapi /\ file' = file
    BY <1>11, Zenon DEF Kill, disk
  <2> QED
    BY <1>0, <2>1, FillingStarts, NothingKept, Zenon DEF RestoreInv
<1>12. CASE UNCHANGED vars
  BY <1>12, <1>0, Zenon DEF vars, disk, RestoreInv
<1> QED
  BY <1>1, <1>2, <1>4, <1>5, <1>6, <1>7, <1>8, <1>9, <1>10, <1>11, <1>12 DEF Next, Step

\* Every variable that was kept can be stored again: the assertion of the loop
\* in xapi_init does not fail, however the process before ended.
THEOREM LoadsSucceed ==
    ASSUME PlainNames, QuietCollection, WritesHaveAttributes
    PROVE  Spec => []AssertionHolds
<1>1. Init => RestoreInv
  BY RestoreInit, Zenon
<1>2. RestoreInv /\ [Next]_vars => RestoreInv'
  BY RestoreStep, Zenon
<1>3. RestoreInv => AssertionHolds
  <2> SUFFICES ASSUME RestoreInv, pc = "load", input # <<>>
               PROVE  RestoreVariable(storage, Head(input)).st = "SUCCESS"
    BY Zenon DEF AssertionHolds
  <2>1. TableOK(storage)
    BY Zenon DEF RestoreInv, CollectInv
  <2> QED
    BY <2>1, LoadOne, Zenon DEF RestoreInv
<1> QED
  BY <1>1, <1>2, <1>3, PTL DEF Spec

-----------------------------------------------------------------------------
(***************************************************************************)
(* The resumed guest                                                       *)
(***************************************************************************)
\* What a resumed guest is to find.
Resumable == IF FileTooLarge THEN {} ELSE frozen

\* What is loaded and what is still to come are what was saved, or nothing; a
\* file that was cut is not read, and one that is still open is empty.
ResumeInv ==
    /\ ended = "resumed" /\ pc = "load" => Contents(storage) \cup Entries(input) = Resumable
    /\ ended = "short" => pc \in {"h_end", "down"} /\ from_bytes_to_vars(file).ok = FALSE
    /\ pc \in {"h_gather", "h_write"} => file = <<>>

\* The list of no variables has no entries, and neither do no bytes.
LEMMA NoEntries == /\ Entries(<<>>) = {}
                   /\ Entries(from_bytes_to_vars(<<>>).list) = {}
<1>1. from_bytes_to_vars(<<>>).list = <<>>
  BY DEF from_bytes_to_vars, Decoded
<1>2. DOMAIN <<>> = {}
  OBVIOUS
<1>3. Entries(<<>>) = {}
  BY <1>2, Zenon DEF Entries
<1> QED
  BY <1>1, <1>3, Zenon

\* A start that resumes reads what was frozen, or nothing of a file that is too
\* large, or does not go on.
LEMMA ResumeReads ==
    ASSUME SaveInv, ResumeInv, ended \in {"saved", "short"}, xapi_variables_read_file.ok
    PROVE  /\ Entries(xapi_variables_read_file.list) = Resumable
           /\ ~FileTooLarge => ended = "saved"
<1>1. CASE FileTooLarge
  <2>1. xapi_variables_read_file.list = <<>>
    BY <1>1 DEF xapi_variables_read_file, Decoded
  <2> QED
    BY <1>1, <2>1, NoEntries, Zenon DEF Resumable
<1>2. CASE ~FileTooLarge
  <2>1. xapi_variables_read_file = from_bytes_to_vars(file) /\ Resumable = frozen
    BY <1>2, Zenon DEF xapi_variables_read_file, Resumable
  <2>2. ended = "saved"
    BY <2>1, Zenon DEF ResumeInv
  <2>3. FileIsFrozen
    BY <2>2, Zenon DEF SaveInv
  <2>4. CASE frozen = {}
    <3>1. file = <<>>
      BY <2>3, <2>4, Zenon DEF FileIsFrozen
    <3> QED
      BY <2>1, <2>2, <2>4, <3>1, NoEntries, Zenon
  <2>5. CASE frozen # {}
    BY <2>1, <2>2, <2>3, <2>5, Zenon DEF FileIsFrozen
  <2> QED
    BY <2>4, <2>5, Zenon
<1> QED
  BY <1>1, <1>2, Zenon

\* Every step keeps the invariant.
LEMMA ResumeStep ==
    ASSUME QuietEnd, RestoreInv, SaveInv, ResumeInv, [Next]_vars
    PROVE  ResumeInv'
<1>a. ASSUME pc \notin {"h_end", "down"}, ended' = ended, pc' # "load",
             pc' \in {"h_gather", "h_write"} => file' = <<>>
      PROVE  ResumeInv'
  BY <1>a, Zenon DEF ResumeInv
<1>1. CASE Load
  <2>1. pc = "load" /\ input # <<>> /\ TableOK(storage) /\ Storable(storage)
        /\ Restorable(input) /\ Filling(storage, input)
    BY <1>1, ZenonT(30) DEF Load, RestoreInv, CollectInv
  <2> DEFINE r == RestoreVariable(storage, Head(input))
  <2>2. /\ r.st = "SUCCESS"
        /\ Contents(r.s) = Contents(storage) \cup {Entry(Head(input))}
        /\ Entries(input) = {Entry(Head(input))} \cup Entries(Tail(input))
    BY <2>1, LoadOne, ZenonT(30)
  <2>3. /\ storage' = r.s /\ input' = Tail(input) /\ ended' = ended /\ file' = file
        /\ r.st = "SUCCESS" => pc' = pc /\ frozen' = frozen
    BY <1>1, Zenon DEF Load, disk
  <2> HIDE DEF r
  <2>4. Contents(storage') \cup Entries(input') = Contents(storage) \cup Entries(input)
    BY <2>2, <2>3, Zenon
  <2>5. pc' = pc /\ Resumable' = Resumable
    BY <2>2, <2>3, Zenon DEF Resumable, FileTooLarge
  <2> QED
    BY <2>1, <2>3, <2>4, <2>5, Zenon DEF ResumeInv
<1>2. CASE Loaded
  BY <1>2, <1>a, Zenon DEF Loaded
<1>3. CASE retrieve_nonvolatile_vars \/ retrieve_vars
  <2>1. /\ pc \in {"collect", "h_collect", "h_gather"} /\ ended' = ended
        /\ pc' \in {"collect", "send", "h_collect", "h_send", "h_gather", "h_write"}
        /\ pc' \in {"h_gather", "h_write"} => pc = "h_gather"
        /\ file' = file
    BY <1>3, Zenon DEF retrieve_nonvolatile_vars, retrieve_vars, Iterate, disk
  <2> QED
    BY <1>a, <2>1, Zenon DEF ResumeInv
<1>4. CASE \E ok \in PushAnswers : SendList(ok)
  <2>1. pc \in {"send", "h_send"} /\ ended' = ended /\ pc' \in {"idle", "h_open"}
    BY <1>4, Zenon DEF SendList
  <2> QED
    BY <1>a, <2>1, Zenon
<1>5. CASE \E room \in DiskSpace : WriteFile(room)
  <2>1. PICK room \in DiskSpace : WriteFile(room)
    BY <1>5, Zenon
  <2> DEFINE whole == serialize_variable_list(list)
  <2>2. /\ pc = "h_write" /\ pc' = "h_end" /\ ended' \in {"saved", "short"} /\ room \in Nat
        /\ ended' = "short" => \/ list = <<>> /\ room < Len(<<>>)
                               \/ room < Len(whole) /\ file' = SubSeq(whole, 1, room)
    BY <2>1, PersistenceAssumption, Zenon DEF WriteFile
  <2>3. Sane(list) /\ Len(list) <= MaxVarCount
    BY <2>2, ListFits, ZenonT(30) DEF RestoreInv, CollectInv
  <2>4. room < Len(whole) => from_bytes_to_vars(SubSeq(whole, 1, room)).ok = FALSE
    <3>1. Len(whole) = 1 + 3 * Len(list)
      BY <2>3, FieldsOf, Zenon
    <3> QED
      BY <2>2, <2>3, <3>1, CutIsRefused, ZenonT(30)
  <2> HIDE DEF whole
  <2>5. ~(room < Len(<<>>))
    BY <2>2
  <2>6. ended' = "short" => from_bytes_to_vars(file').ok = FALSE
    BY <2>2, <2>4, <2>5, Zenon
  <2> QED
    BY <2>2, <2>6, Zenon DEF ResumeInv
<1>6. CASE OpenFile
  <2>1. /\ pc = "h_open" /\ pc' \in {"h_gather", "h_end"}
        /\ ended' \in {ended, "unsaved"} /\ (pc' = "h_gather" => file' = <<>>)
    BY <1>6, Zenon DEF OpenFile
  <2> QED
    BY <2>1, Zenon DEF ResumeInv
<1>7. CASE Exit
  <2>1. pc = "h_end" /\ pc' = "down" /\ ended' = ended /\ file' = file
    BY <1>7, Zenon DEF Exit, disk
  <2> QED
    BY <2>1, Zenon DEF ResumeInv
<1>8. CASE \E resume \in BOOLEAN, ok \in PullAnswers : Start(resume, ok)
  <2>1. PICK resume \in BOOLEAN, ok \in PullAnswers : Start(resume, ok)
    BY <1>8, Zenon
  <2>2. CASE resume
    <3>1. /\ ended \in {"saved", "short"} /\ ended' = "resumed" /\ frozen' = frozen
          /\ pc' = (IF xapi_variables_read_file.ok THEN "load" ELSE "down")
          /\ input' = xapi_variables_read_file.list /\ storage' = EmptyTable
          /\ file' = file
      BY <2>1, <2>2, Zenon DEF Start, disk
    <3>2. pc' = "load" => Entries(input') = Resumable'
      BY <3>1, ResumeReads, Zenon DEF Resumable, FileTooLarge
    <3> QED
      BY <3>1, <3>2, FillingStarts, Zenon DEF ResumeInv
  <2>3. CASE ~resume
    <3>1. ended' = "started" /\ pc' \in {"load", "down"}
      BY <2>1, <2>3, Zenon DEF Start
    <3> QED
      BY <3>1, Zenon DEF ResumeInv
  <2> QED
    BY <2>2, <2>3, Zenon
<1>9. CASE \E w \in Writes : SetVariable(w.name, w.data, w.attrs)
  <2>1. pc = "idle" /\ pc' \in {"idle", "collect"} /\ ended' = ended
    BY <1>9, ZenonT(30) DEF SetVariable
  <2> QED
    BY <1>a, <2>1, Zenon
<1>10. CASE Signal \/ NestedSignal
  <2>1. /\ pc \notin {"h_end", "down"} /\ pc' = "h_collect" /\ ended' = ended
    BY <1>10, PersistenceAssumption, Zenon DEF Signal, NestedSignal, QuietEnd, Main, Handler
  <2> QED
    BY <1>a, <2>1, Zenon
<1>11. CASE Kill
  <2>1. /\ pc' = "down" /\ file' = file /\ ended' \in {"short", "killed"}
        /\ ended' = "short" => pc \in {"h_gather", "h_write"}
    BY <1>11, Zenon DEF Kill, disk
  <2>2. from_bytes_to_vars(<<>>).ok = FALSE
    BY DEF from_bytes_to_vars, Decoded
  <2> QED
    BY <2>1, <2>2, Zenon DEF ResumeInv
<1>12. CASE UNCHANGED vars
  BY <1>12, Zenon DEF vars, disk, ghosts, ResumeInv, Resumable, FileTooLarge
<1> QED
  BY <1>1, <1>2, <1>3, <1>4, <1>5, <1>6, <1>7, <1>8, <1>9, <1>10, <1>11, <1>12 DEF Next, Step

\* A guest that is resumed has the variables it was suspended with, the
\* volatile ones included, or is not resumed; only when their file is over the
\* limit of the reader does it have none, whatever that limit is.
THEOREM ResumesRestore ==
    ASSUME PlainNames, QuietCollection, QuietEnd, WritesHaveAttributes
    PROVE  Spec => []ResumeRestores
<1> DEFINE Inv == RestoreInv /\ SaveInv /\ ResumeInv
<1>1. Init => Inv
  BY RestoreInit, ZenonT(30) DEF Init, SaveInv, ResumeInv, Saving
<1>2. Inv /\ [Next]_vars => Inv'
  <2> SUFFICES ASSUME Inv, [Next]_vars PROVE Inv'
    BY Zenon
  <2>1. RestoreInv'
    BY RestoreStep, Zenon
  <2>2. SaveInv'
    BY SaveStep, Zenon DEF RestoreInv
  <2>3. ResumeInv'
    BY ResumeStep, Zenon
  <2> QED
    BY <2>1, <2>2, <2>3, Zenon
<1>3. Inv => ResumeRestores
  BY NoEntries, ZenonT(30) DEF ResumeInv, ResumeRestores, Resumable
<1> QED
  BY <1>1, <1>2, <1>3, PTL DEF Spec

-----------------------------------------------------------------------------
(***************************************************************************)
(* What the guest was told                                                 *)
(***************************************************************************)
\* The start reads what XAPI has, and completes.
QuietStart == FALSE \notin PullAnswers /\ "load" \notin SignalAt

\* What may be promised, what is, and where it is.
Promise(e) == "NV" \in e[3] /\ e[1] \in Keys
Promised == Without(inflight)
InXapi == Entries(from_bytes_to_vars(xapi).list)
Holding == {"idle", "collect", "send"} \cup Saving

\* The promises are in XAPI, and wherever the next push may come from.
DurableInv ==
    /\ \A e \in answered : Promise(e)
    /\ pc \in {"idle", "load"} => inflight = NoKey
    /\ Promised \subseteq InXapi
    /\ pc \in Holding => Promised \subseteq NonVolatile(storage)
    /\ pc = "load" => Promised \subseteq NonVolatile(storage) \cup Entries(input)
    /\ ended = "saved" => Promised \subseteq frozen

\* What the table holds are promises that can be made.
LEMMA HeldPromise ==
    ASSUME NEW s, TableOK(s)
    PROVE  \A e \in NonVolatile(s) : Promise(e)
<1> SUFFICES ASSUME NEW e \in NonVolatile(s) PROVE Promise(e)
  BY Zenon
<1>1. PICK i \in Reached(s) : e = Entry(s.slots[i])
  BY Zenon DEF NonVolatile, Contents
<1>2. i \in Slots /\ s.slots[i].key # NoKey /\ s.slots[i] \in Variable
  BY Zenon DEF Reached, Occupied, variable_is_valid, TableOK, Table
<1>3. e[1] = s.slots[i].key /\ s.slots[i].key \in Keys
  BY <1>1, <1>2, ZenonT(30) DEF Entry, Variable
<1> QED
  BY <1>3, Zenon DEF NonVolatile, Promise

\* A step that leaves the promises, the table and XAPI alone.
LEMMA DurableStays ==
    ASSUME DurableInv, answered' = answered, inflight' = inflight, xapi' = xapi,
           pc' \in Holding => pc \in Holding /\ storage'.slots = storage.slots,
           pc' # "load", pc' = "idle" => pc = "idle",
           ended' = "saved" => ended = "saved" /\ frozen' = frozen
    PROVE  DurableInv'
<1>1. Promised' = Promised /\ InXapi' = InXapi
  BY ZenonT(30) DEF Promised, Without, InXapi
<1>2. pc' \in Holding => NonVolatile(storage') = NonVolatile(storage)
  BY Zenon DEF NonVolatile, Contents, Reached, Occupied
<1> QED
  BY <1>1, <1>2, Zenon DEF DurableInv

\* Every step keeps the invariant.
LEMMA DurableStep ==
    ASSUME PlainNames, QuietCollection, QuietEnd, QuietStart,
           RestoreInv, SaveInv, ResumeInv, DurableInv, [Next]_vars
    PROVE  DurableInv'
<1>0. /\ TableOK(storage) /\ Storable(storage) /\ Restorable(input)
      /\ pc = "load" => Filling(storage, input)
  BY Zenon DEF RestoreInv, CollectInv
<1>1. CASE Load
  <2>1. pc = "load" /\ input # <<>> /\ Filling(storage, input)
    BY <1>0, <1>1, Zenon DEF Load
  <2> DEFINE r == RestoreVariable(storage, Head(input))
  <2>2. /\ r.st = "SUCCESS"
        /\ Contents(r.s) = Contents(storage) \cup {Entry(Head(input))}
        /\ Entries(input) = {Entry(Head(input))} \cup Entries(Tail(input))
    BY <1>0, <2>1, LoadOne, ZenonT(30)
  <2>3. /\ storage' = r.s /\ input' = Tail(input) /\ ended' = ended /\ xapi' = xapi
        /\ inflight' = inflight /\ answered' = answered
        /\ r.st = "SUCCESS" => pc' = pc
    BY <1>1, Zenon DEF Load, disk
  <2> HIDE DEF r
  <2>4. ended' # "saved" /\ pc' = "load"
    BY <2>1, <2>2, <2>3, NotSavedYet, ZenonT(30)
  <2>5. Promised' = Promised /\ InXapi' = InXapi
    BY <2>3, Zenon DEF Promised, Without, InXapi
  <2>6. ASSUME NEW e \in Promised PROVE e \in NonVolatile(storage') \cup Entries(input')
    <3>1. e \in NonVolatile(storage) \cup Entries(input) /\ "NV" \in e[3]
      BY <2>1, Zenon DEF DurableInv, Promised, Without, Promise
    <3>2. e \in Contents(storage') \cup Entries(input')
      BY <2>2, <2>3, <3>1, ZenonT(30) DEF NonVolatile
    <3> QED
      BY <3>1, <3>2, ZenonT(30) DEF NonVolatile
  <2> QED
    BY <2>1, <2>3, <2>4, <2>5, <2>6, Zenon DEF DurableInv, Holding, Saving
<1>2. CASE Loaded
  <2>1. /\ pc = "load" /\ input = <<>> /\ pc' = "collect" /\ storage' = storage /\ xapi' = xapi
        /\ ended' = ended /\ inflight' = inflight /\ answered' = answered
    BY <1>2, Zenon DEF Loaded, disk
  <2>2. Promised' = Promised /\ InXapi' = InXapi
    BY <2>1, Zenon DEF Promised, Without, InXapi
  <2>3. Promised \subseteq NonVolatile(storage)
    BY <2>1, NoEntries, ZenonT(30) DEF DurableInv
  <2>4. ended' # "saved"
    BY <2>1, NotSavedYet, Zenon
  <2> QED
    BY <2>1, <2>2, <2>3, <2>4, Zenon DEF DurableInv
<1>3. ASSUME NEW wanted, NEW here, NEW next, Iterate(wanted, here, next), here # next,
             here \in Holding, {here, next} \cap {"load", "idle"} = {},
             Gathered(storage, list, wanted, storage.iter)
      PROVE  DurableInv'
  <2>1. StorageSound
    BY ZenonT(30) DEF RestoreInv, CollectInv, StorageSound
  <2>2. storage'.slots = storage.slots /\ pc' \in {here, next}
    BY <1>3, <2>1, IterateStep, Zenon
  <2>3. /\ pc = here /\ ended' = ended /\ xapi' = xapi
        /\ inflight' = inflight /\ answered' = answered /\ frozen' = frozen
    BY <1>3, ZenonT(30) DEF Iterate, disk, ghosts
  <2>4. pc \in Holding /\ pc' # "load" /\ pc' # "idle"
    BY <1>3, <2>2, <2>3, ZenonT(30)
  <2> QED
    BY <2>2, <2>3, <2>4, DurableStays, ZenonT(30)
<1>4. CASE retrieve_nonvolatile_vars \/ retrieve_vars
  <2>1. CASE Iterate({"NV"}, "collect", "send")
    <3>1. Gathered(storage, list, {"NV"}, storage.iter)
      BY <2>1, ZenonT(30) DEF Iterate, RestoreInv, CollectInv
    <3> QED
      BY <1>3, <2>1, <3>1, Zenon DEF Holding, Saving
  <2>2. CASE Iterate({"NV"}, "h_collect", "h_send")
    <3>1. Gathered(storage, list, {"NV"}, storage.iter)
      BY <2>2, ZenonT(30) DEF Iterate, RestoreInv, CollectInv
    <3> QED
      BY <1>3, <2>2, <3>1, Zenon DEF Holding, Saving
  <2>3. CASE Iterate({}, "h_gather", "h_write")
    <3>1. Gathered(storage, list, {}, storage.iter)
      BY <2>3, ZenonT(30) DEF Iterate, RestoreInv, CollectInv
    <3> QED
      BY <1>3, <2>3, <3>1, Zenon DEF Holding, Saving
  <2> QED
    BY <1>4, <2>1, <2>2, <2>3, Zenon DEF retrieve_nonvolatile_vars, retrieve_vars
<1>5. CASE \E ok \in PushAnswers : SendList(ok)
  <2>1. PICK ok \in PushAnswers : SendList(ok)
    BY <1>5, Zenon
  <2>2. /\ pc \in {"send", "h_send"} /\ storage' = storage /\ ended' = ended
        /\ pc' = (IF pc = "send" THEN "idle" ELSE "h_open")
        /\ xapi' = (IF ok /\ list # <<>> THEN serialize_variable_list(list) ELSE xapi)
    BY <2>1, Zenon DEF SendList
  <2>3. Gathered(storage, list, {"NV"}, MaxVarCount - 1)
    BY <2>2, ZenonT(30) DEF RestoreInv, CollectInv
  <2>4. Entries(list) = NonVolatile(storage)
    BY <1>0, <2>3, WhatIsReached, Zenon DEF Gathered
  <2>5. Promised \subseteq NonVolatile(storage) /\ Promised \subseteq InXapi
    BY <2>2, ZenonT(30) DEF DurableInv, Holding, Saving
  <2>6. InXapi' = IF ok /\ list # <<>> THEN NonVolatile(storage) ELSE InXapi
    <3>1. CASE ok /\ list # <<>>
      <4>1. from_bytes_to_vars(serialize_variable_list(list)) = Decoded(TRUE, list)
        BY <2>3, <3>1, ListFits, RoundTrip, ZenonT(30)
      <4>2. from_bytes_to_vars(xapi').list = list
        BY <2>2, <3>1, <4>1 DEF Decoded
      <4> QED
        BY <2>4, <3>1, <4>2, Zenon DEF InXapi
    <3>2. CASE ~(ok /\ list # <<>>)
      BY <2>2, <3>2, Zenon DEF InXapi
    <3> QED
      BY <3>1, <3>2, Zenon
  <2>7. ended' # "saved"
    BY <2>2, NotSavedYet, Zenon
  <2>8. CASE pc = "send"
    <3>1. /\ inflight' = NoKey
          /\ answered' = Promised \cup (IF ok THEN NonVolatile(storage) ELSE {})
      BY <2>1, <2>8, Zenon DEF SendList, Told, Promised
    <3>2. \A e \in answered' : Promise(e)
      BY <1>0, <3>1, HeldPromise, ZenonT(30) DEF DurableInv, Promised, Without
    <3>3. Promised' \subseteq answered'
      BY Zenon DEF Promised, Without
    <3>4. answered' \subseteq NonVolatile(storage)
      BY <2>5, <3>1, Zenon
    <3>5. answered' \subseteq InXapi'
      <4>1. CASE ok /\ list # <<>>
        BY <2>6, <3>4, <4>1, Zenon
      <4>2. CASE ok /\ list = <<>>
        BY <2>4, <3>4, <4>2, NoEntries, ZenonT(30)
      <4>3. CASE ~ok
        BY <2>5, <2>6, <3>1, <4>3, Zenon
      <4> QED
        BY <4>1, <4>2, <4>3, Zenon
    <3>6. Promised' \subseteq InXapi' /\ Promised' \subseteq NonVolatile(storage')
      BY <2>2, <3>3, <3>4, <3>5, Zenon
    <3> QED
      BY <2>2, <2>7, <2>8, <3>1, <3>2, <3>6, Zenon DEF DurableInv
  <2>9. CASE pc = "h_send"
    <3>1. inflight' = inflight /\ answered' = answered /\ pc' = "h_open"
      BY <2>1, <2>9, Zenon DEF SendList
    <3>2. Promised' = Promised
      BY <3>1, Zenon DEF Promised, Without
    <3>3. Promised \subseteq InXapi'
      BY <2>5, <2>6, Zenon
    <3> QED
      BY <2>2, <2>5, <2>7, <3>1, <3>2, <3>3, ZenonT(30) DEF DurableInv
  <2> QED
    BY <2>2, <2>8, <2>9, Zenon
<1>6. CASE \E room \in DiskSpace : WriteFile(room)
  <2>1. /\ pc = "h_write" /\ pc' = "h_end" /\ xapi' = xapi
        /\ inflight' = inflight /\ answered' = answered /\ frozen' = frozen
    BY <1>6, Zenon DEF WriteFile, ghosts
  <2>2. Promised' = Promised /\ InXapi' = InXapi
    BY <2>1, Zenon DEF Promised, Without, InXapi
  <2>3. Promised \subseteq NonVolatile(storage) /\ frozen = Contents(storage)
    BY <2>1, ZenonT(30) DEF DurableInv, SaveInv, Holding, Saving
  <2>4. Promised \subseteq frozen
    BY <2>3, Zenon DEF NonVolatile
  <2> QED
    BY <2>1, <2>2, <2>4, Zenon DEF DurableInv, Holding, Saving
<1>7. CASE OpenFile
  <2>1. /\ pc = "h_open" /\ xapi' = xapi
        /\ inflight' = inflight /\ answered' = answered /\ frozen' = frozen
        /\ \/ pc' = "h_gather" /\ storage' = storage /\ ended' = ended
           \/ pc' = "h_end" /\ ended' = "unsaved"
    BY <1>7, Zenon DEF OpenFile, ghosts
  <2>2. pc' # "load" /\ pc' # "idle"
    BY <2>1, Zenon
  <2>3. ended' = "saved" => ended = "saved" /\ frozen' = frozen
    BY <2>1, Zenon
  <2>4. pc' \in Holding => pc \in Holding /\ storage'.slots = storage.slots
    BY <2>1, Zenon DEF Holding, Saving
  <2> QED
    BY <2>1, <2>2, <2>3, <2>4, DurableStays, Zenon
<1>8. CASE Exit
  <2>1. /\ pc' = "down" /\ xapi' = xapi /\ ended' = ended
        /\ inflight' = inflight /\ answered' = answered /\ frozen' = frozen
    BY <1>8, Zenon DEF Exit, disk, ghosts
  <2> QED
    BY <2>1, DurableStays, ZenonT(30) DEF Holding, Saving
<1>9. CASE \E resume \in BOOLEAN, ok \in PullAnswers : Start(resume, ok)
  <2>1. PICK resume \in BOOLEAN, ok \in PullAnswers : Start(resume, ok)
    BY <1>9, Zenon
  <2> DEFINE d == IF resume THEN xapi_variables_read_file ELSE xapi_variables_request(ok)
  <2>2. /\ pc' = (IF d.ok THEN "load" ELSE "down") /\ input' = d.list /\ xapi' = xapi
        /\ inflight' = NoKey
        /\ answered' = (IF resume /\ FileTooLarge THEN {} ELSE Promised)
        /\ ended' \in {"resumed", "started"}
        /\ resume => ended \in {"saved", "short"}
    BY <2>1, ZenonT(30) DEF Start, disk, Promised
  <2>3. /\ Promised' \subseteq answered' /\ answered' \subseteq Promised
        /\ InXapi' = InXapi
    BY <2>2, ZenonT(30) DEF Promised, Without, InXapi
  <2>4. \A e \in answered' : Promise(e)
    BY <2>2, ZenonT(30) DEF DurableInv, Promised, Without
  <2>5. ASSUME d.ok PROVE answered' \subseteq Entries(d.list)
    <3>0. CASE resume /\ FileTooLarge
      BY <2>2, <3>0, Zenon
    <3>a. answered' \subseteq Promised
      BY <2>2, Zenon
    <3>1. CASE resume /\ ~FileTooLarge
      <4>1. d = xapi_variables_read_file /\ d.ok
        BY <2>5, <3>1, Zenon
      <4>2. ended \in {"saved", "short"} /\ xapi_variables_read_file.ok
        BY <2>2, <3>1, <4>1, Zenon
      <4>3. ended = "saved" /\ Entries(xapi_variables_read_file.list) = frozen
        BY <3>1, <4>2, ResumeReads, Zenon DEF Resumable
      <4> QED
        BY <3>a, <4>1, <4>3, Zenon DEF DurableInv
    <3>2. CASE ~resume /\ xapi # <<>>
      <4>1. ok = TRUE
        BY PersistenceAssumption, ZenonT(30) DEF QuietStart
      <4>2. d = from_bytes_to_vars(xapi)
        BY <3>2, <4>1, Zenon DEF xapi_variables_request
      <4> QED
        BY <3>a, <4>2, ZenonT(30) DEF DurableInv, InXapi
    <3>3. CASE xapi = <<>>
      BY <3>a, <3>3, NoEntries, ZenonT(30) DEF DurableInv, InXapi
    <3> QED
      BY <3>0, <3>1, <3>2, <3>3, Zenon
  <2> HIDE DEF d
  <2>6. pc' = "load" => Promised' \subseteq Entries(input')
    BY <2>2, <2>3, <2>5, Zenon
  <2>7. Promised' \subseteq InXapi'
    BY <2>3, Zenon DEF DurableInv
  <2>8. pc' \notin Holding /\ ended' # "saved"
    <3>1. pc' \in {"load", "down"} /\ ended' \in {"resumed", "started"}
      BY <2>2, Zenon
    <3> QED
      BY <3>1, Zenon DEF Holding, Saving
  <2> QED
    BY <2>2, <2>4, <2>6, <2>7, <2>8, Zenon DEF DurableInv
<1>10. CASE \E w \in Writes : SetVariable(w.name, w.data, w.attrs)
  <2>1. PICK w \in Writes : SetVariable(w.name, w.data, w.attrs)
    BY <1>10, Zenon
  <2> DEFINE k == w.name.key
             r == storage_set(storage, Plain(k), w.data, w.attrs)
  <2>2. /\ k \in Keys /\ w.data \in Seq(Atoms) /\ w.attrs \in SUBSET Attrs
        /\ w.name = Plain(k)
    BY WriteTypes, Zenon
  <2>3. /\ pc = "idle" /\ storage' = r.s /\ xapi' = xapi /\ ended' = ended
        /\ pc' \in {"idle", "collect"}
        /\ \/ inflight' = k /\ answered' = answered /\ pc' = "collect"
           \/ /\ inflight' = inflight /\ pc' = pc
              /\ answered' = IF r.st = "SUCCESS" THEN Without(k) ELSE answered
    BY <2>1, <2>2, Zenon DEF SetVariable, disk
  <2> HIDE DEF k
  <2>4. /\ \A e \in NonVolatile(storage) : e[1] # k => e \in NonVolatile(r.s)
        /\ r.st # "SUCCESS" => r.s = storage
    BY <1>0, <2>2, OthersStay, SetEffect, ZenonT(30)
  <2>5. inflight = NoKey /\ Promised = answered
    BY <2>3, KeysAssumption, ZenonT(30) DEF DurableInv, Promised, Without, Promise
  <2>6. answered \subseteq NonVolatile(storage) /\ answered \subseteq InXapi
    BY <2>3, <2>5, ZenonT(30) DEF DurableInv, Holding
  <2> HIDE DEF r
  <2>7. Promised' \subseteq answered /\ Promised' \subseteq NonVolatile(storage')
        /\ answered' \subseteq answered
    <3>1. CASE inflight' = k /\ answered' = answered
      BY <2>3, <2>4, <2>6, <3>1, ZenonT(30) DEF Promised, Without
    <3>2. CASE answered' = Without(k)
      BY <2>3, <2>4, <2>6, <3>2, ZenonT(30) DEF Promised, Without
    <3>3. CASE answered' = answered /\ r.st # "SUCCESS"
      BY <2>3, <2>4, <2>6, <3>3, ZenonT(30) DEF Promised, Without
    <3> QED
      BY <2>3, <3>1, <3>2, <3>3, ZenonT(30)
  <2>8. InXapi' = InXapi /\ ended' # "saved"
    BY <2>3, NotSavedYet, ZenonT(30) DEF InXapi
  <2>9. pc' = "idle" => inflight' = NoKey
    BY <2>3, <2>5, Zenon
  <2>10. \A e \in answered' : Promise(e)
    BY <2>7, ZenonT(30) DEF DurableInv
  <2>11. Promised' \subseteq InXapi' /\ pc' # "load"
    BY <2>3, <2>6, <2>7, <2>8, ZenonT(30)
  <2> QED
    BY <2>7, <2>8, <2>9, <2>10, <2>11, Zenon DEF DurableInv
<1>11. CASE Signal \/ NestedSignal
  <2>1. /\ pc \in Holding /\ pc' = "h_collect" /\ xapi' = xapi /\ ended' = ended
        /\ inflight' = inflight /\ answered' = answered /\ storage' = storage
    BY <1>11, PersistenceAssumption, ZenonT(30)
       DEF Signal, NestedSignal, QuietEnd, QuietStart, Main, Handler, disk, ghosts, Holding, Saving
  <2>2. ended' # "saved"
    BY <2>1, NotSavedYet, Zenon DEF Holding, Saving
  <2> QED
    BY <2>1, <2>2, DurableStays, Zenon
<1>12. CASE Kill
  <2>1. /\ pc' = "down" /\ xapi' = xapi /\ ended' \in {"short", "killed"}
        /\ inflight' = inflight /\ answered' = answered
    BY <1>12, Zenon DEF Kill, disk
  <2> QED
    BY <2>1, DurableStays, ZenonT(30) DEF Holding, Saving
<1>13. CASE UNCHANGED vars
  BY <1>13, ZenonT(30) DEF vars, disk, ghosts, DurableInv, Promised, Without, InXapi
<1> QED
  BY <1>1, <1>2, <1>4, <1>5, <1>6, <1>7, <1>8, <1>9, <1>10, <1>11, <1>12, <1>13 DEF Next, Step

\* What the guest was told is stored, and a push has taken, stays in XAPI until
\* the guest writes it again or is resumed from a file that is too large:
\* through writes of other variables, signals, kills, restarts, resumes and
\* pushes that fail.
THEOREM PushesDurable ==
    ASSUME PlainNames, QuietCollection, QuietEnd, QuietStart, WritesHaveAttributes
    PROVE  Spec => []Durable
<1> DEFINE Inv == RestoreInv /\ SaveInv /\ ResumeInv /\ DurableInv
<1>1. Init => Inv
  <2> SUFFICES ASSUME Init PROVE Inv
    BY Zenon
  <2>1. Promised = {} /\ answered = {}
    BY Zenon DEF Init, Promised, Without
  <2>2. SaveInv /\ ResumeInv /\ DurableInv
    BY <2>1, ZenonT(30) DEF Init, SaveInv, ResumeInv, DurableInv, Saving, Holding
  <2> QED
    BY <2>2, RestoreInit, Zenon
<1>2. Inv /\ [Next]_vars => Inv'
  <2> SUFFICES ASSUME Inv, [Next]_vars PROVE Inv'
    BY Zenon
  <2>1. RestoreInv'
    BY RestoreStep, Zenon
  <2>2. SaveInv'
    BY SaveStep, Zenon DEF RestoreInv
  <2>3. ResumeInv'
    BY ResumeStep, Zenon
  <2>4. DurableInv'
    BY DurableStep, Zenon
  <2> QED
    BY <2>1, <2>2, <2>3, <2>4, Zenon
<1>3. Inv => Durable
  BY ZenonT(30) DEF DurableInv, Promised, Without, InXapi, Durable
<1> QED
  BY <1>1, <1>2, <1>3, PTL DEF Spec

-----------------------------------------------------------------------------
(***************************************************************************)
(* The types, wherever a signal comes                                      *)
(***************************************************************************)
\* One call of storage_iter from any index: a variable it finds is copied
\* whole and moves the index up.
LEMMA IterMoves ==
    ASSUME NEW s, TableOK(s), Distinct(s)
    PROVE  LET r == storage_iter(s)
           IN  /\ TableOK(r.s) /\ Distinct(r.s)
               /\ r.st = "SUCCESS" => Listed(r.var) /\ r.s.iter >= s.iter + 1
<1> DEFINE rest == {i \in Occupied(s) : i >= s.iter}
           k == Min(rest)
           next == IF rest = {} THEN MaxVarCount ELSE k + 1
           r == storage_iter(s)
<1>1. /\ s.iter \in Nat /\ s.iter <= MaxVarCount - 1 /\ MaxVarCount \in Nat \ {0}
      /\ \A i \in Occupied(s) : i \in Slots /\ i \in Nat /\ i <= MaxVarCount - 1
  BY LimitsAssumption DEF TableOK, Slots, Occupied
<1>2. CASE next >= MaxVarCount
  <2>1. r.st = "NOT_FOUND" /\ r.s = [s EXCEPT !.iter = 0]
    BY <1>2, Zenon DEF storage_iter
  <2>2. 0 \in Slots
    BY LimitsAssumption DEF Slots
  <2> QED
    BY <2>1, <2>2, OnlyIter
<1>3. CASE ~(next >= MaxVarCount)
  <2>1. rest # {} /\ next = k + 1
    BY <1>1, <1>3
  <2>2. k \in rest
    <3>1. rest \in SUBSET Nat
      BY <1>1, Zenon
    <3> HIDE DEF rest
    <3> QED
      BY <2>1, <3>1, MinIsSmallest, Zenon
  <2>3. k \in Occupied(s) /\ k \in Nat /\ k >= s.iter /\ k + 1 < MaxVarCount
    <3>1. k \in Occupied(s) /\ k >= s.iter
      BY <2>2, Zenon
    <3>2. k \in Nat
      BY <1>1, <3>1, Zenon
    <3>3. ~(k + 1 >= MaxVarCount)
      BY <1>3, <2>1, Zenon
    <3> HIDE DEF k
    <3> QED
      BY <1>1, <3>1, <3>2, <3>3
  <2> DEFINE v == s.slots[k]
             w == variable_copy(v)
  <2>4. r.st = "SUCCESS" /\ r.s = [s EXCEPT !.iter = k + 1] /\ r.var = w
    <3>1. next - 1 = k
      BY <2>1, <2>3
    <3>2. r = [st |-> "SUCCESS", s |-> [s EXCEPT !.iter = next],
               var |-> variable_copy(s.slots[next - 1])]
      BY <1>3, Zenon DEF storage_iter
    <3> HIDE DEF next, r, w
    <3> QED
      BY <2>1, <3>1, <3>2, Zenon DEF w
  <2>5. k + 1 \in Slots
    BY <1>1, <2>3 DEF Slots
  <2>6. TableOK(r.s) /\ Distinct(r.s) /\ r.s.iter = k + 1
    BY <2>4, <2>5, OnlyIter
  <2>7. v \in Variable /\ v.key \in Keys /\ v.data # <<>>
    <3> HIDE DEF k
    <3>1. k \in Slots /\ v.key # NoKey
      BY <2>3, Zenon DEF Occupied, variable_is_valid
    <3>2. v \in Variable /\ SlotOK(v)
      BY <3>1, Zenon DEF TableOK, Table
    <3>3. Len(v.data) \in 1 .. MaxDataSize
      BY <3>1, <3>2, Zenon DEF SlotOK, variable_is_valid
    <3>4. v.data # <<>>
      BY <3>3
    <3> QED
      BY <3>1, <3>2, <3>4, Zenon DEF Variable
  <2>8. Listed(w)
    BY <2>7, ZenonT(30) DEF Listed, variable_copy, Variable
  <2>9. k + 1 >= s.iter + 1
    BY <1>1, <2>3
  <2> HIDE DEF r, w, k
  <2> QED
    BY <2>4, <2>6, <2>8, <2>9, Zenon DEF r
<1> QED
  BY <1>2, <1>3, Zenon

\* The inductive invariant.  Wherever a collection began, its list has no more
\* variables than the index has slots behind it, so what is written is within
\* the limit of the decoder.
TypeInv ==
    /\ StorageSound
    /\ pc \in Main \cup Handler \cup {"down"}
    /\ pc = "load" => list = <<>>
    /\ pc \in Collecting => Len(list) <= storage.iter
    /\ pc \in {"send", "h_send", "h_write"} => Len(list) <= MaxVarCount - 1
    /\ xapi # <<>> => from_bytes_to_vars(xapi).ok
    /\ ended \in {"saved", "short", "unsaved", "killed", "resumed", "started"}
    /\ blocked \in 0 .. MaxSignals
    /\ inflight \in Keys \cup {NoKey}

\* A step of a collection leaves a list that the index bounds.
LEMMA IterateTypes ==
    ASSUME TypeInv, NEW wanted, NEW here \in Collecting, NEW next \in Main \cup Handler,
           next \notin Collecting \cup {"load"}, Iterate(wanted, here, next)
    PROVE  TypeInv'
<1> DEFINE r == storage_iter(storage)
           m == IF r.st = "SUCCESS" /\ wanted \subseteq r.var.attrs
                THEN Append(list, r.var) ELSE list
<1>1. /\ pc = here /\ storage' = r.s /\ pc' = (IF r.st = "SUCCESS" THEN here ELSE next)
      /\ list' = m /\ input' = input /\ xapi' = xapi /\ file' = file
      /\ ended' = ended /\ blocked' = blocked /\ inflight' = inflight
  BY Zenon DEF Iterate, disk, ghosts
<1>2. StorageSound /\ Len(list) <= storage.iter
  BY <1>1, Zenon DEF TypeInv
<1>3. /\ TableOK(r.s) /\ Distinct(r.s)
      /\ r.st = "SUCCESS" => Listed(r.var) /\ r.s.iter >= storage.iter + 1
  BY <1>2, IterMoves, Zenon DEF StorageSound
<1>4. /\ storage.iter \in Nat /\ storage.iter <= MaxVarCount - 1 /\ r.s.iter \in Nat
      /\ Len(list) \in Nat
  BY <1>2, <1>3, LimitsAssumption DEF StorageSound, TableOK, Slots, Sane
<1> HIDE DEF r
<1>5. /\ Sane(m)
      /\ r.st = "SUCCESS" => Len(m) <= r.s.iter
      /\ r.st # "SUCCESS" => Len(m) <= MaxVarCount - 1
  <2>1. CASE r.st = "SUCCESS" /\ wanted \subseteq r.var.attrs
    <3>1. m = Append(list, r.var)
      BY <2>1, Zenon
    <3>2. Sane(m) /\ Len(m) = Len(list) + 1
      BY <1>2, <1>3, <2>1, <3>1, AppendEntry, Zenon DEF StorageSound
    <3> HIDE DEF m
    <3> QED
      BY <1>2, <1>3, <1>4, <2>1, <3>2
  <2>2. CASE ~(r.st = "SUCCESS" /\ wanted \subseteq r.var.attrs)
    <3>1. m = list /\ Sane(list)
      BY <1>2, <2>2, Zenon DEF StorageSound
    <3>2. r.st = "SUCCESS" => Len(list) <= r.s.iter
      BY <1>2, <1>3, <1>4
    <3>3. Len(list) <= MaxVarCount - 1
      BY <1>2, <1>4, LimitsAssumption
    <3> HIDE DEF m
    <3> QED
      BY <3>1, <3>2, <3>3, Zenon
  <2> QED
    BY <2>1, <2>2, Zenon
<1> HIDE DEF m
<1>6. StorageSound'
  BY <1>1, <1>2, <1>3, <1>5, Zenon DEF StorageSound
<1>7. /\ pc' \in Main \cup Handler \cup {"down"} /\ pc' # "load"
      /\ pc' \in Collecting => Len(list') <= storage'.iter
      /\ pc' \in {"send", "h_send", "h_write"} => Len(list') <= MaxVarCount - 1
  <2>1. CASE r.st = "SUCCESS"
    <3>1. pc' = here /\ Len(list') <= storage'.iter
      BY <1>1, <1>5, <2>1, Zenon
    <3> QED
      BY <3>1, Zenon DEF Collecting, Main, Handler
  <2>2. CASE r.st # "SUCCESS"
    <3>1. pc' = next /\ Len(list') <= MaxVarCount - 1
      BY <1>1, <1>5, <2>2, Zenon
    <3> QED
      BY <3>1, Zenon DEF Collecting
  <2> QED
    BY <2>1, <2>2, Zenon
<1>8. /\ xapi' # <<>> => from_bytes_to_vars(xapi').ok
      /\ ended' \in {"saved", "short", "unsaved", "killed", "resumed", "started"}
      /\ blocked' \in 0 .. MaxSignals /\ inflight' \in Keys \cup {NoKey}
  BY <1>1, Zenon DEF TypeInv
<1> QED
  BY <1>6, <1>7, <1>8, Zenon DEF TypeInv

\* The invariant holds before the first start.
LEMMA TypeInit == Init => TypeInv
<1> SUFFICES ASSUME Init PROVE TypeInv
  OBVIOUS
<1>1. StorageSound
  BY EmptyTableOK, NothingToRead, Zenon DEF Init, StorageSound, Distinct
<1> QED
  BY <1>1, PersistenceAssumption DEF Init, TypeInv, Collecting, Main, Handler

\* Every step keeps it.
LEMMA TypeStep ==
    ASSUME TypeInv, [Next]_vars
    PROVE  TypeInv'
<1> USE PersistenceAssumption
<1>0. /\ StorageSound /\ storage.iter \in Slots /\ 0 \in 0 .. MaxSignals /\ 1 \in 0 .. MaxSignals
      /\ Len(<<>>) <= storage.iter
  <2>1. StorageSound /\ storage.iter \in Slots
    BY Zenon DEF TypeInv, StorageSound, TableOK
  <2> QED
    BY <2>1 DEF Slots
<1>1. CASE Load
  <2> DEFINE v == Head(input)
             r == RestoreVariable(storage, v)
  <2>1. /\ pc = "load" /\ input # <<>> /\ storage' = r.s /\ input' = Tail(input)
        /\ list' = list /\ xapi' = xapi /\ file' = file
        /\ \/ pc' = "load" /\ blocked' = blocked
           \/ pc' = "h_collect" /\ blocked' = 1
        /\ ended' = ended /\ inflight' = inflight
    BY <1>1, Zenon DEF Load, disk
  <2>2. Listed(v) /\ Sane(input')
    BY <1>0, <2>1, HeadAndTail, Zenon DEF StorageSound
  <2>3. TableOK(r.s) /\ Distinct(r.s) /\ r.s.iter = storage.iter
    BY <1>0, <2>2, RestoreOK, Zenon DEF StorageSound
  <2> HIDE DEF r
  <2>4. StorageSound'
    BY <1>0, <2>1, <2>2, <2>3, Zenon DEF StorageSound
  <2>5. list' = <<>> /\ storage'.iter = storage.iter
    BY <2>1, <2>3, Zenon DEF TypeInv
  <2> QED
    BY <1>0, <2>1, <2>4, <2>5, Zenon DEF TypeInv, Main, Handler
<1>2. CASE Loaded
  <2>1. /\ pc = "load" /\ pc' = "collect" /\ list' = <<>> /\ storage' = storage
        /\ input' = input /\ xapi' = xapi /\ file' = file
        /\ ended' = ended /\ blocked' = blocked /\ inflight' = inflight
    BY <1>2, Zenon DEF Loaded, disk
  <2>2. StorageSound'
    BY <1>0, <2>1, NothingToRead, Zenon DEF StorageSound
  <2> QED
    BY <1>0, <2>1, <2>2, Zenon DEF TypeInv, Main, Handler
<1>3. CASE retrieve_nonvolatile_vars \/ retrieve_vars
  <2>1. /\ {"collect", "h_collect", "h_gather"} = Collecting
        /\ {"send", "h_send", "h_write"} \subseteq Main \cup Handler
        /\ \A next \in {"send", "h_send", "h_write"} : next \notin Collecting \cup {"load"}
    BY Zenon DEF Collecting, Main, Handler
  <2> QED
    BY <1>3, <2>1, IterateTypes, Zenon DEF retrieve_nonvolatile_vars, retrieve_vars
<1>4. CASE \E ok \in PushAnswers : SendList(ok)
  <2>1. PICK ok \in PushAnswers : SendList(ok)
    BY <1>4, Zenon
  <2>2. /\ pc \in {"send", "h_send"} /\ pc' \in {"idle", "h_open"} /\ list' = <<>>
        /\ xapi' \in {serialize_variable_list(list), xapi}
        /\ storage' = storage /\ input' = input /\ file' = file
        /\ ended' = ended /\ blocked' = blocked /\ inflight' \in {NoKey, inflight}
    BY <2>1, Zenon DEF SendList, Told
  <2>3. Sane(list) /\ Len(list) <= MaxVarCount
    <3>1. Sane(list) /\ Len(list) \in Nat /\ Len(list) <= MaxVarCount - 1
      BY <1>0, <2>2 DEF TypeInv, StorageSound, Sane
    <3> QED
      BY <3>1, LimitsAssumption
  <2>4. /\ Readable(serialize_variable_list(list))
        /\ from_bytes_to_vars(serialize_variable_list(list)).ok
    BY <2>3, WrittenReadable, RoundTrip DEF Decoded
  <2>5. Readable(xapi') /\ (xapi' # <<>> => from_bytes_to_vars(xapi').ok)
    BY <1>0, <2>2, <2>4, Zenon DEF TypeInv, StorageSound
  <2>6. StorageSound'
    BY <1>0, <2>2, <2>5, NothingToRead, Zenon DEF StorageSound
  <2> QED
    BY <2>2, <2>5, <2>6, Zenon DEF TypeInv, Main, Handler, Collecting
<1>5. CASE \E room \in DiskSpace : WriteFile(room)
  <2>1. PICK room \in DiskSpace : WriteFile(room)
    BY <1>5, Zenon
  <2> DEFINE whole == serialize_variable_list(list)
  <2>2. /\ pc = "h_write" /\ pc' = "h_end" /\ list' = <<>> /\ input' = input /\ xapi' = xapi
        /\ storage' = storage_destroy(storage) /\ ended' \in {"saved", "short"}
        /\ blocked' = blocked /\ inflight' = inflight /\ room \in Nat
    BY <2>1, Zenon DEF WriteFile, ghosts
  <2>3. \/ file' = <<>>
        \/ file' = whole
        \/ room < Len(whole) /\ file' = SubSeq(whole, 1, room)
    <3>1. CASE list = <<>>
      <4>1. \/ file' = <<>>
            \/ room < Len(<<>>)
        BY <2>1, <3>1, Zenon DEF WriteFile
      <4> QED
        BY <2>2, <4>1
    <3>2. CASE list # <<>>
      BY <2>1, <3>2, Zenon DEF WriteFile
    <3> QED
      BY <3>1, <3>2, Zenon
  <2>4. Sane(list) /\ Len(list) <= MaxVarCount
    <3>1. Sane(list) /\ Len(list) \in Nat /\ Len(list) <= MaxVarCount - 1
      BY <1>0, <2>2 DEF TypeInv, StorageSound, Sane
    <3> QED
      BY <3>1, LimitsAssumption
  <2>5. /\ Readable(whole)
        /\ room < Len(whole) => Readable(SubSeq(whole, 1, room))
    BY <2>2, <2>4, WrittenReadable, Zenon
  <2> HIDE DEF whole
  <2>6. Readable(file')
    BY <2>3, <2>5, NothingToRead, Zenon
  <2>7. TableOK(storage') /\ Distinct(storage')
    BY <1>0, <2>2, DestroyOK, Zenon DEF StorageSound
  <2>8. StorageSound'
    BY <1>0, <2>2, <2>6, <2>7, NothingToRead, Zenon DEF StorageSound
  <2> QED
    BY <2>2, <2>8, Zenon DEF TypeInv, Main, Handler, Collecting
<1>6. CASE OpenFile
  <2>1. /\ pc = "h_open" /\ list' = <<>> /\ input' = input /\ xapi' = xapi
        /\ \/ pc' = "h_gather" /\ file' = <<>> /\ storage' = storage /\ ended' = ended
           \/ /\ pc' = "h_end" /\ storage' = storage_destroy(storage) /\ file' = file
              /\ ended' = "unsaved"
        /\ blocked' = blocked /\ inflight' = inflight
    BY <1>6, Zenon DEF OpenFile, ghosts
  <2>2. TableOK(storage') /\ Distinct(storage') /\ storage'.iter = storage.iter
    BY <1>0, <2>1, DestroyOK, Zenon DEF StorageSound
  <2>3. StorageSound'
    BY <1>0, <2>1, <2>2, NothingToRead, Zenon DEF StorageSound
  <2> QED
    BY <1>0, <2>1, <2>2, <2>3, Zenon DEF TypeInv, Main, Handler, Collecting
<1>7. CASE Exit
  BY <1>7, Zenon DEF Exit, disk, ghosts, TypeInv, StorageSound, Collecting, Main, Handler
<1>8. CASE \E resume \in BOOLEAN, ok \in PullAnswers : Start(resume, ok)
  <2>1. PICK resume \in BOOLEAN, ok \in PullAnswers : Start(resume, ok)
    BY <1>8, Zenon
  <2> DEFINE d == IF resume THEN xapi_variables_read_file ELSE xapi_variables_request(ok)
  <2>2. /\ pc' \in {"load", "down"} /\ input' = d.list /\ storage' = EmptyTable
        /\ list' = <<>> /\ xapi' = xapi /\ file' = file
        /\ ended' \in {"resumed", "started"} /\ blocked' = 0 /\ inflight' = NoKey
    BY <2>1, Zenon DEF Start, disk
  <2>3. d.list \in {<<>>, from_bytes_to_vars(file).list, from_bytes_to_vars(xapi).list}
    BY Zenon DEF xapi_variables_read_file, xapi_variables_request, Decoded
  <2>4. Sane(input')
    BY <1>0, <2>2, <2>3, NothingToRead, Zenon DEF StorageSound, Readable
  <2> HIDE DEF d
  <2>5. StorageSound'
    BY <1>0, <2>2, <2>4, EmptyTableOK, NothingToRead, Zenon DEF StorageSound, Distinct
  <2> QED
    BY <1>0, <2>2, <2>5, Zenon DEF TypeInv, Main, Handler, Collecting
<1>9. CASE \E w \in Writes : SetVariable(w.name, w.data, w.attrs)
  <2>1. PICK w \in Writes : SetVariable(w.name, w.data, w.attrs)
    BY <1>9, Zenon
  <2> DEFINE r == storage_set(storage, w.name, w.data, w.attrs)
  <2>2. /\ pc = "idle" /\ storage' = r.s /\ pc' \in {"idle", "collect"} /\ list' = <<>>
        /\ input' = input /\ xapi' = xapi /\ file' = file
        /\ ended' = ended /\ blocked' = blocked /\ inflight' \in {w.name.key, inflight}
    BY <2>1, Zenon DEF SetVariable, disk
  <2>3. w.name.key \in Keys
    BY WriteTypes, Zenon
  <2>4. TableOK(r.s) /\ Distinct(r.s) /\ r.s.iter = storage.iter
    BY <1>0, WriteTypes, SetKeepsOrder, Zenon DEF StorageSound
  <2> HIDE DEF r
  <2>5. StorageSound'
    BY <1>0, <2>2, <2>4, NothingToRead, Zenon DEF StorageSound
  <2>6. storage'.iter = storage.iter
    BY <2>2, <2>4, Zenon
  <2> QED
    BY <1>0, <2>2, <2>3, <2>5, <2>6, Zenon DEF TypeInv, Main, Handler, Collecting
<1>10. CASE Signal \/ NestedSignal
  <2>1. /\ pc' = "h_collect" /\ list' = <<>>
        /\ storage' = storage /\ input' = input /\ xapi' = xapi /\ file' = file
        /\ ended' = ended /\ inflight' = inflight
        /\ blocked' = 1 \/ (blocked < MaxSignals /\ blocked' = blocked + 1)
    BY <1>10, Zenon DEF Signal, NestedSignal, disk, ghosts
  <2>2. StorageSound'
    BY <1>0, <2>1, NothingToRead, Zenon DEF StorageSound
  <2>3. blocked' \in 0 .. MaxSignals
    BY <1>0, <2>1 DEF TypeInv
  <2> QED
    BY <1>0, <2>1, <2>2, <2>3, Zenon DEF TypeInv, Main, Handler
<1>11. CASE Kill
  <2>1. /\ pc' = "down" /\ storage' = EmptyTable /\ list' = <<>> /\ input' = <<>>
        /\ xapi' = xapi /\ file' = file /\ ended' \in {"short", "killed"} /\ blocked' = 0
        /\ inflight' = inflight
    BY <1>11, Zenon DEF Kill, disk
  <2>2. StorageSound'
    BY <1>0, <2>1, EmptyTableOK, NothingToRead, Zenon DEF StorageSound, Distinct
  <2> QED
    BY <1>0, <2>1, <2>2, Zenon DEF TypeInv, Main, Handler, Collecting
<1>12. CASE UNCHANGED vars
  BY <1>12, Zenon DEF vars, disk, ghosts, TypeInv, StorageSound
<1> QED
  BY <1>1, <1>2, <1>3, <1>4, <1>5, <1>6, <1>7, <1>8, <1>9, <1>10, <1>11, <1>12
     DEF Next, Step

\* The table, the lists, the counters and the ghosts keep their types, and what
\* is in XAPI can be decoded, whatever is written, wherever signals interrupt
\* the process and whichever answers XAPI gives.
THEOREM PersistenceTypes == Spec => []TypeOK
<1>1. TypeInv => TypeOK
  <2> SUFFICES ASSUME TypeInv PROVE TypeOK
    BY Zenon
  <2>1. storage \in Table /\ storage.iter \in Slots
    BY Zenon DEF TypeInv, StorageSound, TableOK
  <2>2. \A l \in {list, input} : \A j \in DOMAIN l : l[j] \in Variable
    BY Zenon DEF TypeInv, StorageSound, Sane, Listed
  <2> QED
    BY <2>1, <2>2, Zenon DEF TypeInv, TypeOK
<1> QED
  BY <1>1, TypeInit, TypeStep, PTL DEF Spec

=============================================================================
