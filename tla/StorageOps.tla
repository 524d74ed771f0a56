----------------------------- MODULE StorageOps -----------------------------
(***************************************************************************)
(* The variable table of uefistored (src/src/storage.c, src/src/variable.c)*)
(* as operators.  Each C function that changes the table is an operator on *)
(* a table value; its result carries the EFI status (field st) and the new *)
(* table (field s), so that the modules above can chain the calls the way  *)
(* the C code does inside one handler.                                     *)
(***************************************************************************)
EXTENDS Integers, Sequences, FiniteSetsExt

CONSTANTS
    Keys,         \* (name, vendor GUID) pairs a caller may use
    NoKey,        \* the all-zero name and GUID of a cleared slot
    NameSize,     \* the size in characters of each name, without terminator
    Atoms,        \* units of variable data
    Certs,        \* signer digests that variable_t.cert may hold
    NoCert,       \* the all-zero digest
    MaxVarCount,  \* MAX_VAR_COUNT
    MaxNameSize,  \* MAX_VARIABLE_NAME_SIZE
    MaxDataSize   \* MAX_VARIABLE_DATA_SIZE

\* config.h multiplies the three limits; it does not add the two sizes.
MaxStorageSize == MaxVarCount * MaxNameSize * MaxDataSize
SlotSize == MaxNameSize + MaxDataSize

\* What config.h fixes: the limits are positive, and the product is so much
\* larger than the slots that a full table stays below it.
ASSUME LimitsAssumption ==
    /\ MaxVarCount \in Nat \ {0}
    /\ MaxNameSize \in Nat \ {0}
    /\ MaxDataSize \in Nat \ {0}
    /\ (MaxVarCount + 1) * SlotSize <= MaxStorageSize

ASSUME KeysAssumption ==
    /\ NoKey \notin Keys
    /\ NameSize \in [Keys -> Nat \ {0}]
    /\ NoCert \notin Certs

Attrs == {"NV", "BS", "RT", "HR", "AW", "AT", "AP"}

Slots == 0 .. MaxVarCount - 1

\* variable_t.  The digest of the signer and the timestamp are only
\* meaningful for authenticated variables.
Variable == [key : Keys \cup {NoKey}, data : Seq(Atoms), attrs : SUBSET Attrs,
             timestamp : Nat, cert : Certs \cup {NoCert}]

\* A slot after variable_destroy_noalloc: all bytes zero.
FreeSlot == [key |-> NoKey, data |-> <<>>, attrs |-> {}, timestamp |-> 0,
             cert |-> NoCert]

variable_is_valid(v) == v.key # NoKey

\* The statics of storage.c; the counters are unsigned.
Table == [slots : [Slots -> Variable], total : Nat, used : Nat, iter : Nat]
EmptyTable == [slots |-> [i \in Slots |-> FreeSlot], total |-> 0, used |-> 0,
               iter |-> 0]

\* A name argument: the characters with the GUID, and whether the size the
\* caller passes also counts a terminating NUL.
NameArg == [key : Keys \cup {NoKey}, nul : BOOLEAN]
Plain(k) == [key |-> k, nul |-> FALSE]
namesz(n) == (IF n.key \in Keys THEN NameSize[n.key] ELSE 0)
             + (IF n.nul THEN 1 ELSE 0)

-----------------------------------------------------------------------------
(***************************************************************************)
(* Look-up.  Stored names never carry a terminator (sanitize_namesz), and  *)
(* the stored size must equal the one passed in, so an argument that       *)
(* counts a terminator matches no slot.                                    *)
(***************************************************************************)
Matches(s, n) == {i \in Slots : s.slots[i].key = n.key /\ ~n.nul}

\* As if the search stopped at the first cleared slot.
storage_exists_UpToHole(s, n) ==
    \E i \in Matches(s, n) : \A j \in 0 .. i : variable_is_valid(s.slots[j])

storage_exists(s, n) == Matches(s, n) # {}

find_variable(s, n) == s.slots[Min(Matches(s, n))]

rt_deny_access(rt, attrs) == rt /\ "RT" \notin attrs

Occupied(s) == {i \in Slots : variable_is_valid(s.slots[i])}

Visible(s, rt) == {i \in Occupied(s) : ~rt_deny_access(rt, s.slots[i].attrs)}

Result(st, s) == [st |-> st, s |-> s]

\* The slot GetNextVariableName answers with, or none: the first visible slot
\* for an empty name, else the first visible slot after the one that holds n.
storage_get_first(s, rt) == IF s.total = 0 THEN {} ELSE Visible(s, rt)

\* As if the index were advanced twice past the cursor, wrapped around at the
\* end, or were not advanced.
NextCandidates_Twice(s, n, rt) ==
    IF n.key = NoKey THEN storage_get_first(s, rt)
    ELSE {i \in Visible(s, rt) : storage_exists(s, n) /\ i > Min(Matches(s, n)) + 1}

NextCandidates_Wrap(s, n, rt) ==
    IF n.key = NoKey THEN storage_get_first(s, rt)
    ELSE {i \in Visible(s, rt) : storage_exists(s, n) /\ i # Min(Matches(s, n))}

NextCandidates_Stay(s, n, rt) ==
    IF n.key = NoKey THEN storage_get_first(s, rt)
    ELSE {i \in Visible(s, rt) : storage_exists(s, n) /\ i >= Min(Matches(s, n))}

NextCandidates(s, n, rt) ==
    IF n.key = NoKey THEN storage_get_first(s, rt)
    ELSE {i \in Visible(s, rt) : storage_exists(s, n) /\ i > Min(Matches(s, n))}

storage_next_variable(s, n, rt) ==
    LET c == NextCandidates(s, n, rt)
    IN  IF c = {} THEN NoKey ELSE s.slots[Min(c)].key

-----------------------------------------------------------------------------
(***************************************************************************)
(* What the table's callers rely on, as predicates on a table.             *)
(***************************************************************************)
CountersAgree(s) == /\ s.total = Cardinality(Occupied(s))
                    /\ s.used = Cardinality(Occupied(s)) * SlotSize

SlotOK(v) == IF variable_is_valid(v)
             THEN Len(v.data) \in 1 .. MaxDataSize /\ "AP" \notin v.attrs
             ELSE v = FreeSlot

KeysDiffer(s) == \A i, j \in Occupied(s) :
                     s.slots[i].key = s.slots[j].key => i = j

-----------------------------------------------------------------------------
(***************************************************************************)
(* Updates                                                                 *)
(***************************************************************************)
\* As if a replacement were charged like a creation.
PutSlot_Recharge(s, i, v, gained) ==
    [slots |-> [s.slots EXCEPT ![i] = v],
     total |-> s.total + gained,
     used  |-> s.used + (IF gained = -1 THEN -1 ELSE 1) * SlotSize,
     iter  |-> s.iter]

\* Slot i becomes v, and the counters move by the number of variables gained.
PutSlot(s, i, v, gained) ==
    [slots |-> [s.slots EXCEPT ![i] = v],
     total |-> s.total + gained,
     used  |-> s.used + gained * SlotSize,
     iter  |-> s.iter]

\* As if the counters were taken down before the variable is looked for, or
\* only the name of the slot were cleared.
storage_remove_Uncounted(s, n) ==
    IF Matches(s, n) = {} THEN Result("NOT_FOUND", [s EXCEPT !.total = @ - 1])
    ELSE Result("SUCCESS", PutSlot(s, Min(Matches(s, n)), FreeSlot, -1))

storage_remove_NameOnly(s, n) ==
    LET i == Min(Matches(s, n))
    IN  IF Matches(s, n) = {} THEN Result("NOT_FOUND", s)
        ELSE Result("SUCCESS",
                    PutSlot(s, i, [s.slots[i] EXCEPT !.key = NoKey], -1))

storage_remove(s, n) ==
    IF Matches(s, n) = {} THEN Result("NOT_FOUND", s)
    ELSE Result("SUCCESS", PutSlot(s, Min(Matches(s, n)), FreeSlot, -1))

\* Replacing or extending the data of the variable in slot i.  An append
\* that would outgrow the limit fails with -ENOMEM, which the caller turns
\* into a device error.
ReplaceVariable(s, i, data, attrs, append) ==
    LET v == s.slots[i]
        new == IF append THEN v.data \o data ELSE data
    IN  IF v.attrs # attrs THEN Result("INVALID_PARAMETER", s)
        ELSE IF data = <<>> \/ Len(new) > MaxDataSize
        THEN Result("DEVICE_ERROR", s)
        ELSE Result("SUCCESS", PutSlot(s, i, [v EXCEPT !.data = new], 0))

FreeSlots(s) == Slots \ Occupied(s)

\* A new variable goes to the first cleared slot; its terminator is dropped.
CreateVariable(s, n, data, attrs) ==
    IF FreeSlots(s) = {} \/ data = <<>> THEN Result("DEVICE_ERROR", s)
    ELSE LET new == [FreeSlot EXCEPT !.key = n.key, !.data = data, !.attrs = attrs]
         IN  Result("SUCCESS", PutSlot(s, Min(FreeSlots(s)), new, 1))

\* As if the largest size were refused.
TooLarge_AtLimit(s, n, data) ==
    \/ namesz(n) > MaxNameSize
    \/ Len(data) >= MaxDataSize
    \/ Len(data) + namesz(n) + s.used > MaxStorageSize

TooLarge(s, n, data) ==
    \/ namesz(n) > MaxNameSize
    \/ Len(data) > MaxDataSize
    \/ Len(data) + namesz(n) + s.used > MaxStorageSize

storage_set(s, n, data, attrs) ==
    LET append == "AP" \in attrs
    IN  IF TooLarge(s, n, data) THEN Result("OUT_OF_RESOURCES", s)
        ELSE IF (data = <<>> /\ ~append) \/ attrs = {}
        THEN storage_remove(s, n)
        ELSE IF storage_exists(s, n)
        THEN ReplaceVariable(s, Min(Matches(s, n)), data, attrs \ {"AP"}, append)
        ELSE CreateVariable(s, n, data, attrs \ {"AP"})

is_delete(attrs, data) == data = <<>> \/ attrs = {}

SetTimestamp(s, n, ts) ==
    LET i == Min(Matches(s, n))
    IN  IF ~storage_exists(s, n) THEN Result("NOT_FOUND", s)
        ELSE Result("SUCCESS",
                    PutSlot(s, i, [s.slots[i] EXCEPT !.timestamp = ts], 0))

\* The status of storage_set survives only for a deletion: otherwise it is
\* overwritten by that of the look-up that follows.
storage_set_with_timestamp(s, n, data, attrs, ts) ==
    IF is_delete(attrs, data) THEN storage_set(s, n, data, attrs)
    ELSE SetTimestamp(storage_set(s, n, data, attrs).s, n, ts)

\* As if only the authenticated variables were brought back.
RestoreVariable_AuthOnly(s, v) ==
    IF "AT" \in v.attrs
    THEN storage_set_with_timestamp(s, Plain(v.key), v.data, v.attrs, v.timestamp)
    ELSE Result("SUCCESS", s)

\* How xapi_init stores a variable that was kept.
RestoreVariable(s, v) ==
    IF "AT" \in v.attrs
    THEN storage_set_with_timestamp(s, Plain(v.key), v.data, v.attrs, v.timestamp)
    ELSE storage_set(s, Plain(v.key), v.data, v.attrs)

\* As if the copy were made without the attributes.
variable_copy_NoAttrs(v) == [v EXCEPT !.attrs = {}, !.timestamp = 0, !.cert = NoCert]

\* variable_copy: name, GUID, data and attributes, and nothing else.
variable_copy(v) == [v EXCEPT !.timestamp = 0, !.cert = NoCert]

\* As if the index were not reset at the end of the table.
storage_iter_NoReset(s) ==
    LET rest == {i \in Occupied(s) : i >= s.iter}
        next == IF rest = {} THEN MaxVarCount ELSE Min(rest) + 1
    IN  [st |-> IF next >= MaxVarCount THEN "NOT_FOUND" ELSE "SUCCESS",
         s |-> [s EXCEPT !.iter = next],
         var |-> IF next >= MaxVarCount THEN FreeSlot
                 ELSE variable_copy(s.slots[next - 1])]

\* One call of storage_iter.  The copy is made before the index is compared
\* with the limit, so the variable in the last slot is copied and then
\* reported as the end of the table.
storage_iter(s) ==
    LET rest == {i \in Occupied(s) : i >= s.iter}
        next == IF rest = {} THEN MaxVarCount ELSE Min(rest) + 1
    IN  IF next >= MaxVarCount
        THEN [st |-> "NOT_FOUND", s |-> [s EXCEPT !.iter = 0], var |-> FreeSlot]
        ELSE [st |-> "SUCCESS", s |-> [s EXCEPT !.iter = next],
              var |-> variable_copy(s.slots[next - 1])]

\* storage_destroy leaves the iterator where it was.
storage_destroy(s) == [EmptyTable EXCEPT !.iter = s.iter]
=============================================================================
