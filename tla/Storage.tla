------------------------------ MODULE Storage -------------------------------
(***************************************************************************)
(* The variable table of uefistored as a state machine: the calls its      *)
(* single-threaded callers make, in any order, with any argument they can  *)
(* pass, and what the guest is answered.  Callers never pass an empty name *)
(* to an update: handle_set_variable rejects it before it reaches the      *)
(* table.                                                                  *)
(***************************************************************************)
EXTENDS StorageOps, SequencesExt

CONSTANTS
    DataIn,           \* data a caller may write, oversized data included
    AttrsIn,          \* attributes a caller may write
    Timestamps,       \* timestamps of authenticated writes
    BufferSizes,      \* sizes of the buffer a reader offers
    TerminatedNames   \* whether callers may count a terminating NUL

ASSUME InputsAssumption ==
    /\ DataIn \subseteq Seq(Atoms)
    /\ AttrsIn \subseteq SUBSET Attrs
    /\ Timestamps \subseteq Nat
    /\ TerminatedNames \in BOOLEAN

VARIABLES
    storage,   \* variables[], total, used and storage_iter_index
    resp       \* the answer to the last call

vars == <<storage, resp>>

Names == {n \in NameArg : n.key \in Keys /\ (n.nul => TerminatedNames)}

\* name is the answer of GetNextVariableName; size is the remaining storage of
\* QueryVariableInfo, or what a buffer that is too small should hold.
Answer(st) == [st |-> st, data |-> <<>>, attrs |-> {}, name |-> NoKey, size |-> 0]

Init == /\ storage = EmptyTable
        /\ resp = Answer("NONE")

Set(n, data, attrs) ==
    LET r == storage_set(storage, n, data, attrs)
    IN  /\ storage' = r.s
        /\ resp' = Answer(r.st)

SetWithTimestamp(n, data, attrs, ts) ==
    LET r == storage_set_with_timestamp(storage, n, data, attrs, ts)
    IN  /\ storage' = r.s
        /\ resp' = Answer(r.st)

\* serialize_get_error, and the reply handle_get_variable builds otherwise.
Get(n, bufsz, rt) ==
    /\ LET v == find_variable(storage, n)
       IN  IF ~storage_exists(storage, n) \/ rt_deny_access(rt, v.attrs)
           THEN resp' = Answer("NOT_FOUND")
           ELSE IF bufsz < Len(v.data)
           THEN resp' = [Answer("BUFFER_TOO_SMALL") EXCEPT !.size = Len(v.data)]
           ELSE resp' = [Answer("SUCCESS") EXCEPT !.data = v.data, !.attrs = v.attrs]
    /\ UNCHANGED storage

\* The guest's buffer must also hold a terminator.
GetNext(n, bufsz, rt) ==
    /\ LET k == storage_next_variable(storage, n, rt)
       IN  IF k = NoKey THEN resp' = Answer("NOT_FOUND")
           ELSE IF bufsz < NameSize[k] + 1
           THEN resp' = [Answer("BUFFER_TOO_SMALL") EXCEPT !.size = NameSize[k] + 1]
           ELSE resp' = [Answer("SUCCESS") EXCEPT !.name = k]
    /\ UNCHANGED storage

QueryInfo(attrs) ==
    /\ IF attrs = {} \/ ("RT" \in attrs /\ "BS" \notin attrs)
       THEN resp' = Answer("INVALID_PARAMETER")
       ELSE resp' = [Answer("SUCCESS") EXCEPT !.size = MaxStorageSize - storage.used]
    /\ UNCHANGED storage

\* A guest passes GetNextVariableName an empty name or one it has seen.
Next == \/ \E n \in Names :
               \/ \E data \in DataIn, attrs \in AttrsIn : Set(n, data, attrs)
               \/ \E bufsz \in BufferSizes, rt \in BOOLEAN : Get(n, bufsz, rt)
        \/ \E n \in Names \cup {Plain(NoKey)}, bufsz \in BufferSizes, rt \in BOOLEAN :
               GetNext(n, bufsz, rt)
        \/ \E attrs \in AttrsIn : QueryInfo(attrs)

\* The calls the authenticated path adds.
StampedNext ==
    \/ Next
    \/ \E n \in Names, data \in DataIn, attrs \in AttrsIn, ts \in Timestamps :
           SetWithTimestamp(n, data, attrs, ts)

Spec == Init /\ [][Next]_vars
StampedSpec == Init /\ [][StampedNext]_vars

-----------------------------------------------------------------------------
(***************************************************************************)
(* Properties                                                              *)
(***************************************************************************)
\* The table and the counters stay in their types, and the iterator within
\* the array.
TypeOK == /\ storage \in Table
          /\ storage.iter \in Slots

\* total counts the occupied slots and used charges each of them the full
\* slot size, whatever was created, replaced, refused or deleted: the two
\* counters QueryVariableInfo and storage_get_first rely on never drift and
\* never go below zero.
Accounting == CountersAgree(storage)

\* A (name, GUID) pair is in at most one slot: "If it already exists, replace
\* it" (storage.c:204), so a read, a deletion and an enumeration all speak of
\* the same variable.
UniqueKeys == KeysDiffer(storage)

\* An occupied slot always holds data, within the limit, and a cleared slot
\* holds nothing: no attributes, timestamp or signer survive a deletion to be
\* inherited by the next variable in the slot.
SlotsWellFormed == \A i \in Slots : SlotOK(storage.slots[i])

\* Even a full table leaves room in the storage budget for one more variable
\* of the largest size: storage_set never answers EFI_OUT_OF_RESOURCES because
\* the store is full, and the last slot can always be used.
BudgetNeverBinds == storage.used + SlotSize <= MaxStorageSize

Holds(n, data, attrs) ==
    \E i \in Slots : /\ storage'.slots[i].key = n.key
                     /\ storage'.slots[i].attrs = attrs \ {"AP"}
                     /\ IsSuffix(data, storage'.slots[i].data)

\* A write by storage_set_with_timestamp that is not a deletion and answers
\* EFI_SUCCESS has stored its data: its callers document "@return EFI_SUCCESS
\* if variable is successfully stored" (authlib.c:242).
StampedOnSuccess ==
    [][\A n \in Names, data \in DataIn, attrs \in AttrsIn, ts \in Timestamps :
          /\ SetWithTimestamp(n, data, attrs, ts)
          /\ ~is_delete(attrs, data)
          /\ resp'.st = "SUCCESS"
          => Holds(n, data, attrs)]_vars

-----------------------------------------------------------------------------
(***************************************************************************)
(* The table implements the dictionary of VariableStore.                   *)
(***************************************************************************)
Stored == {storage.slots[i].key : i \in Occupied(storage)}

Dictionary == [k \in Stored |->
                  LET v == find_variable(storage, Plain(k))
                  IN  [data |-> v.data, attrs |-> v.attrs]]

VS == INSTANCE VariableStore
          WITH store <- Dictionary, Capacity <- MaxVarCount,
               MaxData <- MaxDataSize, Budget <- MaxStorageSize, Cost <- SlotSize,
               LargeNames <- {k \in Keys : NameSize[k] > MaxNameSize}

\* A call on the table is that call on the dictionary.
SameCall ==
    \A n \in Names :
        /\ \A data \in DataIn, attrs \in AttrsIn :
               Set(n, data, attrs) => VS!Set(n.key, data, attrs)
        /\ \A bufsz \in BufferSizes, rt \in BOOLEAN :
               /\ Get(n, bufsz, rt) => VS!Get(n.key, bufsz, rt)
               /\ GetNext(n, bufsz, rt) => VS!GetNext(n.key, bufsz, rt)
               /\ GetNext(Plain(NoKey), bufsz, rt) => VS!GetNext(NoKey, bufsz, rt)
        /\ \A attrs \in AttrsIn : QueryInfo(attrs) => VS!QueryInfo(attrs)

\* Every call on the slot array is the same call on the dictionary, with the
\* same answer: slots, their order and reuse,
\* the counters and the storage budget are invisible, a call fails exactly
\* when the dictionary refuses it, and one that answers EFI_SUCCESS has
\* stored its data.  It implies VS!Spec, whose steps leave the call open.
ImplementsStore == VS!Init /\ [][SameCall]_vars
=============================================================================
