---------------------------- MODULE VariableStore ----------------------------
(***************************************************************************)
(* What the variable table promises its callers: a dictionary of at most   *)
(* Capacity entries.  Writing an entry replaces or extends its data,       *)
(* never changes its attributes, and either takes effect completely or     *)
(* leaves the dictionary alone and reports why.                            *)
(***************************************************************************)
EXTENDS Integers, Sequences, FiniteSets

CONSTANTS Keys, NoKey, NameSize, Capacity, MaxData, LargeNames, Budget, Cost,
          DataIn, AttrsIn, BufferSizes

VARIABLES
    store,   \* a function from the keys that exist to data and attributes
    resp     \* the answer to the last call

vars == <<store, resp>>

Answer(st) == [st |-> st, data |-> <<>>, attrs |-> {}, name |-> NoKey, size |-> 0]

Init == /\ store = [k \in {} |-> {}]
        /\ resp = Answer("NONE")

Refuse(st) == /\ resp' = Answer(st)
              /\ UNCHANGED store

Accept(new) == /\ resp' = Answer("SUCCESS")
               /\ store' = new

Without(k) == [j \in DOMAIN store \ {k} |-> store[j]]
With(k, e) == [j \in DOMAIN store \cup {k} |-> IF j = k THEN e ELSE store[j]]

Delete(k) == IF k \in DOMAIN store THEN Accept(Without(k))
             ELSE Refuse("NOT_FOUND")

Replace(k, data, attrs, append) ==
    LET new == IF append THEN store[k].data \o data ELSE data
    IN  IF attrs # store[k].attrs THEN Refuse("INVALID_PARAMETER")
        ELSE IF data = <<>> \/ Len(new) > MaxData THEN Refuse("DEVICE_ERROR")
        ELSE Accept(With(k, [data |-> new, attrs |-> attrs]))

Create(k, data, attrs) ==
    IF data = <<>> \/ Cardinality(DOMAIN store) >= Capacity
    THEN Refuse("DEVICE_ERROR")
    ELSE Accept(With(k, [data |-> data, attrs |-> attrs]))

Set(k, data, attrs) ==
    LET append == "AP" \in attrs
    IN  IF k \in LargeNames \/ Len(data) > MaxData
        THEN Refuse("OUT_OF_RESOURCES")
        ELSE IF (data = <<>> /\ ~append) \/ attrs = {} THEN Delete(k)
        ELSE IF k \in DOMAIN store THEN Replace(k, data, attrs \ {"AP"}, append)
        ELSE Create(k, data, attrs \ {"AP"})

Visible(rt) == {k \in DOMAIN store : rt => "RT" \in store[k].attrs}

Fits(size, bufsz, answer) ==
    resp' = IF bufsz < size THEN [Answer("BUFFER_TOO_SMALL") EXCEPT !.size = size]
            ELSE answer

Get(k, bufsz, rt) ==
    /\ UNCHANGED store
    /\ IF k \notin Visible(rt) THEN resp' = Answer("NOT_FOUND")
       ELSE Fits(Len(store[k].data), bufsz,
                 [Answer("SUCCESS") EXCEPT !.data = store[k].data,
                                           !.attrs = store[k].attrs])

\* The order is left open, but only an empty dictionary has no first entry.
GetNext(k, bufsz, rt) ==
    /\ UNCHANGED store
    /\ \/ /\ k # NoKey \/ Visible(rt) = {}
          /\ resp' = Answer("NOT_FOUND")
       \/ \E j \in Visible(rt) \ {k} :
              Fits(NameSize[j] + 1, bufsz, [Answer("SUCCESS") EXCEPT !.name = j])

QueryInfo(attrs) ==
    /\ UNCHANGED store
    /\ IF attrs = {} \/ ("RT" \in attrs /\ "BS" \notin attrs)
       THEN resp' = Answer("INVALID_PARAMETER")
       ELSE resp' = [Answer("SUCCESS") EXCEPT
                        !.size = Budget - Cost * Cardinality(DOMAIN store)]

Next == \/ \E k \in Keys : \E data \in DataIn, attrs \in AttrsIn : Set(k, data, attrs)
        \/ \E bufsz \in BufferSizes, rt \in BOOLEAN :
               \/ \E k \in Keys : Get(k, bufsz, rt)
               \/ \E k \in Keys \cup {NoKey} : GetNext(k, bufsz, rt)
        \/ \E attrs \in AttrsIn : QueryInfo(attrs)

Spec == Init /\ [][Next]_vars
=============================================================================
