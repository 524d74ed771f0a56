---------------------------- MODULE Enumeration ------------------------------
(***************************************************************************)
(* A guest walks the variables with GetNextVariableName: it starts with    *)
(* an empty name and then passes back the name it was given, while other   *)
(* writes change the table between two of its calls.  The server keeps no  *)
(* cursor: the position is the slot that holds the name passed in.         *)
(***************************************************************************)
EXTENDS StorageOps

CONSTANTS DataIn, AttrsIn

ASSUME WalkAssumption == DataIn \subseteq Seq(Atoms) /\ AttrsIn \subseteq SUBSET Attrs

VARIABLES
    storage,
    phase,     \* "idle", "walking", or "done" once NOT_FOUND was answered
    cursor,    \* the name the guest passes to its next call
    at_rt,     \* the at-runtime flag the guest passes along (efi_at_runtime)
    visited,   \* the names answered in this walk
    stable,    \* the keys visible without interruption since the walk began
    lost       \* whether the variable at the cursor was deleted meanwhile

walk == <<phase, cursor, at_rt, visited>>
vars == <<storage, walk, stable, lost>>

VisibleKeys(s, rt) == {s.slots[i].key : i \in Visible(s, rt)}

Init == /\ storage = EmptyTable
        /\ phase = "idle"
        /\ cursor = NoKey
        /\ at_rt = FALSE
        /\ visited = {}
        /\ stable = {}
        /\ lost = FALSE

Update(k, data, attrs) ==
    LET s == storage_set(storage, Plain(k), data, attrs).s
    IN  /\ storage' = s
        /\ stable' = stable \cap VisibleKeys(s, at_rt)
        /\ lost' = (lost \/ (cursor # NoKey /\ ~storage_exists(s, Plain(cursor))))
        /\ UNCHANGED walk

StartWalk(rt) ==
    /\ phase # "walking"
    /\ phase' = "walking"
    /\ cursor' = NoKey
    /\ at_rt' = rt
    /\ visited' = {}
    /\ stable' = VisibleKeys(storage, rt)
    /\ lost' = FALSE
    /\ UNCHANGED storage

GetNext ==
    /\ phase = "walking"
    /\ LET k == storage_next_variable(storage, Plain(cursor), at_rt)
       IN  \/ /\ k # NoKey
              /\ cursor' = k
              /\ visited' = visited \cup {k}
              /\ UNCHANGED phase
           \/ /\ k = NoKey
              /\ phase' = "done"
              /\ cursor' = NoKey
              /\ UNCHANGED visited
    /\ UNCHANGED <<storage, at_rt, stable, lost>>

Next == \/ \E k \in Keys, data \in DataIn, attrs \in AttrsIn :
               Update(k, data, attrs)
        \/ \E rt \in BOOLEAN : StartWalk(rt)
        \/ GetNext

\* The guest's loop calls again as long as it is given a name.
Spec == Init /\ [][Next]_vars /\ WF_vars(GetNext)

-----------------------------------------------------------------------------
\* A finished walk has answered every variable that was visible throughout,
\* whatever was created, replaced or deleted around it, provided that the
\* variable the guest stood on was never deleted under it.
WalkComplete == phase = "done" /\ ~lost => stable \subseteq visited

\* Such a walk never answers a variable twice, unless that variable was
\* deleted and created anew in between.
NoRepeat == [][phase = "walking" /\ cursor' # cursor /\ cursor' \in stable /\ ~lost
               => cursor' \notin visited]_vars

\* A walk ends, even if variables keep being created behind and ahead of it:
\* the slot of the cursor only moves forward.
WalkEnds == phase = "walking" ~> (phase = "done" \/ lost)

\* Where a walk stands: what it has answered of the stable variables is what
\* lies in the slots up to the cursor.
Position == IF cursor = NoKey THEN -1 ELSE Min(Matches(storage, Plain(cursor)))

WalkInv ==
    phase = "walking" /\ ~lost =>
        /\ cursor # NoKey => storage_exists(storage, Plain(cursor))
        /\ stable \subseteq VisibleKeys(storage, at_rt)
        /\ \A k \in stable : k \in visited <=>
                             Min(Matches(storage, Plain(k))) <= Position
=============================================================================
