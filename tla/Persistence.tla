----------------------------- MODULE Persistence -----------------------------
(***************************************************************************)
(* How the variables outlive the process, step by step: the push to XAPI   *)
(* after a write, the signal handler that pushes and saves them before the *)
(* process ends, and the start that loads them again (src/src/xapi.c,      *)
(* main and signal_handler of src/src/uefistored.c).  The handler may      *)
(* interrupt the main thread between any two of its steps and never        *)
(* returns to it, so the process has one program counter.  Another signal  *)
(* may interrupt the handler, which then starts over.                      *)
(***************************************************************************)
EXTENDS Serializer, FiniteSets

CONSTANTS
    Writes,           \* what the guest writes
    PullAnswers,      \* whether reading from XAPI may succeed, fail, or both
    PushAnswers,      \* the same for writing to it
    DiskSpace,        \* the fields of a save file the disk may have room for
    SignalAt,         \* the points of the main thread a signal may interrupt
    NestedAt,         \* the points of the handler another signal may interrupt
    MaxSignals,       \* how many signals there are to handle
    MaxResumeSize     \* MAX_RESUME_FILE_SIZE, in fields

Main == {"load", "idle", "collect", "send"}
Handler == {"h_collect", "h_send", "h_open", "h_gather", "h_write", "h_end"}

ASSUME PersistenceAssumption ==
    /\ Writes \subseteq [name : NameArg, data : Seq(Atoms), attrs : SUBSET Attrs]
    /\ \A w \in Writes : w.name.key # NoKey
    /\ PullAnswers \subseteq BOOLEAN
    /\ PushAnswers \subseteq BOOLEAN
    /\ DiskSpace \subseteq Nat
    /\ SignalAt \subseteq Main
    /\ NestedAt \subseteq Handler
    /\ MaxSignals \in Nat \ {0}
    /\ MaxResumeSize \in Nat

VARIABLES
    storage,   \* variables[], total, used and storage_iter_index
    pc,        \* where the process is, or "down"
    list,      \* the copies collected so far
    input,     \* at start: what is still to be stored
    xapi,      \* the EFI-variables string in the XAPI database, external
    file,      \* the save file
    ended,     \* how the last process ended, or the present one began
    blocked,   \* how many signals are being handled
    inflight,  \* the key of the request being handled, for the properties
    answered,  \* what the guest was told is stored and a push has taken
    frozen     \* the variables when the signal arrived

disk == <<xapi, file>>
ghosts == <<inflight, answered, frozen>>
vars == <<storage, pc, list, input, disk, ended, blocked, ghosts>>

Entry(v) == <<v.key, v.data, v.attrs>>
Entries(l) == {Entry(l[j]) : j \in DOMAIN l}
\* The slots storage_iter gets to.
Reached(s) == {j \in Occupied(s) : j < MaxVarCount - 1}
Contents(s) == {Entry(s.slots[j]) : j \in Reached(s)}
NonVolatile(s) == {e \in Contents(s) : "NV" \in e[3]}

\* A request for k supersedes what was promised of k, and a push that arrives
\* promises all it takes.
Without(k) == {e \in answered : e[1] # k}
Told(ok) == /\ answered' = Without(inflight) \cup (IF ok THEN NonVolatile(storage) ELSE {})
            /\ inflight' = NoKey

-----------------------------------------------------------------------------
(***************************************************************************)
(* The main thread                                                         *)
(***************************************************************************)
FileTooLarge == Len(file) > MaxResumeSize

\* A file that is too large counts as no variables.
xapi_variables_read_file ==
    IF FileTooLarge THEN Decoded(TRUE, <<>>) ELSE from_bytes_to_vars(file)

\* So does a pull that fails, or finds nothing.
xapi_variables_request(ok) ==
    IF ok /\ xapi # <<>> THEN from_bytes_to_vars(xapi) ELSE Decoded(TRUE, <<>>)

\* xapi_init up to its loop; bytes that cannot be decoded end the start.  The
\* toolstack resumes a guest whose daemon left a save file, and otherwise
\* starts one afresh.  A daemon that starts without the variables, because the
\* file is too large, keeps none of the promises made of them.
Start(resume, ok) ==
    /\ pc = "down"
    /\ resume => ended \in {"saved", "short"}
    /\ LET d == IF resume THEN xapi_variables_read_file ELSE xapi_variables_request(ok)
       IN  /\ pc' = IF d.ok THEN "load" ELSE "down"
           /\ input' = d.list
    /\ storage' = EmptyTable
    /\ list' = <<>>
    /\ ended' = IF resume THEN "resumed" ELSE "started"
    /\ blocked' = 0
    /\ inflight' = NoKey
    /\ answered' = IF resume /\ FileTooLarge THEN {} ELSE Without(inflight)
    /\ frozen' = IF resume THEN frozen ELSE {}
    /\ UNCHANGED disk

\* A variable that cannot be stored fails the assertion of the loop, and
\* SIGABRT has the same handler as the other signals.
Load ==
    /\ pc = "load"
    /\ input # <<>>
    /\ LET v == Head(input)
           r == RestoreVariable(storage, v)
       IN  /\ storage' = r.s
           /\ IF r.st = "SUCCESS" THEN UNCHANGED <<pc, blocked, frozen>>
              ELSE pc' = "h_collect" /\ blocked' = 1 /\ frozen' = Contents(r.s)
    /\ input' = Tail(input)
    /\ UNCHANGED <<list, disk, ended, inflight, answered>>

\* The start ends with a push of its own.
Loaded ==
    /\ pc = "load"
    /\ input = <<>>
    /\ pc' = "collect"
    /\ list' = <<>>
    /\ frozen' = {}
    /\ UNCHANGED <<storage, input, disk, ended, blocked, inflight, answered>>

SetVariable(n, data, attrs) ==
    /\ pc = "idle"
    /\ LET r == storage_set(storage, n, data, attrs)
       IN  /\ storage' = r.s
           /\ \/ /\ r.st = "SUCCESS" /\ "NV" \in attrs
                 /\ pc' = "collect"
                 /\ inflight' = n.key
                 /\ UNCHANGED answered
              \/ /\ ~(r.st = "SUCCESS" /\ "NV" \in attrs)
                 /\ answered' = IF r.st = "SUCCESS" THEN Without(n.key) ELSE answered
                 /\ UNCHANGED <<pc, inflight>>
    /\ list' = <<>>
    /\ UNCHANGED <<input, disk, ended, blocked, frozen>>

-----------------------------------------------------------------------------
(***************************************************************************)
(* Pushing and saving, by the main thread or by the handler                *)
(***************************************************************************)
\* Variables with the attributes in wanted are kept.
Iterate(wanted, here, next) ==
    /\ pc = here
    /\ LET r == storage_iter(storage)
       IN  /\ storage' = r.s
           /\ pc' = IF r.st = "SUCCESS" THEN here ELSE next
           /\ list' = IF r.st = "SUCCESS" /\ wanted \subseteq r.var.attrs
                      THEN Append(list, r.var)
                      ELSE list
    /\ UNCHANGED <<input, disk, ended, blocked, ghosts>>

\* As if the first variable found ended the collection.
retrieve_nonvolatile_vars_First ==
    \/ /\ Len(list) = 1
       /\ pc \in {"collect", "h_collect"}
       /\ pc' = IF pc = "collect" THEN "send" ELSE "h_send"
       /\ UNCHANGED <<storage, list, input, disk, ended, blocked, ghosts>>
    \/ Len(list) = 0 /\ Iterate({"NV"}, "collect", "send")
    \/ Len(list) = 0 /\ Iterate({"NV"}, "h_collect", "h_send")

\* One call of storage_iter in the loop of retrieve_nonvolatile_vars.
retrieve_nonvolatile_vars ==
    \/ Iterate({"NV"}, "collect", "send")
    \/ Iterate({"NV"}, "h_collect", "h_send")

\* As if only the non-volatile variables were saved.
retrieve_vars_NonVolatile == Iterate({"NV"}, "h_gather", "h_write")

retrieve_vars == Iterate({}, "h_gather", "h_write")

\* As if a list shorter than the one XAPI has were not sent.
SendList_Stale(ok) ==
    /\ pc \in {"send", "h_send"}
    /\ LET arrives == ok /\ list # <<>> /\ 1 + 3 * Len(list) >= Len(xapi)
       IN  xapi' = IF arrives THEN serialize_variable_list(list) ELSE xapi
    /\ pc' = IF pc = "send" THEN "idle" ELSE "h_open"
    /\ IF pc = "send" THEN Told(ok) ELSE UNCHANGED <<inflight, answered>>
    /\ list' = <<>>
    /\ UNCHANGED <<storage, input, file, ended, blocked, frozen>>

\* An empty list builds no message.  Whether XAPI took it is not looked at.
SendList(ok) ==
    /\ pc \in {"send", "h_send"}
    /\ xapi' = IF ok /\ list # <<>> THEN serialize_variable_list(list) ELSE xapi
    /\ pc' = IF pc = "send" THEN "idle" ELSE "h_open"
    /\ IF pc = "send" THEN Told(ok) ELSE UNCHANGED <<inflight, answered>>
    /\ list' = <<>>
    /\ UNCHANGED <<storage, input, file, ended, blocked, frozen>>

\* The file is truncated before the variables are collected.  When it cannot
\* be opened they are not.
OpenFile ==
    /\ pc = "h_open"
    /\ list' = <<>>
    /\ \/ pc' = "h_gather" /\ file' = <<>> /\ UNCHANGED <<storage, ended>>
       \/ /\ pc' = "h_end"
          /\ ended' = "unsaved"
          /\ storage' = storage_destroy(storage)
          /\ UNCHANGED file
    /\ UNCHANGED <<input, xapi, blocked, ghosts>>

\* As if the failure to save an empty list kept the handler from its end.
WriteFile_NonEmpty(room) ==
    /\ pc = "h_write"
    /\ list # <<>>
    /\ file' = serialize_variable_list(list)
    /\ ended' = "saved"
    /\ storage' = storage_destroy(storage)
    /\ pc' = "h_end"
    /\ list' = <<>>
    /\ UNCHANGED <<input, xapi, blocked, ghosts>>

\* What fits on the disk is written, an empty list being nothing at all; then
\* the table is cleared.  The handler does not look at the result either.
WriteFile(room) ==
    /\ pc = "h_write"
    /\ LET bytes == IF list = <<>> THEN <<>> ELSE serialize_variable_list(list)
       IN  \/ file' = bytes /\ ended' = "saved"
           \/ /\ room < Len(bytes)
              /\ file' = SubSeq(bytes, 1, room)
              /\ ended' = "short"
    /\ storage' = storage_destroy(storage)
    /\ pc' = "h_end"
    /\ list' = <<>>
    /\ UNCHANGED <<input, xapi, blocked, ghosts>>

\* The resources are released and the signal raised again.
Exit ==
    /\ pc = "h_end"
    /\ pc' = "down"
    /\ UNCHANGED <<storage, list, input, disk, ended, blocked, ghosts>>

-----------------------------------------------------------------------------
Signal ==
    /\ pc \in SignalAt
    /\ pc' = "h_collect"
    /\ list' = <<>>
    /\ blocked' = 1
    /\ frozen' = Contents(storage)
    /\ UNCHANGED <<storage, input, disk, ended, inflight, answered>>

\* The handler blocks only the signal it handles.  Another one enters it again;
\* the ports it frees a second time may end the process there and then, which
\* is a Kill.
NestedSignal ==
    /\ pc \in NestedAt
    /\ blocked < MaxSignals
    /\ blocked' = blocked + 1
    /\ pc' = "h_collect"
    /\ list' = <<>>
    /\ UNCHANGED <<storage, input, disk, ended, ghosts>>

\* A kill while the file is open leaves it without bytes.
Kill ==
    /\ pc # "down"
    /\ pc' = "down"
    /\ \/ pc \in {"h_gather", "h_write"} /\ ended' = "short" /\ UNCHANGED frozen
       \/ pc \notin {"h_gather", "h_write"} /\ ended' = "killed" /\ frozen' = {}
    /\ blocked' = 0
    /\ storage' = EmptyTable
    /\ list' = <<>> /\ input' = <<>>
    /\ UNCHANGED <<disk, inflight, answered>>

Init == /\ storage = EmptyTable /\ pc = "down"
        /\ list = <<>> /\ input = <<>> /\ xapi = <<>> /\ file = <<>>
        /\ ended = "killed" /\ blocked = 0 /\ inflight = NoKey /\ answered = {} /\ frozen = {}

\* What the process does on its own.
Step == \/ Load \/ Loaded \/ retrieve_nonvolatile_vars \/ retrieve_vars
        \/ \E ok \in PushAnswers : SendList(ok)
        \/ \E room \in DiskSpace : WriteFile(room)
        \/ OpenFile \/ Exit

Next == \/ Step
        \/ \E resume \in BOOLEAN, ok \in PullAnswers : Start(resume, ok)
        \/ \E w \in Writes : SetVariable(w.name, w.data, w.attrs)
        \/ Signal \/ NestedSignal \/ Kill

Spec == Init /\ [][Next]_vars /\ WF_vars(Step)

-----------------------------------------------------------------------------
TypeOK ==
    /\ storage \in Table
    /\ storage.iter \in Slots
    /\ pc \in Main \cup Handler \cup {"down"}
    /\ \A l \in {list, input} : \A j \in DOMAIN l : l[j] \in Variable
    /\ xapi # <<>> => from_bytes_to_vars(xapi).ok
    /\ ended \in {"saved", "short", "unsaved", "killed", "resumed", "started"}
    /\ blocked \in 0 .. MaxSignals
    /\ inflight \in Keys \cup {NoKey}

\* The guest counts no terminator in the size of a name.  One that does may
\* store a variable twice under the name, so ListComplete, Durable,
\* AssertionHolds and ResumeRestores are for a guest that does not; TypeOK and
\* SaveUsable are for any.
PlainNames == \A w \in Writes : ~w.name.nul

\* A list that is about to be sent holds the non-volatile variables of the
\* table, all that storage_iter gets to and each once: variable_list_bytes is
\* to "Return all variables in storage as a list of bytes" (xapi.c:426).
ListComplete ==
    pc \in {"send", "h_send"} => /\ Entries(list) = NonVolatile(storage)
                                 /\ Len(list) = Cardinality(Entries(list))

\* What the guest was told is stored, and a push has taken, is in XAPI at every
\* moment until the guest writes it again or is resumed from a file that is too
\* large: through writes of other variables, signals, kills, restarts and later
\* pushes that fail.
Durable ==
    \A e \in answered : e[1] # inflight => e \in Entries(from_bytes_to_vars(xapi).list)

\* Every variable that is read at the start can be stored: the loop of
\* xapi_init has "assert(status == EFI_SUCCESS)" for it (xapi.c:1268).
AssertionHolds ==
    pc = "load" /\ input # <<>> => RestoreVariable(storage, Head(input)).st = "SUCCESS"

\* A guest that is resumed finds the variables it was suspended with, the
\* volatile ones included, or, when they did not fit the limit of the file, none
\* of them: never some.  A save file that a full disk cut short, or a kill left
\* empty, ends the start.
ResumeRestores ==
    ended = "resumed" /\ pc = "load" /\ input = <<>> =>
        Contents(storage) = IF FileTooLarge THEN {} ELSE frozen

\* A handler that had room for the file leaves one that the next daemon can
\* read, with the variables of the moment the first signal came; with none
\* there is nothing in it to read.
SaveUsable ==
    ended = "saved" /\ pc = "down" =>
        LET d == from_bytes_to_vars(file)
        IN  IF frozen = {} THEN file = <<>> ELSE d.ok /\ Entries(d.list) = frozen

\* The handler ends the process, and every start and every request completes.
Completes == pc \notin {"down", "idle"} ~> pc \in {"down", "idle"}
=============================================================================
