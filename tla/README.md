# uefistored in TLA+

uefistored is the dom0 daemon that keeps the UEFI variables of one guest. This
directory models it from its C source, model-checks the models with TLC on
small instances and proves their safety properties, and one refinement, with
TLAPS for instances of any size. Paths below are relative to the parent
directory, line numbers refer to `src/src/`.

## The system and its parts

| Part | Source | Modules | State of the model |
|---|---|---|---|
| Variable table | `storage.c`, `variable.c` | `StorageOps`, `Storage`, `VariableStore` | modelled, proved |
| Enumeration | `storage.c`, `xen_variable_server.c` | `Enumeration` | modelled, proved but for termination |
| Request handlers | `xen_variable_server.c` | `VariableServer`, `Storage`, `Dispatch` | modelled, proved |
| Authenticated variables | `uefi/auth.c`, `uefi/authlib.c` | `AuthOps`, `VariableServer`, `TimestampHistory` | modelled, proved; cryptography abstract |
| XAPI persistence | `xapi.c` | `VariableServer`, `Persistence`, `XapiClient` | modelled, proved but for liveness; HTTP, XML and base64 are outcomes |
| Serializer | `serializer.c`, `variable.c` | `Serializer`, `Persistence` | the persisted list, field by field |
| Signals, shutdown | `uefistored.c` | `Persistence` | handler and signals inside it; not the release of Xen handles |
| Start-up | `uefistored.c`, `authlib.c` | `VariableServer` | from certificate files and pull to the loop |
| I/O request server | `uefistored.c` | `IoreqServer`, `Dispatch` | modelled, proved but for liveness |
| PKCS#7, X.509 | `uefi/pkcs7_verify.c` | none | OpenSSL |
| Privileges, logging, names | `depriv.c`, `log.c`, ... | none | no state |

A vCPU writes to the I/O port; Xen puts the request in the shared page and
raises an event channel (`IoreqServer`). The daemon's only thread maps the
guest's pages, reads version and command and runs one handler (`Dispatch`).
SetVariable goes through the attribute checks to the table, directly or through
authentication (`VariableServer`, `AuthOps`, `StorageOps`), and a successful
write of a non-volatile variable pushes all of them to XAPI before the guest is
answered: what is sent and kept is the subject of `Persistence`, the sessions,
retries and the throttle that of `XapiClient`. (`CHANGELOG.md:13` says that the
daemon does not wait for a write to update XAPI; `handle_set_variable` calls
`backend_set` before it answers, and the models follow the code.)

## Modules

**StorageOps** has one operator per function of `storage.c`. A table is the
record of the statics: slots, `total`, `used` and the iterator's index. An
operator returns the status and the new table, so that a handler that makes
several calls is one action. A (name, GUID) pair is one key; whether the size a
caller passes counts a terminating NUL is kept, because the code's comparison
depends on it. Data is a sequence of units, so that append and the size limit
are real. `LimitsAssumption` is what `config.h` fixes: positive limits, and a
product of the three that exceeds the slots.

**Storage** makes the table a state machine: `Set`, `Get`, `GetNext` and
`QueryInfo`, the last three with the answers their handlers build, buffers that
are too small included. `Spec` has the calls of the plain path, `StampedSpec`
adds `storage_set_with_timestamp`. **VariableStore** is the dictionary the table
is to be; `ImplementsStore` states that each call on the table is that call on
the dictionary, with the same answer. It is stated call by call, since the plain
form (`VS!Spec`) would let one call be explained by another with the same
outcome. The refinement mapping (`Dictionary`) looks every key of an occupied
slot up the way a read does.

**Enumeration** is a GetNextVariableName walk with writes between its calls.
The ghosts `stable` and `lost` say which variables the walk owes the guest and
whether the guest's position was deleted, in which case the code ends the walk.

**AuthOps** translates `auth.c` function by function on a platform: table, mode,
and the secure boot setting. A signature is the certificate its chain leads to
and whether it verifies over the right bytes; a signature list is a sequence of
certificates, and a unit that is none stands for a malformed one. The order of
steps is the code's: the data is stored before the signer's digest is computed.
A request says whether its name counts a terminator, which decides whether
`is_secure_boot_variable` and `is_ro` recognise it.

**VariableServer** composes table, authentication, push, pull and start. A
request is one action, its push included. The loops over the slots, the pulled
list and the certificate files are recursive functions of the number of turns
taken (`Collected`, `Restored`, `Loaded`). `AuthFiles` are the files found on
disk, in the order of the daemon's table of them, each with bytes or empty;
`auth_lib_load` says which of them are read, and `load_auth_files` skips the
empty ones. **TimestampHistory** adds the latest timestamp each variable has
carried, which the daemon does not keep.

**IoreqServer** has the daemon's loop in the steps that Xen and the vCPUs can
interleave with. The event channel device is external: an event on an enabled
port queues and disables it, an event on a disabled one waits for the unmask.

**Dispatch** extends it with the request itself. The buffer stays mapped in the
guest while it is read, version and command are read twice, and another vCPU
may write in between; each read is an action, and `touched` records that the
guest did write. What a handler then does with the variables is left to the
other modules: here it is the answer `served`.

**Serializer** gives the persisted list as a sequence of fields, and its decoder,
which takes the whole list or nothing.

**Persistence** takes the push, the signal handler, the save file and the load
apart into steps, on encoded lists. The handler never returns to the main
thread, so one program counter is enough; `SignalAt` says where a signal may
arrive and `NestedAt` where another may interrupt the handler, which then starts
over. `PullAnswers` and `PushAnswers` say whether XAPI may fail, `DiskSpace` how
much of a save file the disk may take, `MaxResumeSize` how much the next daemon
reads. A kill while the file is open leaves it empty. The handler also serves SIGABRT, so the
assertion of `xapi_init` leads there. The ghosts are what was answered, the key
of the request being handled, and the variables at the moment of the signal.

**XapiClient** has the calls to XAPI request by request: the pull and the secure
boot notification, which log in and retry, and the push, which is throttled. A
request is answered, answered with a failure, never delivered, or delivered
while its answer is lost. Time is counted in half seconds, the clock may be set,
and the credit is an unsigned word.

The `*Proofs` modules hold the proofs; the `MC*` modules give the constants
values. An operator with a comment "As if ..." is a deliberately wrong variant of
the definition after it, used to test that a property notices.

## Runs

Passing runs, with the number of distinct states:

| Run | Properties | Instance |
|---|---|---|
| `storage` (1,126) | `TypeOK`, `Accounting`, `UniqueKeys`, `SlotsWellFormed`, `BudgetNeverBinds`, `ImplementsStore` | two slots for three keys and one whose name is too long; data below, at and above the limit; appends; buffers below and at the sizes asked for |
| `enumeration` (123,583) | `WalkComplete`, `WalkInv`, `NoRepeat`, `WalkEnds` | four keys for three slots, runtime and boot walks |
| `trust` (23,502) | `ModeMatchesPK`, `TrustChain`, `RefusalChangesNothing`, `StampBackOnlyByAppend`, `PkComesWithKek` | PK, KEK, db; two certificates; two timestamps; host certificate files for none, for all three, without KEK, and with an empty KEK; restarts with what was persisted |
| `server` (32,797) | `TypeOK`, `ModeVariablesAgree`, `PrivateOwner`, `NothingUnsaved`, `StartRestoresAll`, `PushIsCurrent` | PK, a private and an ordinary variable; eight slots of which the daemon takes five; secure boot enforced or not; kills and restarts |
| `ioreq` (645,927) | `TypeOK`, `ServedOnce`, `NoLostWakeup`, `AnswerFitsRequest`, `AssertionsHold`, `Answered` | two vCPUs, an access of the wrong size, requests of all commands, right and wrong versions and sizes, a buffer that changes between two reads |
| `persistence` (256,588) | `TypeOK`, `ListComplete`, `Durable`, `AssertionHolds`, `ResumeRestores`, `SaveUsable`, `Completes` | two keys, volatile and not; pushes that fail; a disk with room for part of a file; a limit that a file of one variable meets and one of two exceeds; signals between requests, before a send and in the handler |
| `xapi_client` (1,179,241) | `TypeOK`, `OwnSession`, `RetriesSuffice`, `LeaksBounded`, `RateBound`, `CallsReturn` | two retries, three faults of every kind, a credit of two in a word of sixteen, a clock set forward and back |

The bounds are enough for the cases that matter: a table that is full, has
holes and reuses them; two signers, so that a right and a wrong one exist for
each role; a timestamp below, equal and above; a loop with another vCPU before
and after the one served; more faults than retries; more pushes than the credit
allows; a credit that wraps. The limit of `persistence` is that low so that it
binds with two keys; two variables are loaded together from XAPI there, and
written together to the file (`SaveUsable`), while a resume with several is
covered by the theorem `ResumesRestore`, for any limit. `BufferSizes` has a size that holds some data and
no name and one that holds every name.

Runs that end in a counterexample, each against a sentence of the repository
(quoted under "findings" of `PROJECT.json`):

| Run | Property | What the code does |
|---|---|---|
| `storage_stamped` | `StampedOnSuccess` | a refused timestamped write answers EFI_SUCCESS and moves the timestamp |
| `last_slot` | `AllSaved` | the variable in the last slot is never pushed |
| `unnamed_signer` | `ModeMatchesPK` | a PK whose signer has no common name is stored without the mode change |
| `timestamp_append` | `OldTimestampRefused` | an append moves the stored timestamp back |
| `signal_collect` | `ListComplete` | a signal during a push sends part of the list |

The passing runs state the same properties under the condition that excludes
these cases, and name it: `NothingUnsaved` with a free last slot, `PkComesWithKek`
without an empty KEK file, requests without counted terminators, `NamedCerts` with all certificates, `XapiAnswers` and
`PullAnswers` without failures where durability is concerned, `SignalAt` and
`NestedAt` without the windows below. Setting these constants otherwise shows
more of the same kind:

- `TerminatedNames = TRUE` violates `UniqueKeys`: a name that counts its
  terminator is never found and is created again. In `VariableServer` it violates
  `ModeMatchesPK`, `TrustChain`, `RefusalChangesNothing`, `StampBackOnlyByAppend`,
  `ModeVariablesAgree`, `PrivateOwner`, `NothingUnsaved` and `StartRestoresAll`:
  such a name is neither read-only nor a secure boot variable, the second slot it
  takes holds the same characters, and an authenticated write of it is stored and
  then answered EFI_NOT_FOUND (`auth.c:1455`);
- such names in `Writes` of `Persistence` violate `ListComplete`, `Durable`,
  `AssertionHolds` and `ResumeRestores`: the list has the variable twice;
- `"load"` in `SignalAt` violates `Durable`: the handler pushes what is loaded so
  far;
- `FALSE` in `PullAnswers` violates `Durable`: a pull that fails counts as an
  empty store, and the next push replaces what XAPI had;
- `"h_collect"` or `"h_gather"` in `NestedAt` violates `ListComplete`, and
  `"h_end"` violates `SaveUsable`: the handler starts over with the iterator, or
  the file, as its first activation left them;
- a write with `"AP"` alone in `Writes` violates `AssertionHolds`: the variable is
  stored without attributes, and to store it again at the resume is a deletion.

They are listed as hazards in `PROJECT.json`. Two things the properties allow,
since no document of the repository speaks of them: a guest
whose save file is over the limit is resumed without variables
(`ResumeRestores`, and `Durable` drops what was promised), and a restart keeps
data and attributes but neither timestamps nor signers (`StartRestoresAll`).
`CHANGELOG.md:38` says that the default PK is not loaded without a default db
either; `auth_lib_load` looks at the KEK alone, and so does `PkComesWithKek`.

## Fairness

Safety is checked without relying on fairness. `Answered` assumes that the
daemon's thread runs and that Xen delivers an event and resumes a completed
vCPU; a guest need not send, and may write to a buffer in process, in which case
an assertion may end the daemon. `WalkEnds` assumes that a guest in its loop
makes the next call. `Completes` assumes that the process takes its own steps;
it assumes nothing of signals, kills or starts. `CallsReturn` assumes that the
daemon's thread runs, and that XAPI answers a request or closes the connection:
`read_socket` has no timeout, so without that a call need not return. The daemon
is a single thread that blocks only in poll, in the sleeps of the throttle and
of the retries, and in the call to XAPI.

In `ioreq` a guest may stop sending and in `xapi_client` the counters are
bounded, so these two runs do not look for deadlock.

## Proofs

All theorems hold for every value of the constants that the assumptions named in
the modules allow; TLC evaluates those assumptions in every run.

**The table** (`TableProofs`, `StorageProofs`). `TypeCorrect`, `AccountingHolds`,
`SlotsWellFormedHolds` and `BudgetNeverBindsHolds` are the invariants of that
name in `Storage`; `UniqueKeysHold` says that no key is in two slots if no caller
counts a terminator. The inductive invariant `TableOK` (`TableAlwaysOK`, with the
timestamped writes too) joins the types, the counters and the shape of the
slots. The counters are not inductive alone: a deletion takes one from `total`,
which stays a natural number only because the slot it clears was counted; and a
creation goes to a slot whose key is empty, which is a free slot only because
cleared slots hold nothing. `TableProofs` has one lemma per operator:
`PutSlotOK` does the counting once, `RemoveOK`, `ReplaceOK` and `CreateOK` apply
it, `SetOK` and `SetWithTimestampOK` combine them.

**The refinement** (`StorageProofs`). `TableImplementsStore` proves
`ImplementsStore`, if no caller counts a terminator: the slot array is the
dictionary, call by call. It needs `TableOK` and `KeysDiffer` between calls: with
a key in two slots a deletion would uncover the other one, and the remaining
storage is that of the dictionary only because the counters agree with the
slots. `RemoveEntry` and `PutEntry` say what changing a slot does to the
dictionary, `EntriesCounted` that it has as many entries as slots are occupied
(a bijection), `OnlySizesBind` that the budget refuses nothing of its own;
`SetIsSet`, `GetIsGet`, `GetNextIsGetNext` and `QueryIsQuery` take one call each.

**Enumeration** (`EnumerationProofs`). `WalkKnowsItsPlace`, `WalksAreComplete`
and `NothingTwice` prove `WalkInv`, `WalkComplete` and `NoRepeat` for any table
and any writes between the calls. `WalkComplete` alone is not inductive: it says
nothing of a walk under way. `WalkInv` does (what was answered of the stable
variables is what lies up to the cursor's slot), and needs unique keys and the
fact that a write never moves a variable to another slot (`StableSlot`).

**Requests** (`IoreqProofs`). `ServedExactlyOnce`, `NoEventLost`, `AnswersFit` and
`NoMessageAborts` prove `ServedOnce`, `NoLostWakeup`, `AnswerFitsRequest` and
`AssertionsHold` for any number of vCPUs and any messages. `IoreqInv` adds to
them that a request in process stands still and has been handled or not
depending on the point of the loop (`Serving`), and that a port is enabled or
queued except between the poll that took it and its unmask (`Armed`), which is
why an event in that window comes back. `DispatchRefines` shows that every step
of `Dispatch` is a step of `IoreqServer` or leaves it alone, so that the
transport is proved once; `DispatchInv` then says that, until the guest writes
to the buffer, what was read earlier is what is still there.

`RingStaysBounded` proves `TypeOK`, of which the interesting part is that the ring
of pending ports never needs more than two places for each vCPU. That bound is
not inductive. `RingInv` counts, for each vCPU, what may still put its port into
the ring: the events that may be raised before the daemon accepts its next
request, the port that the loop has taken and is looking at, an event remembered
while the port was masked, and a port not yet bound. The sum (`Ahead`) is at most
two, and the port stands in the ring at most twice less that sum (`Paid`).

**XAPI** (`XapiClientProofs`). `RateStaysBounded` proves `RateBound` for any
credit, word and clock: `RateInv` counts pushes sent, the one under way, the
credit that the throttle would find now and the half second that has passed, and
bounds their sum; the bound on what was sent does not survive a step without the
credit that is left. `SessionIsOwn`, `AllRetriesTried` and `LeaksStayBounded`
prove `OwnSession`, `RetriesSuffice` and `LeaksBounded` from `ClientInv`, which
counts the open sessions against the faults so far at every request.
`ClientTypes` proves `TypeOK`.

**Persistence** (`PersistenceProofs`). `RoundTrip` proves that the decoder returns
any list of stored variables as it was written, `CutIsRefused` that it takes
nothing from one that is cut anywhere. `ListsComplete` and `SavesUsable` prove
`ListComplete` and `SaveUsable` for tables of any size, any writes, any failures
of XAPI and any disk. They assume what the run assumes, `QuietCollection` (no
signal while variables are collected) and, for the list, `PlainNames` (no name
counts a terminator), for the save file `QuietEnd` (no signal after the table is
cleared). `ListComplete` speaks of a finished list only;
`CollectInv` says of a list in progress that it holds what lies before the
iterator (`Gathered`), and that outside of a collection the iterator is at the
start, which is what a signal in the wrong place destroys. `IterStep` shows that
one call of `storage_iter` keeps this; unique keys, which `PlainNames` gives, are
needed for each variable to be there once. `SaveInv` adds that the table does not change from the signal
to the save. `PersistenceTypes` proves `TypeOK`, with signals anywhere and names of
either kind: wherever a
collection began, its list has no more variables than the iterator has slots
behind it (`TypeInv`), so that what is pushed is within the limit of the decoder
and XAPI never holds what the next start would refuse.

**Durability** (`PersistenceProofs`). `LoadsSucceed` proves `AssertionHolds`,
`ResumesRestore` proves `ResumeRestores` and `PushesDurable` proves `Durable`, all
for tables of any size. The argument is about what was kept: `RestoreInv` says
that everything in XAPI and in the file decodes to a list of different keys,
within the limits, with attributes, and shorter than the table, and that a load
fills the table from the front, so that each variable finds the first free slot
(`LoadOne`). `ResumeInv` adds that what is loaded and what is still to come are
together what was saved, or nothing when the file is too large, that a file that
was cut is not read, and that one still open is empty. `DurableInv`
follows the promises made to the guest through the table, the list being
loaded, the file and XAPI: wherever the next push may come from has all of them.
All three assume `PlainNames`, `QuietCollection` and `WritesHaveAttributes` (no
write with `"AP"` alone), the last two also `QuietEnd`, and the last `QuietStart`
(a pull does not fail, and no signal comes during the load). The limit of the
reader is any number. Each of these conditions
excludes a case listed above or a finding.

**The server** (`AuthProofs`, `ServerProofs`). The theorems state what the
`trust` and `server` runs check, for any certificates, requests, files and number
of slots:

| Theorem | Property | Assumes |
|---|---|---|
| `ServerTypes` | `TypeOK` | |
| `PushesAreCurrent` | `PushIsCurrent` | |
| `ServerInvariant` | `Inv` | `PlainNames` |
| `ModeIsTold` | `ModeVariablesAgree` | `PlainNames` |
| `AnchorsAreOwned` | `TrustChain` | `PlainNames` |
| `PrivateIsOwned` | `PrivateOwner` | `PlainNames` |
| `StampsMoveOn` | `StampBackOnlyByAppend` | `PlainNames` |
| `PkNeedsKek` | `PkComesWithKek` | `PlainNames` |
| `RefusalsAreHarmless` | `RefusalChangesNothing` | `PlainNames`, `NamedCerts = Certs` |
| `ModeFollowsPK` | `ModeMatchesPK` | `PlainNames`, `NamedCerts = Certs` |
| `StartsRestore` | `StartRestoresAll` | `PlainNames`, `FALSE \notin XapiAnswers` |
| `AllIsSaved` | `NothingUnsaved` | all three |

`PlainNames` says that the guest counts no terminators in the sizes of names; the
list above says what happens otherwise. The first two theorems do without it:
the section "Names of either kind" of both modules carries an invariant without
unique keys (`InvAny`) through every function. The second assumption excludes a
signer without a common name: the data is stored before its digest is computed,
so the request then fails halfway, which `unnamed_signer` shows. The third says
that the calls to XAPI succeed; a push that fails is not repeated.

`AuthProofs` has what each function of `auth.c` may do to the table, seen by name
(`Known`, `At`, `Same`): a write concerns one key and leaves every other as it
was (`Edit`), what it stores was verified by the signer its kind demands
(`Verified`), and a failure leaves the table alone or the signer has no name.
`ServerProofs` puts these together for one request (`Done`) and proves the
inductive invariant

    Inv == /\ running \in BOOLEAN
           /\ running => Running(plat)
           /\ ~running => plat = NoPlatform
           /\ XapiOK(xapi)

where `Running` says that the table is in order with no key in two slots, that
no stored name is too long, that the daemon's own variables (SecureBoot,
SetupMode and the others of `ModeKeys`) are in the table and tell the mode, and
that user mode has a PK. That they are there is what keeps a change of mode from
failing: it replaces them in their slots and needs no new one. `XapiOK` says that
the list in XAPI is shorter than the table, with different keys, nothing that
could not be stored again and none of the daemon's own variables; from this
`StartCases` shows that the assertion of `xapi_init` never fails.
`ModeFollowsPK` and `AllIsSaved` each need one more conjunct (setup mode has no
PK; XAPI has what the table keeps), which hold only under their assumptions. A
request without the non-volatile attribute is not pushed, so `AllIsSaved` also
needs that such a request leaves what is kept as it is (`Drift`).

What the loops compute is proved along the number of turns, by looking at the
first turn after which the claim fails (`MinIsSmallest`): the induction
theorems of the library cannot be used by the installed provers, a smallest
counterexample can. `CollectedList`, `RestoredAll` and `LoadedAll` say what the
three loops of the server have done at their end.

Only model-checked: liveness (`WalkEnds`, `Answered`, `Completes`,
`CallsReturn`), which the prover does not handle here. `TimestampHistory` states
one property, which the code violates.

## Not modelled

- Start-up before the certificate files are read: arguments, xenstore, the
  registration of the ioreq server, dropping of privileges. Fixed sequences
  that end the process when a step fails.
- The release of Xen handles and memory at shutdown, which touches no variable.
- HTTP, XML-RPC and base64 as text, and with them the size of the buffer in
  which a message is built: a request has an outcome, a list has fields.
- Cryptography and DER (OpenSSL): who signed and whether it verifies are inputs.
- The bytes of requests and replies: names and data are values, with the sizes
  that the handlers compare.
- Logging, allocation failures, tables of names and GUIDs.
