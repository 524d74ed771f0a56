------------------------------ MODULE Dispatch -------------------------------
(***************************************************************************)
(* What the daemon does with a request while it is in process              *)
(* (xen_variable_server_handle_request and the unserialize functions of    *)
(* src/src/xen_variable_server.c), composed with the way the request       *)
(* arrives.  The buffer stays mapped in the guest: its version and command *)
(* are read once to choose the handler and once more by the handler, and   *)
(* another vCPU of the guest may write to it between two reads.  What a    *)
(* handler does with the variables is the subject of other modules; here   *)
(* it is the answer "served".                                              *)
(***************************************************************************)
EXTENDS IoreqServer

CONSTANTS Messages  \* what the guest's buffers may hold

Handlers == {"GET", "SET", "NEXT", "QUERY"}
\* The version, the command, and whether the name and the data are within the
\* limits of struct request.
Message == [version : Nat, command : Handlers \cup {"NOTIFY", "unknown"}, fits : BOOLEAN]

\* The buffer of a vCPU that has no request.
NoMessage == [version |-> 0, command |-> "unknown", fits |-> TRUE]

ASSUME MessagesAssumption == \A m \in Messages : m \in Message

VARIABLES
    alive,    \* no assertion has failed
    buffer,   \* the mapped pages of each vCPU's request
    reply,    \* the status written to them
    at,       \* the next read of the request in process
    command,  \* the command that chose the handler
    again,    \* the command the handler read
    touched   \* the buffer was written to while its request was in process

reads == <<at, command, again>>
memory == <<buffer, reply, touched>>
allvars == <<vars, alive, reads, memory>>

DInit == /\ Init
         /\ alive = TRUE
         /\ buffer = [v \in Vcpus |-> NoMessage]
         /\ reply = [v \in Vcpus |-> "none"]
         /\ at = "none" /\ command = "unknown" /\ again = "unknown"
         /\ touched = [v \in Vcpus |-> FALSE]

-----------------------------------------------------------------------------
(***************************************************************************)
(* The guest                                                               *)
(***************************************************************************)
Request(v, m) ==
    /\ Out(v, "request")
    /\ buffer' = [buffer EXCEPT ![v] = m]
    /\ UNCHANGED <<alive, reads, reply, touched>>

OtherAccess(v) ==
    /\ \E k \in Kinds \ {"request"} : Out(v, k)
    /\ UNCHANGED <<alive, reads, memory>>

\* The guest takes the answer from the buffer.
Return(v) ==
    /\ Resume(v)
    /\ buffer' = [buffer EXCEPT ![v] = NoMessage]
    /\ reply' = [reply EXCEPT ![v] = "none"]
    /\ touched' = [touched EXCEPT ![v] = FALSE]
    /\ UNCHANGED <<alive, reads>>

\* A vCPU that runs writes to the buffer of the request in process.
Overwrite(v, m) ==
    /\ pc = "process" /\ at # "none"
    /\ v # i /\ vcpu[v] = "runs"
    /\ m # buffer[i]
    /\ buffer' = [buffer EXCEPT ![i] = m]
    /\ touched' = [touched EXCEPT ![i] = TRUE]
    /\ UNCHANGED <<vars, alive, reads, reply>>

-----------------------------------------------------------------------------
(***************************************************************************)
(* The daemon, one read at a time                                          *)
(***************************************************************************)
Answer(r) ==
    /\ handle_ioreq
    /\ reply' = [reply EXCEPT ![i] = r]
    /\ at' = "none" /\ command' = "unknown" /\ again' = "unknown"
    /\ UNCHANGED <<alive, buffer, touched>>

ReadNext(step) ==
    /\ at' = step
    /\ UNCHANGED <<vars, alive, memory>>

\* A failed assertion ends the process through its signal handler.
Abort ==
    /\ alive' = FALSE
    /\ UNCHANGED <<vars, reads, memory>>

AcceptRequest ==
    /\ Accept
    /\ at' = IF kind[i] = "request" THEN "version" ELSE "none"
    /\ UNCHANGED <<alive, command, again, memory>>

IgnoreIoreq ==
    /\ at = "none"
    /\ handle_ioreq
    /\ UNCHANGED <<alive, reads, memory>>

ReadVersion ==
    /\ at = "version"
    /\ IF buffer[i].version # 1 THEN Answer("DEVICE_ERROR")
       ELSE ReadNext("command") /\ UNCHANGED <<command, again>>

ReadCommand ==
    /\ at = "command"
    /\ \/ /\ buffer[i].command \in Handlers
          /\ command' = buffer[i].command
          /\ ReadNext("version2")
          /\ UNCHANGED again
       \/ /\ buffer[i].command = "NOTIFY"
          /\ \E r \in {"SUCCESS", "DEVICE_ERROR"} : Answer(r)
       \/ buffer[i].command = "unknown" /\ Answer("none")

ReadVersionAgain ==
    /\ at = "version2"
    /\ IF buffer[i].version = 1
       THEN ReadNext("command2") /\ UNCHANGED <<command, again>>
       ELSE CASE command = "GET" -> Answer("UNSUPPORTED")
              [] command = "QUERY" -> Answer("DEVICE_ERROR")
              [] OTHER -> Abort

ReadCommandAgain ==
    /\ at = "command2"
    /\ again' = buffer[i].command
    /\ ReadNext("body")
    /\ UNCHANGED command

\* What the handlers do once they have read the rest.
handle_get_variable ==
    IF ~buffer[i].fits THEN Answer("OUT_OF_RESOURCES")
    ELSE IF again # "GET" THEN Answer("DEVICE_ERROR")
    ELSE Answer("served")

\* As if the sizes were not looked at.
handle_set_variable_AnySize ==
    IF again # "SET" THEN Answer("DEVICE_ERROR") ELSE Answer("served")

handle_set_variable ==
    IF ~buffer[i].fits THEN Answer("OUT_OF_RESOURCES")
    ELSE IF again # "SET" THEN Answer("DEVICE_ERROR")
    ELSE Answer("served")

\* As if a name that is too long failed an assertion.
handle_get_next_variable_AssertSize ==
    IF ~buffer[i].fits \/ again # "NEXT" THEN Abort ELSE Answer("served")

handle_get_next_variable ==
    IF ~buffer[i].fits THEN Answer("DEVICE_ERROR")
    ELSE IF again # "NEXT" THEN Abort
    ELSE Answer("served")

handle_query_variable_info ==
    IF again # "QUERY" THEN Answer("DEVICE_ERROR") ELSE Answer("served")

ReadBody ==
    /\ at = "body"
    /\ \/ command = "GET" /\ handle_get_variable
       \/ command = "SET" /\ handle_set_variable
       \/ command = "NEXT" /\ handle_get_next_variable
       \/ command = "QUERY" /\ handle_query_variable_info

Transport == /\ Bind \/ EnterLoop \/ Poll \/ Unmask \/ NotReady \/ Respond \/ Notify
             /\ UNCHANGED <<alive, reads, memory>>

DaemonStep ==
    /\ alive
    /\ \/ Transport \/ AcceptRequest \/ IgnoreIoreq
       \/ ReadVersion \/ ReadCommand
       \/ ReadVersionAgain \/ ReadCommandAgain \/ ReadBody

XenStep(v) == \/ SendEvent(v) /\ UNCHANGED <<alive, reads, memory>>
              \/ Return(v)

DNext == \/ DaemonStep
         \/ \E v \in Vcpus : \/ XenStep(v) \/ OtherAccess(v)
                             \/ \E m \in Messages : Request(v, m) \/ Overwrite(v, m)

\* The daemon's thread and Xen make progress; a guest need not send.
DSpec == /\ DInit /\ [][DNext]_allvars
         /\ WF_allvars(DaemonStep)
         /\ \A v \in Vcpus : WF_allvars(XenStep(v))

-----------------------------------------------------------------------------
\* What a guest that leaves its request alone is to be told.
Answers(m) ==
    IF m.version # 1 THEN {"DEVICE_ERROR"}
    ELSE IF m.command = "NOTIFY" THEN {"SUCCESS", "DEVICE_ERROR"}
    ELSE IF m.command = "unknown" THEN {"none"}
    ELSE IF m.fits \/ m.command = "QUERY" THEN {"served"}
    ELSE IF m.command = "NEXT" THEN {"DEVICE_ERROR"} ELSE {"OUT_OF_RESOURCES"}

\* A request that stays as it was sent gets the answer its version, command and
\* sizes call for, although the daemon reads them twice and other vCPUs send
\* and resume meanwhile.
AnswerFitsRequest ==
    \A v \in Vcpus :
        ioreq[v] = "RESP" /\ kind[v] = "request" /\ ~touched[v] => reply[v] \in Answers(buffer[v])

\* The assertions on the version and the command of a request
\* (xen_variable_server.c:258, 373, 412 and 413) hold unless its buffer changed
\* between the two reads: no request fails them by what it contains.
AssertionsHold == ~alive => touched[i]

\* Every request is answered and its vCPU resumes, also when its event arrives
\* while the daemon is still loading its variables, or serves another vCPU;
\* only an assertion that failed leaves it waiting.
Answered == \A v \in Vcpus : vcpu[v] # "runs" ~> vcpu[v] = "runs" \/ ~alive
=============================================================================
