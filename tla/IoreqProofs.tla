---------------------------- MODULE IoreqProofs ------------------------------
(***************************************************************************)
(* Proofs about IoreqServer and Dispatch, for any number of vCPUs and any  *)
(* messages.                                                               *)
(***************************************************************************)
EXTENDS Dispatch, FiniteSetTheorems, TLAPS

Queued(v) == \E n \in DOMAIN ring : ring[n] = v

Shape ==
    /\ ioreq \in [Vcpus -> {"NONE", "READY", "INPROCESS", "RESP"}]
    /\ kind \in [Vcpus -> Kinds]
    /\ served \in [Vcpus -> Nat]
    /\ pc \in {"bind", "start", "poll", "unmask", "check", "process", "respond", "notify"}
    /\ i \in Vcpus /\ port \in Vcpus
    /\ vcpu \in [Vcpus -> {"runs", "sends", "waits"}]
    /\ wake \in [Vcpus -> BOOLEAN]
    /\ enabled \in [Vcpus -> BOOLEAN] /\ pending \in [Vcpus -> BOOLEAN]
    /\ ring \in Seq(Vcpus)

Due(v) == IF kind[v] = "request" THEN 1 ELSE 0

\* A request is in process from Accept to Respond, and its vCPU stands still.
Serving ==
    /\ \A v \in Vcpus : vcpu[v] = "runs" => ioreq[v] = "NONE"
    /\ \A v \in Vcpus : ioreq[v] = "READY" => served[v] = 0
    /\ \A v \in Vcpus : ioreq[v] = "RESP" => served[v] = Due(v)
    /\ pc \in {"process", "respond"} => ioreq[i] = "INPROCESS"
    /\ pc = "process" => served[i] = 0
    /\ pc = "respond" => served[i] = Due(i)

\* Outside the first unmask after a poll, a port is enabled or queued.
Armed ==
    /\ pc = "bind" => \A v \in Vcpus : v < i => Queued(v)
    /\ pc = "bind" => \A v \in Vcpus : vcpu[v] = "runs"
    /\ pc # "bind" => \A v \in Vcpus : \/ enabled[v] \/ Queued(v)
                                       \/ (port = v /\ pc = "unmask" /\ i = 0)

IoreqInv == Shape /\ Serving /\ Armed /\ NoLostWakeup

-----------------------------------------------------------------------------
(***************************************************************************)
(* The ring                                                                *)
(***************************************************************************)
\* What is appended is queued, and nothing is dropped.
LEMMA AppendQueues ==
    ASSUME ring \in Seq(Vcpus), NEW p \in Vcpus, ring' = Append(ring, p)
    PROVE  /\ ring' \in Seq(Vcpus)
           /\ Queued(p)'
           /\ \A v \in Vcpus : Queued(v) => Queued(v)'
<1>1. /\ ring' \in Seq(Vcpus)
      /\ DOMAIN ring' = 1 .. Len(ring) + 1
      /\ ring'[Len(ring) + 1] = p
      /\ \A n \in DOMAIN ring : ring'[n] = ring[n] /\ n \in DOMAIN ring'
  OBVIOUS
<1>2. Len(ring) + 1 \in DOMAIN ring'
  BY <1>1
<1> QED
  BY <1>1, <1>2 DEF Queued

\* Taking the head drops no other port.
LEMMA TailQueues ==
    ASSUME ring \in Seq(Vcpus), ring # <<>>, ring' = Tail(ring)
    PROVE  /\ ring' \in Seq(Vcpus)
           /\ Head(ring) \in Vcpus
           /\ \A v \in Vcpus : Queued(v) => v = Head(ring) \/ Queued(v)'
<1>1. /\ ring' \in Seq(Vcpus)
      /\ Head(ring) \in Vcpus
      /\ Head(ring) = ring[1]
      /\ Len(ring') = Len(ring) - 1
      /\ \A n \in 1 .. Len(ring) - 1 : ring'[n] = ring[n + 1]
  OBVIOUS
<1>2. ASSUME NEW v \in Vcpus, NEW n \in DOMAIN ring, ring[n] = v, n # 1
      PROVE  Queued(v)'
  <2>1. n - 1 \in DOMAIN ring' /\ ring'[n - 1] = v
    BY <1>1, <1>2
  <2> QED
    BY <2>1 DEF Queued
<1> QED
  BY <1>1, <1>2 DEF Queued

-----------------------------------------------------------------------------
(***************************************************************************)
(* The transport                                                           *)
(***************************************************************************)
\* vCPUs are numbered from zero without a gap.
LEMMA VcpusFacts ==
    /\ Vcpus \subseteq Nat /\ 0 \in Vcpus /\ VcpuCount - 1 \in Vcpus
    /\ \A n \in Vcpus : n <= VcpuCount - 1
    /\ \A n \in Vcpus : n # VcpuCount - 1 => n + 1 \in Vcpus
BY VcpuAssumption DEF Vcpus

\* No request is under way before the ports are bound.
LEMMA IoreqInit == Init => IoreqInv
<1> SUFFICES ASSUME Init PROVE IoreqInv
  OBVIOUS
<1>1. Shape
  BY VcpusFacts DEF Init, Shape
<1>2. Serving /\ NoLostWakeup
  BY DEF Init, Serving, NoLostWakeup
<1>3. Armed
  BY VcpusFacts DEF Init, Armed
<1> QED
  BY <1>1, <1>2, <1>3 DEF IoreqInv

\* What raising and unmasking a port do to the device.
LEMMA RaiseQueues ==
    ASSUME Shape, NEW p \in Vcpus, Raise(p)
    PROVE  /\ ring' \in Seq(Vcpus)
           /\ enabled' \in [Vcpus -> BOOLEAN] /\ pending' \in [Vcpus -> BOOLEAN]
           /\ \A v \in Vcpus : Queued(v) => Queued(v)'
           /\ \A v \in Vcpus \ {p} : enabled'[v] = enabled[v]
           /\ enabled[p] => Queued(p)'
           /\ ~enabled[p] => ~enabled'[p]
<1>1. CASE enabled[p] /\ Queue(p) /\ UNCHANGED pending
  BY <1>1, AppendQueues DEF Shape, Queue
<1>2. CASE ~enabled[p] /\ pending' = [pending EXCEPT ![p] = TRUE] /\ UNCHANGED <<ring, enabled>>
  BY <1>2 DEF Shape, Queued
<1> QED
  BY <1>1, <1>2 DEF Raise

\* After xenevtchn_unmask the port is enabled, or queued again for an event
\* that came in between.
LEMMA UnmaskArms ==
    ASSUME Shape, NEW p \in Vcpus, xenevtchn_unmask(p)
    PROVE  /\ ring' \in Seq(Vcpus)
           /\ enabled' \in [Vcpus -> BOOLEAN] /\ pending' \in [Vcpus -> BOOLEAN]
           /\ \A v \in Vcpus : Queued(v) => Queued(v)'
           /\ \A v \in Vcpus \ {p} : enabled'[v] = enabled[v]
           /\ enabled'[p] \/ Queued(p)'
<1>1. CASE pending[p] /\ Queue(p) /\ pending' = [pending EXCEPT ![p] = FALSE]
  BY <1>1, AppendQueues DEF Shape, Queue
<1>2. CASE ~pending[p] /\ enabled' = [enabled EXCEPT ![p] = TRUE] /\ UNCHANGED <<ring, pending>>
  BY <1>2 DEF Shape, Queued
<1> QED
  BY <1>1, <1>2 DEF xenevtchn_unmask

\* Every step of the loop, of Xen and of a vCPU keeps the invariant.
LEMMA IoreqStep == IoreqInv /\ [Next]_vars => IoreqInv'
<1> SUFFICES ASSUME IoreqInv, [Next]_vars PROVE IoreqInv'
  OBVIOUS
<1> USE VcpusFacts
<1> USE DEF IoreqInv, NoLostWakeup
<1>1. CASE \E v \in Vcpus : \E k \in Kinds : Out(v, k)
  <2> PICK v \in Vcpus, k \in Kinds : Out(v, k)
    BY <1>1
  <2> USE DEF Out, loop, evtchn
  <2>1. Shape'
    BY ZenonT(30) DEF Shape
  <2>2. Serving'
    BY DEF Shape, Serving, Due
  <2>3. Armed'
    BY DEF Shape, Armed, Queued
  <2>4. NoLostWakeup'
    BY DEF Shape
  <2> QED
    BY <2>1, <2>2, <2>3, <2>4
<1>2. CASE \E v \in Vcpus : SendEvent(v)
  <2> PICK v \in Vcpus : SendEvent(v)
    BY <1>2
  <2> USE DEF SendEvent, page, loop
  <2>1. Shape'
    BY RaiseQueues, ZenonT(30) DEF Shape
  <2>2. Serving'
    BY DEF Shape, Serving, Due
  <2>3. Armed'
    BY RaiseQueues, ZenonT(30) DEF Shape, Armed
  <2>4. pc # "bind"
    BY DEF Shape, Armed
  <2>5. NoLostWakeup'
    <3> SUFFICES ASSUME NEW w \in Vcpus, ioreq[w] = "READY", vcpu'[w] = "waits"
                 PROVE  \/ Queued(w)'
                        \/ port = w /\ ((pc = "unmask" /\ i <= w) \/ (pc = "check" /\ i = w))
      BY DEF Queued
    <3>1. CASE w = v
      BY <2>4, <3>1, RaiseQueues DEF Armed
    <3>2. CASE w # v
      BY <3>2, RaiseQueues, ZenonT(30) DEF Shape, Queued
    <3> QED
      BY <3>1, <3>2
  <2> QED
    BY <2>1, <2>2, <2>3, <2>5
<1>3. CASE \E v \in Vcpus : Resume(v)
  <2> PICK v \in Vcpus : Resume(v)
    BY <1>3
  <2> USE DEF Resume, loop, evtchn
  <2>1. Shape'
    BY ZenonT(30) DEF Shape
  <2>2. Serving'
    BY DEF Shape, Serving, Due
  <2>3. Armed'
    BY DEF Shape, Armed, Queued
  <2>4. NoLostWakeup'
    BY DEF Shape
  <2> QED
    BY <2>1, <2>2, <2>3, <2>4
<1>4. CASE Bind
  <2> USE DEF Bind, page, guest
  <2>1. i \in Vcpus /\ ring' = Append(ring, i)
    BY <1>4 DEF Shape, Queue
  <2>2. Shape'
    BY <1>4, <2>1, AppendQueues, ZenonT(30) DEF Shape, Queue
  <2>3. Serving'
    BY <1>4 DEF Shape, Serving, Due
  <2>4. \A v \in Vcpus : v <= i => Queued(v)'
    BY <1>4, <2>1, AppendQueues DEF Shape, Armed
  <2>5. Armed'
    BY <1>4, <2>4 DEF Shape, Armed
  <2>6. NoLostWakeup'
    BY <1>4 DEF Shape, Armed
  <2> QED
    BY <2>2, <2>3, <2>5, <2>6
<1>5. CASE EnterLoop
  BY <1>5 DEF EnterLoop, page, guest, evtchn, Shape, Serving, Due, Armed, Queued
<1>6. CASE Poll
  <2> USE DEF Poll, page, guest
  <2>1. /\ ring' \in Seq(Vcpus) /\ port' \in Vcpus
        /\ \A v \in Vcpus : Queued(v) => v = port' \/ Queued(v)'
    BY <1>6, TailQueues DEF Shape
  <2>2. Shape'
    BY <1>6, <2>1, ZenonT(30) DEF Shape
  <2>3. Serving'
    BY <1>6 DEF Shape, Serving, Due
  <2>4. Armed'
    BY <1>6, <2>1 DEF Shape, Armed
  <2>5. NoLostWakeup'
    <3> SUFFICES ASSUME NEW w \in Vcpus, ioreq[w] = "READY", vcpu[w] = "waits"
                 PROVE  Queued(w)' \/ (port' = w /\ pc' = "unmask" /\ i' <= w)
      BY <1>6 DEF Queued
    <3>1. Queued(w)
      BY <1>6 DEF Queued
    <3> QED
      BY <1>6, <2>1, <3>1
  <2> QED
    BY <2>2, <2>3, <2>4, <2>5
<1>7. CASE Unmask
  <2> USE DEF Unmask, NextVcpu, page, guest
  <2> port \in Vcpus
    BY DEF Shape
  <2>1. Shape'
    BY <1>7, UnmaskArms, ZenonT(30) DEF Shape
  <2>2. Serving'
    BY <1>7 DEF Shape, Serving, Due
  <2>3. Armed'
    <3>1. pc = "unmask" /\ pc' \in {"unmask", "check", "poll"} /\ port' = port
      BY <1>7
    <3>2. /\ \A v \in Vcpus : Queued(v) => Queued(v)'
          /\ \A v \in Vcpus \ {port} : enabled'[v] = enabled[v]
      BY <1>7, UnmaskArms
    <3>3. \A v \in Vcpus : v # port => enabled[v] \/ Queued(v)
      BY <3>1 DEF Armed
    <3>4. \A v \in Vcpus : enabled'[v] \/ Queued(v)'
      <4> TAKE v \in Vcpus
      <4>1. CASE v = port
        BY <1>7, <4>1, UnmaskArms
      <4>2. CASE v # port
        BY <3>2, <3>3, <4>2, Zenon
      <4> QED
        BY <4>1, <4>2, Zenon
    <3>5. pc' # "bind"
      BY <3>1
    <3> QED
      BY <3>4, <3>5, Zenon DEF Armed
  <2>4. NoLostWakeup'
    <3> SUFFICES ASSUME NEW w \in Vcpus, ioreq[w] = "READY", vcpu[w] = "waits"
                 PROVE  \/ Queued(w)'
                        \/ port = w /\ ((pc' = "unmask" /\ i' <= w) \/ (pc' = "check" /\ i' = w))
      BY <1>7 DEF Queued
    <3>1. CASE Queued(w)
      BY <1>7, <3>1, UnmaskArms
    <3>2. CASE port = w /\ i <= w
      BY <1>7, <3>2 DEF Shape
    <3> QED
      BY <1>7, <3>1, <3>2 DEF Queued
  <2> QED
    BY <2>1, <2>2, <2>3, <2>4
<1>8. CASE Accept
  <2> USE DEF Accept, guest, evtchn
  <2>1. Shape'
    BY <1>8 DEF Shape
  <2>2. Serving'
    BY <1>8 DEF Shape, Serving, Due
  <2>3. Armed'
    BY <1>8 DEF Shape, Armed, Queued
  <2>4. NoLostWakeup'
    BY <1>8 DEF Shape
  <2> QED
    BY <2>1, <2>2, <2>3, <2>4
<1>9. CASE NotReady
  <2> USE DEF NotReady, NextVcpu, page, guest, evtchn
  <2>1. Shape'
    BY <1>9, ZenonT(30) DEF Shape
  <2>2. Serving'
    BY <1>9 DEF Shape, Serving, Due
  <2>3. Armed'
    BY <1>9 DEF Shape, Armed, Queued
  <2>4. NoLostWakeup'
    BY <1>9 DEF Shape
  <2> QED
    BY <2>1, <2>2, <2>3, <2>4
<1>10. CASE handle_ioreq
  <2> USE DEF handle_ioreq, guest, evtchn
  <2>1. Shape'
    BY <1>10, SMTT(30) DEF Shape
  <2>2. Serving'
    BY <1>10 DEF Shape, Serving, Due
  <2>3. Armed'
    BY <1>10 DEF Shape, Armed, Queued
  <2>4. NoLostWakeup'
    BY <1>10 DEF Shape
  <2> QED
    BY <2>1, <2>2, <2>3, <2>4
<1>11. CASE Respond
  <2> USE DEF Respond, guest, evtchn
  <2>1. Shape'
    BY <1>11 DEF Shape
  <2>2. Serving'
    BY <1>11 DEF Shape, Serving, Due
  <2>3. Armed'
    BY <1>11 DEF Shape, Armed, Queued
  <2>4. NoLostWakeup'
    BY <1>11 DEF Shape
  <2> QED
    BY <2>1, <2>2, <2>3, <2>4
<1>12. CASE Notify
  <2> USE DEF Notify, NextVcpu, page, evtchn
  <2>1. Shape'
    BY <1>12, ZenonT(30) DEF Shape
  <2>2. Serving'
    BY <1>12 DEF Shape, Serving, Due
  <2>3. Armed'
    BY <1>12 DEF Shape, Armed, Queued
  <2>4. NoLostWakeup'
    BY <1>12 DEF Shape
  <2> QED
    BY <2>1, <2>2, <2>3, <2>4
<1>13. CASE UNCHANGED vars
  BY <1>13 DEF vars, page, loop, guest, evtchn, Shape, Serving, Due, Armed, Queued
<1> QED
  BY <1>1, <1>2, <1>3, <1>4, <1>5, <1>6, <1>7, <1>8, <1>9, <1>10, <1>11, <1>12, <1>13
     DEF Next, Daemon

-----------------------------------------------------------------------------
(***************************************************************************)
(* The composition                                                         *)
(***************************************************************************)
\* An answer is the end of handle_ioreq, whatever the daemon read before.
LEMMA ReadsRefine ==
    ASSUME ReadVersion \/ ReadCommand \/ ReadVersionAgain \/ ReadCommandAgain \/ ReadBody
    PROVE  handle_ioreq \/ UNCHANGED vars
BY DEF ReadVersion, ReadCommand, ReadVersionAgain, ReadCommandAgain, ReadBody, Answer, ReadNext,
       Abort, handle_get_variable, handle_set_variable, handle_get_next_variable,
       handle_query_variable_info

\* A step of the composition is a step of the transport, or leaves it alone.
LEMMA DispatchRefines == [DNext]_allvars => [Next]_vars
<1> SUFFICES ASSUME [DNext]_allvars PROVE [Next]_vars
  OBVIOUS
<1>1. CASE DaemonStep
  <2>1. CASE Transport \/ AcceptRequest \/ IgnoreIoreq
    BY <2>1 DEF Transport, AcceptRequest, IgnoreIoreq, Next, Daemon
  <2> QED
    BY <1>1, <2>1, ReadsRefine DEF DaemonStep, Next, Daemon
<1>2. ASSUME NEW v \in Vcpus, XenStep(v) PROVE Next
  BY <1>2 DEF XenStep, Return, Next
<1>3. ASSUME NEW v \in Vcpus, OtherAccess(v) PROVE Next
  BY <1>3 DEF OtherAccess, Next
<1>4. ASSUME NEW v \in Vcpus, NEW m \in Messages, Request(v, m) PROVE Next
  BY <1>4, VcpuAssumption DEF Request, Next
<1>5. ASSUME NEW v \in Vcpus, NEW m \in Messages, Overwrite(v, m) PROVE UNCHANGED vars
  BY <1>5 DEF Overwrite
<1>6. CASE UNCHANGED allvars
  BY <1>6 DEF allvars
<1> QED
  BY <1>1, <1>2, <1>3, <1>4, <1>5, <1>6 DEF DNext

\* The daemon serves every request exactly once, for any number of vCPUs:
\* whatever stale or repeated events wake handler_loop, a request to the I/O
\* port is handed to the variable server once before its vCPU is told.
THEOREM ServedExactlyOnce == DSpec => []ServedOnce
<1>1. DInit => IoreqInv
  BY IoreqInit DEF DInit
<1>2. IoreqInv /\ [DNext]_allvars => IoreqInv'
  BY IoreqStep, DispatchRefines
<1>3. IoreqInv => ServedOnce
  BY DEF IoreqInv, Serving, Due, ServedOnce
<1> QED
  BY <1>1, <1>2, <1>3, PTL DEF DSpec

\* No event is lost, for any number of vCPUs: a request that waits is queued
\* on the event channel device, or handler_loop holds its port and has yet to
\* look at its slot of the shared page.
THEOREM NoEventLost == DSpec => []NoLostWakeup
<1>1. DInit => IoreqInv
  BY IoreqInit DEF DInit
<1>2. IoreqInv /\ [DNext]_allvars => IoreqInv'
  BY IoreqStep, DispatchRefines
<1>3. IoreqInv => NoLostWakeup
  BY DEF IoreqInv
<1> QED
  BY <1>1, <1>2, <1>3, PTL DEF DSpec

-----------------------------------------------------------------------------
(***************************************************************************)
(* The answers                                                             *)
(***************************************************************************)
\* What is known of a buffer that was left alone, after each read.
Known ==
    /\ at \in {"command", "version2", "command2", "body"} => buffer[i].version = 1
    /\ at \in {"version2", "command2", "body"} => buffer[i].command = command
    /\ at = "body" => again = command

Replies == {"none", "SUCCESS", "DEVICE_ERROR", "UNSUPPORTED", "OUT_OF_RESOURCES", "served"}

DispatchInv ==
    /\ alive \in BOOLEAN
    /\ buffer \in [Vcpus -> Message]
    /\ reply \in [Vcpus -> Replies]
    /\ touched \in [Vcpus -> BOOLEAN]
    /\ at \in {"none", "version", "command", "version2", "command2", "body"}
    /\ at # "none" <=> (pc = "process" /\ kind[i] = "request")
    /\ at \in {"version2", "command2", "body"} => command \in Handlers
    /\ ~alive => (at # "none" /\ touched[i])
    /\ ~touched[i] => Known
    /\ (pc = "respond" /\ kind[i] = "request" /\ ~touched[i]) => reply[i] \in Answers(buffer[i])
    /\ AnswerFitsRequest

\* A page that no message was written to reads as a message.
LEMMA NoMessageIsMessage == NoMessage \in Message
BY DEF NoMessage, Message

\* Nothing was read or answered before the first request.
LEMMA DispatchInit == DInit => DispatchInv
BY VcpusFacts, NoMessageIsMessage
   DEF DInit, Init, DispatchInv, Known, AnswerFitsRequest, Replies

\* An answer that fits the buffer ends the request.
LEMMA AnswerKeeps ==
    ASSUME IoreqInv, DispatchInv, alive, at # "none", NEW r \in Replies, Answer(r),
           ~touched[i] => r \in Answers(buffer[i])
    PROVE  DispatchInv'
<1> USE DEF Answer, handle_ioreq, guest, evtchn
<1>1. /\ i \in Vcpus /\ i' = i /\ kind' = kind /\ pc' = "respond" /\ at' = "none"
      /\ ioreq' = ioreq /\ buffer' = buffer /\ touched' = touched /\ alive' = alive
      /\ ioreq[i] = "INPROCESS"
  BY DEF IoreqInv, Shape, Serving
<1>2. reply' \in [Vcpus -> Replies] /\ reply'[i] = r /\ \A v \in Vcpus \ {i} : reply'[v] = reply[v]
  BY <1>1 DEF DispatchInv
<1>3. AnswerFitsRequest'
  BY <1>1, <1>2 DEF DispatchInv, AnswerFitsRequest
<1> QED
  BY <1>1, <1>2, <1>3 DEF DispatchInv, Known

\* An assertion fails only on a buffer that was written to.
LEMMA AbortKeeps ==
    ASSUME DispatchInv, at # "none", touched[i], Abort
    PROVE  DispatchInv'
BY ZenonT(30) DEF Abort, vars, page, loop, guest, evtchn, reads, memory, DispatchInv, Known, AnswerFitsRequest

\* What the fields of a message can be.
LEMMA MessageFields ==
    ASSUME NEW m \in Message
    PROVE  /\ m.version \in Nat /\ m.fits \in BOOLEAN
           /\ m.command \in Handlers \cup {"NOTIFY", "unknown"}
BY DEF Message

\* Each read of the shared buffer keeps the invariant, whatever the guest wrote
\* since the one before.
LEMMA ReadsKeep ==
    ASSUME IoreqInv, DispatchInv, alive,
           ReadVersion \/ ReadCommand \/ ReadVersionAgain \/ ReadCommandAgain \/ ReadBody
    PROVE  DispatchInv'
<1> USE DEF Replies
<1> DEFINE m == buffer[i]
<1>1. /\ i \in Vcpus /\ m \in Message /\ m.version \in Nat /\ m.fits \in BOOLEAN
      /\ m.command \in Handlers \cup {"NOTIFY", "unknown"} /\ touched[i] \in BOOLEAN
  BY MessageFields DEF IoreqInv, Shape, DispatchInv
<1> HIDE DEF m
<1>2. ASSUME NEW step \in {"command", "version2", "command2", "body"}, at # "none", ReadNext(step),
             step \in {"version2", "command2", "body"} => command' \in Handlers,
             ~touched[i] => Known'
      PROVE  DispatchInv'
  BY <1>1, <1>2 DEF ReadNext, vars, page, loop, guest, evtchn, memory, DispatchInv, AnswerFitsRequest
<1>3. CASE ReadVersion
  <2>1. CASE m.version # 1 /\ Answer("DEVICE_ERROR")
    BY <1>3, <2>1, AnswerKeeps DEF ReadVersion, Answers, m
  <2>2. CASE m.version = 1 /\ ReadNext("command") /\ UNCHANGED <<command, again>>
    <3>1. ~touched[i] => Known'
      BY <2>2 DEF ReadNext, vars, loop, memory, Known, m
    <3> QED
      BY <1>2, <1>3, <2>2, <3>1, ZenonT(30) DEF ReadVersion
  <2> QED
    BY <1>3, <2>1, <2>2 DEF ReadVersion, m
<1>4. CASE ReadCommand
  <2>1. CASE m.command \in Handlers /\ command' = m.command /\ ReadNext("version2")
    <3>1. ~touched[i] => Known'
      BY <1>4, <2>1 DEF ReadCommand, ReadNext, vars, loop, memory, DispatchInv, Known, m
    <3> QED
      BY <1>2, <1>4, <2>1, <3>1 DEF ReadCommand
  <2>2. ASSUME m.command = "NOTIFY", NEW r \in {"SUCCESS", "DEVICE_ERROR"}, Answer(r)
        PROVE  DispatchInv'
    <3>1. ~touched[i] => r \in Answers(buffer[i])
      BY <1>4, <2>2 DEF ReadCommand, DispatchInv, Known, Answers, m
    <3> QED
      BY <1>4, <2>2, <3>1, AnswerKeeps DEF ReadCommand
  <2>3. CASE m.command = "unknown" /\ Answer("none")
    <3>1. ~touched[i] => "none" \in Answers(buffer[i])
      BY <1>4, <2>3 DEF ReadCommand, DispatchInv, Known, Answers, m
    <3> QED
      BY <1>4, <2>3, <3>1, AnswerKeeps DEF ReadCommand
  <2> QED
    BY <1>4, <2>1, <2>2, <2>3 DEF ReadCommand, m
<1>5. CASE ReadVersionAgain
  <2>1. CASE m.version = 1 /\ ReadNext("command2") /\ UNCHANGED <<command, again>>
    <3>1. ~touched[i] => Known'
      BY <1>5, <2>1 DEF ReadVersionAgain, ReadNext, vars, loop, memory, DispatchInv, Known, m
    <3> QED
      BY <1>2, <1>5, <2>1, <3>1 DEF ReadVersionAgain, DispatchInv
  <2>2. CASE m.version # 1
    <3>1. touched[i]
      BY <1>5, <2>2 DEF ReadVersionAgain, DispatchInv, Known, m
    <3>2. Answer("UNSUPPORTED") \/ Answer("DEVICE_ERROR") \/ Abort
      BY <1>5, <2>2 DEF ReadVersionAgain, m
    <3> QED
      BY <1>5, <3>1, <3>2, AnswerKeeps, AbortKeeps DEF ReadVersionAgain
  <2> QED
    BY <1>5, <2>1, <2>2 DEF ReadVersionAgain, m
<1>6. CASE ReadCommandAgain
  <2>1. ~touched[i] => Known'
    BY <1>6 DEF ReadCommandAgain, ReadNext, vars, loop, memory, DispatchInv, Known
  <2> QED
    BY <1>2, <1>6, <2>1 DEF ReadCommandAgain, DispatchInv
<1>7. CASE ReadBody
  <2>1. ~touched[i] => m.version = 1 /\ m.command = command /\ again = command
    BY <1>7 DEF ReadBody, DispatchInv, Known, m
  <2>2. at # "none"
    BY <1>7 DEF ReadBody
  <2>3. CASE command = "GET" /\ handle_get_variable
    BY <1>1, <2>1, <2>2, <2>3, AnswerKeeps, ZenonT(30) DEF handle_get_variable, Answers, m
  <2>4. CASE command = "SET" /\ handle_set_variable
    BY <1>1, <2>1, <2>2, <2>4, AnswerKeeps DEF handle_set_variable, Answers, m
  <2>5. CASE command = "NEXT" /\ handle_get_next_variable
    BY <1>1, <2>1, <2>2, <2>5, AnswerKeeps, AbortKeeps DEF handle_get_next_variable, Answers, m
  <2>6. CASE command = "QUERY" /\ handle_query_variable_info
    BY <1>1, <2>1, <2>2, <2>6, AnswerKeeps DEF handle_query_variable_info, Answers, m
  <2> QED
    BY <1>7, <2>3, <2>4, <2>5, <2>6 DEF ReadBody
<1> QED
  BY <1>3, <1>4, <1>5, <1>6, <1>7

\* Every step keeps the invariant of the dispatch.
LEMMA DispatchStep == IoreqInv /\ DispatchInv /\ [DNext]_allvars => DispatchInv'
<1> SUFFICES ASSUME IoreqInv, DispatchInv, [DNext]_allvars PROVE DispatchInv'
  OBVIOUS
<1> USE DEF reads, memory
<1>1. CASE alive /\ Transport
  <2>1. CASE Bind \/ EnterLoop \/ Poll \/ Unmask \/ NotReady \/ Notify
    <3>1. /\ pc # "process" /\ pc' # "process" /\ pc' # "respond"
          /\ UNCHANGED <<kind, ioreq, alive, buffer, reply, touched, at, command, again>>
      BY <1>1, <2>1 DEF Transport, Bind, EnterLoop, Poll, Unmask, NotReady, Notify, NextVcpu, page
    <3> QED
      BY <1>1, <3>1 DEF DispatchInv, Known, AnswerFitsRequest
  <2>2. CASE Respond
    <3>1. AnswerFitsRequest'
      BY <1>1, <2>2 DEF Transport, Respond, IoreqInv, Shape, DispatchInv, AnswerFitsRequest
    <3> QED
      BY <1>1, <2>2, <3>1 DEF Transport, Respond, DispatchInv, Known
  <2> QED
    BY <1>1, <2>1, <2>2 DEF Transport
<1>2. CASE alive /\ AcceptRequest
  <2>1. AnswerFitsRequest'
    BY <1>2 DEF AcceptRequest, Accept, IoreqInv, Shape, DispatchInv, AnswerFitsRequest
  <2> QED
    BY <1>2, <2>1 DEF AcceptRequest, Accept, DispatchInv, Known
<1>3. CASE alive /\ IgnoreIoreq
  BY <1>3 DEF IgnoreIoreq, handle_ioreq, DispatchInv, Known, AnswerFitsRequest
<1>4. CASE alive /\ (ReadVersion \/ ReadCommand \/ ReadVersionAgain \/ ReadCommandAgain \/ ReadBody)
  BY <1>4, ReadsKeep
<1>5. ASSUME NEW v \in Vcpus, XenStep(v) PROVE DispatchInv'
  <2>1. CASE SendEvent(v) /\ UNCHANGED <<alive, reads, memory>>
    BY <2>1, ZenonT(30) DEF SendEvent, page, loop, DispatchInv, Known, AnswerFitsRequest
  <2>2. CASE Return(v)
    <3>1. /\ UNCHANGED <<kind, pc, i, alive, at, command, again>>
          /\ ioreq[v] = "RESP" /\ ioreq' = [ioreq EXCEPT ![v] = "NONE"]
      BY <2>2 DEF Return, Resume, loop
    <3>2. /\ buffer' \in [Vcpus -> Message] /\ reply' \in [Vcpus -> Replies]
          /\ touched' \in [Vcpus -> BOOLEAN]
          /\ \A w \in Vcpus \ {v} : /\ buffer'[w] = buffer[w] /\ reply'[w] = reply[w]
                                    /\ touched'[w] = touched[w] /\ ioreq'[w] = ioreq[w]
          /\ ioreq'[v] = "NONE"
      BY <2>2, <3>1, NoMessageIsMessage DEF Return, DispatchInv, Replies, IoreqInv, Shape
    <3>3. AnswerFitsRequest'
      BY <3>1, <3>2 DEF DispatchInv, AnswerFitsRequest
    <3>4. pc \in {"process", "respond"} => v # i
      BY <3>1, ZenonT(30) DEF IoreqInv, Serving
    <3>5. i \in Vcpus
      BY DEF IoreqInv, Shape
    <3> QED
      BY <3>1, <3>2, <3>3, <3>4, <3>5 DEF DispatchInv, Known
  <2> QED
    BY <1>5, <2>1, <2>2 DEF XenStep
<1>6. ASSUME NEW v \in Vcpus, NEW k \in Kinds, Out(v, k),
             UNCHANGED <<alive, reads, reply, touched>>,
             buffer' \in [Vcpus -> Message], \A w \in Vcpus \ {v} : buffer'[w] = buffer[w]
      PROVE  DispatchInv'
  <2>1. /\ UNCHANGED <<pc, i>> /\ ioreq'[v] = "READY" /\ vcpu[v] = "runs"
        /\ \A w \in Vcpus \ {v} : kind'[w] = kind[w] /\ ioreq'[w] = ioreq[w]
    BY <1>6 DEF Out, loop, IoreqInv, Shape
  <2>2. /\ i \in Vcpus
        /\ pc \in {"process", "respond"} => v # i
    BY <2>1, ZenonT(30) DEF IoreqInv, Shape, Serving
  <2>3. AnswerFitsRequest'
    BY <1>6, <2>1, ZenonT(30) DEF DispatchInv, AnswerFitsRequest
  <2> QED
    BY <1>6, <2>1, <2>2, <2>3, ZenonT(30) DEF DispatchInv, Known
<1>7. ASSUME NEW v \in Vcpus, OtherAccess(v) PROVE DispatchInv'
  BY <1>6, <1>7, ZenonT(30) DEF OtherAccess, DispatchInv
<1>8. ASSUME NEW v \in Vcpus, NEW m \in Messages, Request(v, m) PROVE DispatchInv'
  BY <1>6, <1>8, VcpuAssumption, MessagesAssumption, ZenonT(30) DEF Request, DispatchInv
<1>9. ASSUME NEW v \in Vcpus, NEW m \in Messages, Overwrite(v, m) PROVE DispatchInv'
  <2>1. /\ UNCHANGED <<pc, i, kind, ioreq, alive, at, command, again, reply>>
        /\ i \in Vcpus /\ pc = "process" /\ ioreq[i] = "INPROCESS"
    BY <1>9 DEF Overwrite, vars, page, loop, IoreqInv, Shape, Serving
  <2>2. /\ buffer' \in [Vcpus -> Message] /\ touched' \in [Vcpus -> BOOLEAN] /\ touched'[i] = TRUE
        /\ \A w \in Vcpus \ {i} : buffer'[w] = buffer[w] /\ touched'[w] = touched[w]
    BY <1>9, <2>1, MessagesAssumption, ZenonT(30) DEF Overwrite, DispatchInv
  <2>3. AnswerFitsRequest'
    BY <2>1, <2>2, ZenonT(30) DEF DispatchInv, AnswerFitsRequest
  <2> QED
    BY <2>1, <2>2, <2>3, ZenonT(30) DEF DispatchInv
<1>10. CASE UNCHANGED allvars
  BY <1>10, ZenonT(30) DEF allvars, vars, page, loop, DispatchInv, Known, AnswerFitsRequest
<1> QED
  BY <1>1, <1>2, <1>3, <1>4, <1>5, <1>7, <1>8, <1>9, <1>10 DEF DNext, DaemonStep

\* For any number of vCPUs and any messages, a request that its guest leaves
\* alone gets the answer that its version, command and sizes call for, although
\* xen_variable_server_handle_request and the handler read them separately.
THEOREM AnswersFit == DSpec => []AnswerFitsRequest
<1>1. DInit => IoreqInv /\ DispatchInv
  BY IoreqInit, DispatchInit DEF DInit
<1>2. IoreqInv /\ DispatchInv /\ [DNext]_allvars => IoreqInv' /\ DispatchInv'
  BY IoreqStep, DispatchRefines, DispatchStep
<1>3. DispatchInv => AnswerFitsRequest
  BY DEF DispatchInv
<1> QED
  BY <1>1, <1>2, <1>3, PTL DEF DSpec

\* For any number of vCPUs and any messages, the assertions on version and command
\* fail only on a buffer that was written to while its request was in process.
THEOREM NoMessageAborts == DSpec => []AssertionsHold
<1>1. DInit => IoreqInv /\ DispatchInv
  BY IoreqInit, DispatchInit DEF DInit
<1>2. IoreqInv /\ DispatchInv /\ [DNext]_allvars => IoreqInv' /\ DispatchInv'
  BY IoreqStep, DispatchRefines, DispatchStep
<1>3. DispatchInv => AssertionsHold
  BY DEF DispatchInv, AssertionsHold
<1> QED
  BY <1>1, <1>2, <1>3, PTL DEF DSpec

-----------------------------------------------------------------------------
(***************************************************************************)
(* The size of the ring                                                    *)
(***************************************************************************)
\* How often a port stands in the ring.
Never(v) == \A n \in DOMAIN ring : ring[n] # v
Once(v) == \A m, n \in DOMAIN ring : ring[m] = v /\ ring[n] = v => m = n
Twice(v) == \A k, m, n \in DOMAIN ring :
                ring[k] = v /\ ring[m] = v /\ ring[n] = v => k = m \/ k = n \/ m = n

\* The events that may still be raised before the next request is accepted.
Coming(v) == IF vcpu[v] = "waits" THEN (IF ioreq[v] = "READY" THEN 0 ELSE 1)
             ELSE IF vcpu[v] = "sends" /\ ioreq[v] # "READY" THEN 2 ELSE 1

\* Whether the loop has taken the port and may still accept a request for it.
Looking(v) == IF port = v /\ (pc = "check" \/ (pc = "unmask" /\ i <= v)) THEN 1 ELSE 0

Remembered(v) == IF pending[v] THEN 1 ELSE 0
Unbound(v) == IF pc = "bind" /\ i <= v THEN 1 ELSE 0

\* What may still put the port into the ring.
Ahead(v) == Coming(v) + Looking(v) + Remembered(v) + Unbound(v)

\* Each entry of the ring is paid for: a port is taken out of the ring before
\* a request is accepted, and only then may its vCPU raise another event.
Paid(v) == /\ Ahead(v) <= 2 /\ Twice(v)
           /\ Ahead(v) >= 1 => Once(v)
           /\ Ahead(v) >= 2 => Never(v)

RingInv == /\ pc \in {"check", "process", "respond", "notify"} => i = port
           /\ \A v \in Vcpus : Paid(v)
           /\ \A v \in Vcpus : served[v] \in 0 .. 1

\* The terms of the sum are small numbers.
LEMMA AheadTerms ==
    ASSUME NEW v
    PROVE  /\ Coming(v) \in 0 .. 2 /\ Looking(v) \in 0 .. 1
           /\ Remembered(v) \in 0 .. 1 /\ Unbound(v) \in 0 .. 1
  BY DEF Coming, Looking, Remembered, Unbound

\* What appending a port does.
LEMMA AppendTimes ==
    ASSUME ring \in Seq(Vcpus), NEW p \in Vcpus, ring' = Append(ring, p)
    PROVE  /\ Never(p) => Once(p)'
           /\ Once(p) => Twice(p)'
           /\ \A v \in Vcpus \ {p} : /\ Never(v) => Never(v)'
                                     /\ Once(v) => Once(v)'
                                     /\ Twice(v) => Twice(v)'
<1>1. /\ Len(ring) \in Nat /\ DOMAIN ring = 1 .. Len(ring)
      /\ DOMAIN ring' = 1 .. Len(ring) + 1
      /\ ring'[Len(ring) + 1] = p
      /\ \A n \in 1 .. Len(ring) : ring'[n] = ring[n]
  OBVIOUS
<1>2. \A n \in DOMAIN ring' : n = Len(ring) + 1 \/ (n \in DOMAIN ring /\ ring'[n] = ring[n])
  BY <1>1
<1> QED
  BY <1>1, <1>2, SMTT(30) DEF Never, Once, Twice

\* What taking the first port out does.
LEMMA TailTimes ==
    ASSUME ring \in Seq(Vcpus), ring # <<>>, ring' = Tail(ring), NEW h, h = Head(ring)
    PROVE  /\ h \in Vcpus /\ ~Never(h)
           /\ Once(h) => Never(h)'
           /\ Twice(h) => Once(h)'
           /\ \A v \in Vcpus : /\ Never(v) => Never(v)'
                               /\ Once(v) => Once(v)'
                               /\ Twice(v) => Twice(v)'
<1>1. /\ Len(ring) \in Nat /\ 1 \in DOMAIN ring /\ DOMAIN ring = 1 .. Len(ring)
      /\ ring[1] = h /\ h \in Vcpus
      /\ DOMAIN ring' = 1 .. Len(ring) - 1
      /\ \A n \in 1 .. Len(ring) - 1 : ring'[n] = ring[n + 1]
  OBVIOUS
<1>2. \A n \in DOMAIN ring' : n + 1 \in DOMAIN ring /\ n + 1 # 1 /\ ring'[n] = ring[n + 1]
  BY <1>1
<1>3. \A m, n \in DOMAIN ring' : m + 1 = n + 1 => m = n
  BY <1>1
<1>4. ~Never(h) /\ (Once(h) => Never(h)') /\ (Twice(h) => Once(h)')
  <2>1. ~Never(h)
    BY <1>1, Zenon DEF Never
  <2>2. Once(h) => Never(h)'
    BY <1>1, <1>2, Zenon DEF Once, Never
  <2>3. ASSUME Twice(h), NEW m \in DOMAIN ring', NEW n \in DOMAIN ring', ring'[m] = h, ring'[n] = h
        PROVE  m = n
    BY <1>1, <1>2, <1>3, <2>3 DEF Twice
  <2>4. Twice(h) => Once(h)'
    BY <2>3, Zenon DEF Once
  <2> QED
    BY <2>1, <2>2, <2>4
<1>5. ASSUME NEW v \in Vcpus
      PROVE  (Never(v) => Never(v)') /\ (Once(v) => Once(v)') /\ (Twice(v) => Twice(v)')
  BY <1>2, <1>3, SMTT(30) DEF Never, Once, Twice
<1> QED
  BY <1>1, <1>4, <1>5, Zenon

\* A port that is only less ahead stays paid for when the ring does not grow.
LEMMA PaidStays ==
    ASSUME NEW v, Paid(v), ring' = ring, Ahead(v)' <= Ahead(v)
    PROVE  Paid(v)'
<1>1. Ahead(v) \in Nat /\ Ahead(v)' \in Nat
  BY AheadTerms DEF Ahead, Coming, Looking, Remembered, Unbound
<1>2. (Never(v) <=> Never(v)') /\ (Once(v) <=> Once(v)') /\ (Twice(v) <=> Twice(v)')
  BY DEF Never, Once, Twice
<1> QED
  BY <1>1, <1>2 DEF Paid

\* A port that is queued pays with one of what is ahead.
LEMMA PaidQueued ==
    ASSUME NEW v \in Vcpus, NEW p \in Vcpus, Paid(v), ring \in Seq(Vcpus),
           ring' = Append(ring, p), Ahead(v)' <= Ahead(v), v = p => Ahead(v)' < Ahead(v)
    PROVE  Paid(v)'
<1>1. Ahead(v) \in Nat /\ Ahead(v)' \in Nat
  BY AheadTerms DEF Ahead, Coming, Looking, Remembered, Unbound
<1>2. v # p => (Never(v) => Never(v)') /\ (Once(v) => Once(v)') /\ (Twice(v) => Twice(v)')
  BY AppendTimes
<1>3. v = p => (Never(v) => Once(v)') /\ (Once(v) => Twice(v)')
  BY AppendTimes
<1> QED
  BY <1>1, <1>2, <1>3 DEF Paid

\* Nothing is queued before the ports are bound.
LEMMA RingInit == Init => RingInv
<1> SUFFICES ASSUME Init PROVE RingInv
  OBVIOUS
<1>1. ASSUME NEW v \in Vcpus PROVE Paid(v) /\ served[v] \in 0 .. 1
  <2>1. DOMAIN ring = {}
    BY DEF Init
  <2>2. Never(v) /\ Once(v) /\ Twice(v)
    BY <2>1 DEF Never, Once, Twice
  <2>3. Coming(v) = 1 /\ Looking(v) = 0 /\ Remembered(v) = 0 /\ Unbound(v) \in 0 .. 1
    BY AheadTerms DEF Init, Coming, Looking, Remembered
  <2>4. Ahead(v) <= 2
    BY <2>3 DEF Ahead
  <2>5. served[v] = 0
    BY DEF Init
  <2> QED
    BY <2>2, <2>4, <2>5 DEF Paid
<1>2. pc = "bind"
  BY DEF Init
<1> QED
  BY <1>1, <1>2 DEF RingInv

\* Raising an event pays with the event.
LEMMA RaisePays ==
    ASSUME Shape, NEW p \in Vcpus, NEW v \in Vcpus, Paid(v), Raise(p),
           Looking(v)' = Looking(v), Unbound(v)' = Unbound(v),
           v # p => Coming(v)' = Coming(v), v = p => Coming(v)' = Coming(v) - 1
    PROVE  Paid(v)'
<1>0. /\ Coming(v) \in 0 .. 2 /\ Looking(v) \in 0 .. 1 /\ Remembered(v) \in 0 .. 1
      /\ Unbound(v) \in 0 .. 1 /\ Remembered(v)' \in 0 .. 1 /\ ring \in Seq(Vcpus)
  BY AheadTerms DEF Shape, Remembered
<1>1. CASE enabled[p] /\ Queue(p) /\ UNCHANGED pending
  <2>1. Remembered(v)' = Remembered(v) /\ ring' = Append(ring, p)
    BY <1>1 DEF Remembered, Queue
  <2>2. Ahead(v)' <= Ahead(v) /\ (v = p => Ahead(v)' < Ahead(v))
    BY <1>0, <2>1 DEF Ahead
  <2> QED
    BY <1>0, <2>1, <2>2, PaidQueued
<1>2. CASE ~enabled[p] /\ pending' = [pending EXCEPT ![p] = TRUE] /\ UNCHANGED <<ring, enabled>>
  <2>1. v # p => Remembered(v)' = Remembered(v)
    BY <1>2 DEF Remembered, Shape
  <2>2. Ahead(v)' <= Ahead(v)
    BY <1>0, <2>1 DEF Ahead
  <2> QED
    BY <1>2, <2>2, PaidStays
<1> QED
  BY <1>1, <1>2 DEF Raise

\* Unmasking a port pays with the event that was remembered.
LEMMA UnmaskPays ==
    ASSUME Shape, NEW p \in Vcpus, NEW v \in Vcpus, Paid(v), xenevtchn_unmask(p),
           Looking(v)' <= Looking(v), Unbound(v)' = Unbound(v), Coming(v)' = Coming(v)
    PROVE  Paid(v)'
<1>0. /\ Coming(v) \in 0 .. 2 /\ Looking(v) \in 0 .. 1 /\ Remembered(v) \in 0 .. 1
      /\ Unbound(v) \in 0 .. 1 /\ Remembered(v)' \in 0 .. 1 /\ ring \in Seq(Vcpus)
      /\ Looking(v)' \in 0 .. 1
  BY AheadTerms DEF Shape, Remembered, Looking
<1>1. CASE pending[p] /\ Queue(p) /\ pending' = [pending EXCEPT ![p] = FALSE]
  <2>1. /\ v # p => Remembered(v)' = Remembered(v)
        /\ v = p => Remembered(v) = 1 /\ Remembered(v)' = 0
    BY <1>1 DEF Remembered, Shape
  <2>2. ring' = Append(ring, p)
    BY <1>1 DEF Queue
  <2>3. Ahead(v)' <= Ahead(v) /\ (v = p => Ahead(v)' < Ahead(v))
    BY <1>0, <2>1 DEF Ahead
  <2> QED
    BY <1>0, <2>2, <2>3, PaidQueued
<1>2. CASE ~pending[p] /\ enabled' = [enabled EXCEPT ![p] = TRUE] /\ UNCHANGED <<ring, pending>>
  <2>1. Remembered(v)' = Remembered(v)
    BY <1>2 DEF Remembered
  <2>2. Ahead(v)' <= Ahead(v)
    BY <1>0, <2>1 DEF Ahead
  <2> QED
    BY <1>2, <2>2, PaidStays
<1> QED
  BY <1>1, <1>2 DEF xenevtchn_unmask

\* A step that leaves the device alone and puts nothing ahead.
LEMMA QuietPays ==
    ASSUME NEW v, Paid(v), ring' = ring, pending' = pending,
           Coming(v)' + Looking(v)' <= Coming(v) + Looking(v), Unbound(v)' <= Unbound(v)
    PROVE  Paid(v)'
<1>1. Remembered(v)' = Remembered(v)
  BY DEF Remembered
<1>2. /\ Coming(v) \in 0 .. 2 /\ Looking(v) \in 0 .. 1 /\ Remembered(v) \in 0 .. 1
      /\ Unbound(v) \in 0 .. 1 /\ Coming(v)' \in 0 .. 2 /\ Looking(v)' \in 0 .. 1
      /\ Unbound(v)' \in 0 .. 1
  BY AheadTerms DEF Coming, Looking, Unbound
<1>3. Ahead(v)' <= Ahead(v)
  BY <1>1, <1>2 DEF Ahead
<1> QED
  BY <1>3, PaidStays

\* Every step keeps each port paid for.
LEMMA RingStep == IoreqInv /\ RingInv /\ [Next]_vars => RingInv'
<1> SUFFICES ASSUME IoreqInv, RingInv, [Next]_vars PROVE RingInv'
  OBVIOUS
<1> USE VcpusFacts
<1>0. Shape /\ Serving /\ \A v \in Vcpus : Paid(v)
  BY DEF IoreqInv, RingInv
<1>1. ASSUME NEW p \in Vcpus, NEW k \in Kinds, Out(p, k) PROVE RingInv'
  <2>1. \A v \in Vcpus : Coming(v)' = Coming(v) /\ Looking(v)' = Looking(v) /\ Unbound(v)' = Unbound(v)
    BY <1>0, <1>1 DEF Shape, Serving, Out, loop, evtchn, Coming, Looking, Unbound
  <2>2. \A v \in Vcpus : Paid(v)'
    BY <1>0, <1>1, <2>1, QuietPays, AheadTerms DEF Out, evtchn
  <2>3. \A v \in Vcpus : served'[v] \in 0 .. 1
    BY <1>0, <1>1 DEF Shape, RingInv, Out
  <2> QED
    BY <1>1, <2>2, <2>3 DEF RingInv, Out, loop
<1>2. ASSUME NEW p \in Vcpus, SendEvent(p) PROVE RingInv'
  <2>1. \A v \in Vcpus : /\ v # p => Coming(v)' = Coming(v)
                         /\ v = p => Coming(v)' = Coming(v) - 1
                         /\ Looking(v)' = Looking(v) /\ Unbound(v)' = Unbound(v)
    BY <1>0, <1>2 DEF Shape, SendEvent, page, loop, Coming, Looking, Unbound
  <2>2. \A v \in Vcpus : Paid(v)'
    BY <1>0, <1>2, <2>1, RaisePays DEF SendEvent
  <2> QED
    BY <1>2, <2>2 DEF RingInv, SendEvent, page, loop
<1>3. ASSUME NEW p \in Vcpus, Resume(p) PROVE RingInv'
  <2>1. \A v \in Vcpus : Coming(v)' = Coming(v) /\ Looking(v)' = Looking(v) /\ Unbound(v)' = Unbound(v)
    BY <1>0, <1>3 DEF Shape, Resume, loop, evtchn, Coming, Looking, Unbound
  <2>2. \A v \in Vcpus : Paid(v)'
    BY <1>0, <1>3, <2>1, QuietPays, AheadTerms DEF Resume, evtchn
  <2> QED
    BY <1>3, <2>2 DEF RingInv, Resume, loop
<1>4. CASE Bind
  <2>1. /\ i \in Vcpus /\ ring' = Append(ring, i) /\ ring \in Seq(Vcpus) /\ pending' = pending
    BY <1>0, <1>4 DEF Shape, Bind, Queue
  <2>2. ASSUME NEW v \in Vcpus PROVE Paid(v)'
    <3>1. /\ Coming(v)' = Coming(v) /\ Looking(v)' = Looking(v) /\ Remembered(v)' = Remembered(v)
      BY <1>4 DEF Bind, page, guest, Coming, Looking, Remembered
    <3>2. Unbound(v)' <= Unbound(v) /\ (v = i => Unbound(v)' < Unbound(v))
      BY <1>4, <2>1 DEF Bind, Unbound
    <3>3. Ahead(v)' <= Ahead(v) /\ (v = i => Ahead(v)' < Ahead(v))
      <4>1. Unbound(v)' \in 0 .. 1
        BY DEF Unbound
      <4> QED
        BY <3>1, <3>2, <4>1, AheadTerms DEF Ahead
    <3> QED
      BY <1>0, <2>1, <3>3, PaidQueued
  <2> QED
    BY <1>4, <2>2 DEF RingInv, Bind, page
<1>5. CASE EnterLoop
  <2>1. \A v \in Vcpus : Coming(v)' = Coming(v) /\ Looking(v)' = Looking(v) /\ Unbound(v)' = Unbound(v)
    BY <1>5 DEF EnterLoop, page, guest, Coming, Looking, Unbound
  <2>2. \A v \in Vcpus : Paid(v)'
    BY <1>0, <1>5, <2>1, QuietPays, AheadTerms DEF EnterLoop, evtchn
  <2> QED
    BY <1>5, <2>2 DEF RingInv, EnterLoop, page
<1>6. CASE Poll
  <2>1. PICK h : h = Head(ring)
    OBVIOUS
  <2>2. /\ h \in Vcpus /\ ~Never(h)
        /\ Once(h) => Never(h)'
        /\ Twice(h) => Once(h)'
        /\ \A v \in Vcpus : /\ Never(v) => Never(v)'
                            /\ Once(v) => Once(v)'
                            /\ Twice(v) => Twice(v)'
    BY <1>0, <1>6, <2>1, TailTimes DEF Shape, Poll
  <2>3. ASSUME NEW v \in Vcpus PROVE Paid(v)'
    <3>1. /\ Coming(v)' = Coming(v) /\ Remembered(v)' = Remembered(v)
          /\ Unbound(v) = 0 /\ Unbound(v)' = 0
      BY <1>6 DEF Poll, page, guest, Coming, Remembered, Unbound
    <3>2. Looking(v) = 0 /\ Looking(v)' = IF v = h THEN 1 ELSE 0
      BY <1>6, <2>1 DEF Poll, Looking
    <3>3. Ahead(v) \in Nat /\ Ahead(v)' = IF v = h THEN Ahead(v) + 1 ELSE Ahead(v)
      BY <3>1, <3>2, AheadTerms DEF Ahead
    <3>4. Paid(v)
      BY <1>0
    <3>5. CASE v = h
      BY <2>2, <3>3, <3>4, <3>5 DEF Paid
    <3>6. CASE v # h
      BY <2>2, <3>3, <3>4, <3>6 DEF Paid
    <3> QED
      BY <3>5, <3>6
  <2> QED
    BY <1>6, <2>3 DEF RingInv, Poll, page
<1>7. CASE Unmask
  <2>1. port \in Vcpus /\ xenevtchn_unmask(port)
    BY <1>0, <1>7 DEF Shape, Unmask
  <2>2. ASSUME NEW v \in Vcpus PROVE Paid(v)'
    <3>1. Coming(v)' = Coming(v) /\ Unbound(v)' = 0 /\ Unbound(v) = 0
      BY <1>7 DEF Unmask, NextVcpu, page, guest, Coming, Unbound
    <3>2. Looking(v)' <= Looking(v)
      BY <1>0, <1>7 DEF Shape, Unmask, NextVcpu, Looking
    <3> QED
      BY <1>0, <2>1, <3>1, <3>2, UnmaskPays
  <2>3. pc' = "check" => i' = port'
    BY <1>7 DEF Unmask, NextVcpu
  <2>4. pc' \in {"check", "poll", "unmask"} /\ served' = served
    BY <1>7 DEF Unmask, NextVcpu, page
  <2> QED
    BY <2>2, <2>3, <2>4 DEF RingInv
<1>8. CASE Accept
  <2>1. i = port /\ i \in Vcpus
    BY <1>0, <1>8 DEF RingInv, Accept, Shape
  <2>2. ASSUME NEW v \in Vcpus PROVE Paid(v)'
    <3>1. Unbound(v)' = 0 /\ Unbound(v) = 0 /\ ring' = ring /\ pending' = pending
      BY <1>8 DEF Accept, evtchn, Unbound
    <3>2. Coming(v)' + Looking(v)' <= Coming(v) + Looking(v)
      <4>1. CASE v = i
        BY <1>0, <1>8, <2>1, <4>1 DEF Accept, guest, Shape, Serving, Coming, Looking
      <4>2. CASE v # i
        BY <1>0, <1>8, <2>1, <4>2 DEF Accept, guest, Shape, Coming, Looking
      <4> QED
        BY <4>1, <4>2
    <3> QED
      BY <1>0, <3>1, <3>2, QuietPays
  <2> QED
    BY <1>8, <2>1, <2>2 DEF RingInv, Accept
<1>9. CASE NotReady
  <2>1. i = port /\ i \in Vcpus
    BY <1>0, <1>9 DEF RingInv, NotReady, Shape
  <2>2. ASSUME NEW v \in Vcpus PROVE Paid(v)'
    <3>1. Unbound(v)' = 0 /\ Unbound(v) = 0 /\ ring' = ring /\ pending' = pending
      BY <1>9 DEF NotReady, NextVcpu, evtchn, Unbound
    <3>2. Coming(v)' = Coming(v) /\ Looking(v)' = 0
      BY <1>9, <2>1 DEF NotReady, NextVcpu, page, guest, Coming, Looking
    <3> QED
      BY <1>0, <3>1, <3>2, QuietPays, AheadTerms
  <2>3. pc' \in {"poll", "unmask"} /\ served' = served
    BY <1>9 DEF NotReady, NextVcpu, page
  <2> QED
    BY <2>2, <2>3 DEF RingInv
<1>10. CASE handle_ioreq
  <2>1. \A v \in Vcpus : Coming(v)' = Coming(v) /\ Looking(v)' = Looking(v) /\ Unbound(v)' = Unbound(v)
    BY <1>10 DEF handle_ioreq, guest, Coming, Looking, Unbound
  <2>2. \A v \in Vcpus : Paid(v)'
    BY <1>0, <1>10, <2>1, QuietPays, AheadTerms DEF handle_ioreq, evtchn
  <2>3. \A v \in Vcpus : served'[v] \in 0 .. 1
    BY <1>0, <1>10 DEF Shape, Serving, RingInv, handle_ioreq
  <2> QED
    BY <1>10, <2>2, <2>3 DEF RingInv, handle_ioreq
<1>11. CASE Respond
  <2>1. \A v \in Vcpus : Coming(v)' = Coming(v) /\ Looking(v)' = Looking(v) /\ Unbound(v)' = Unbound(v)
    BY <1>0, <1>11 DEF Shape, Serving, Respond, guest, Coming, Looking, Unbound
  <2>2. \A v \in Vcpus : Paid(v)'
    BY <1>0, <1>11, <2>1, QuietPays, AheadTerms DEF Respond, evtchn
  <2> QED
    BY <1>11, <2>2 DEF RingInv, Respond
<1>12. CASE Notify
  <2>1. i = port /\ i \in Vcpus
    BY <1>0, <1>12 DEF RingInv, Notify, Shape
  <2>2. ASSUME NEW v \in Vcpus PROVE Paid(v)'
    <3>1. Unbound(v)' = 0 /\ Unbound(v) = 0 /\ ring' = ring /\ pending' = pending
      BY <1>12 DEF Notify, NextVcpu, evtchn, Unbound
    <3>2. Coming(v)' = Coming(v) /\ Looking(v)' = 0
      BY <1>12, <2>1 DEF Notify, NextVcpu, page, Coming, Looking
    <3> QED
      BY <1>0, <3>1, <3>2, QuietPays, AheadTerms
  <2>3. pc' \in {"poll", "unmask"} /\ served' = served
    BY <1>12 DEF Notify, NextVcpu, page
  <2> QED
    BY <2>2, <2>3 DEF RingInv
<1>13. CASE UNCHANGED vars
  <2>1. \A v \in Vcpus : Coming(v)' = Coming(v) /\ Looking(v)' = Looking(v) /\ Unbound(v)' = Unbound(v)
    BY <1>13 DEF vars, page, loop, guest, Coming, Looking, Unbound
  <2>2. \A v \in Vcpus : Paid(v)'
    BY <1>0, <1>13, <2>1, QuietPays, AheadTerms DEF vars, evtchn
  <2> QED
    BY <1>13, <2>2 DEF RingInv, vars, page, loop
<1> QED
  BY <1>1, <1>2, <1>3, <1>4, <1>5, <1>6, <1>7, <1>8, <1>9, <1>10, <1>11, <1>12, <1>13
     DEF Next, Daemon

\* A ring in which no port stands more than twice has room for two of each.
LEMMA TwiceBounds ==
    ASSUME NEW r \in Seq(Vcpus),
           \A k, m, n \in DOMAIN r : r[k] = r[m] /\ r[m] = r[n] => k = m \/ k = n \/ m = n
    PROVE  Len(r) <= 2 * VcpuCount
<1> DEFINE S == 1 .. Len(r)
           T == 0 .. 2 * VcpuCount - 1
           Again(n) == \E m \in S : m < n /\ r[m] = r[n]
           f == [n \in S |-> IF Again(n) THEN 2 * r[n] + 1 ELSE 2 * r[n]]
<1>1. Len(r) \in Nat /\ DOMAIN r = S /\ \A n \in S : r[n] \in Vcpus
  OBVIOUS
<1>2. VcpuCount \in Nat \ {0} /\ Vcpus = 0 .. VcpuCount - 1
  BY VcpuAssumption DEF Vcpus
<1>3. \A n \in S : f[n] = (IF Again(n) THEN 2 * r[n] + 1 ELSE 2 * r[n])
  OBVIOUS
<1>4. \A n \in S : f[n] \in T
  BY <1>1, <1>2, <1>3
<1>5. ASSUME NEW m \in S, NEW n \in S, f[m] = f[n] PROVE m = n
  <2> HIDE DEF f
  <2>1. r[m] = r[n] /\ (Again(m) <=> Again(n))
    <3> HIDE DEF Again
    <3>1. r[m] \in Nat /\ r[n] \in Nat
      BY <1>1, <1>2
    <3> QED
      BY <1>3, <1>5, <3>1
  <2>2. m \in Nat /\ n \in Nat
    BY <1>1
  <2>3. CASE m < n
    <3>1. Again(n)
      BY <2>1, <2>3
    <3>2. PICK k \in S : k < m /\ r[k] = r[m]
      BY <2>1, <3>1
    <3> QED
      BY <1>1, <2>1, <2>2, <2>3, <3>2
  <2>4. CASE n < m
    <3>1. Again(m)
      BY <2>1, <2>4
    <3>2. PICK k \in S : k < n /\ r[k] = r[n]
      BY <2>1, <3>1
    <3> QED
      BY <1>1, <2>1, <2>2, <2>4, <3>2
  <2> QED
    BY <2>2, <2>3, <2>4
<1>6. f \in [S -> T]
  <2>1. f = [n \in S |-> f[n]]
    OBVIOUS
  <2> HIDE DEF f
  <2> QED
    BY <1>4, <2>1
<1>7. f \in Injection(S, T)
  <2> HIDE DEF f, S, T
  <2> QED
    BY <1>5, <1>6 DEF Injection, IsInjective
<1>8. IsFiniteSet(T) /\ Cardinality(T) = 2 * VcpuCount /\ Cardinality(S) = Len(r)
  <2>1. Cardinality(S) = Len(r)
    <3>1. 1 \in Int /\ Len(r) \in Int /\ (1 > Len(r) => Len(r) = 0) /\ Len(r) - 1 + 1 = Len(r)
      BY <1>1
    <3> QED
      BY <3>1, FS_Interval
  <2>2. IsFiniteSet(T) /\ Cardinality(T) = 2 * VcpuCount
    <3>1. /\ 0 \in Int /\ 2 * VcpuCount - 1 \in Int /\ ~(0 > 2 * VcpuCount - 1)
          /\ (2 * VcpuCount - 1) - 0 + 1 = 2 * VcpuCount
      BY <1>2
    <3> QED
      BY <3>1, FS_Interval
  <2> QED
    BY <2>1, <2>2
<1>9. Cardinality(S) <= Cardinality(T)
  <2> HIDE DEF f, S, T
  <2> QED
    BY <1>7, <1>8, FS_Injection
<1> QED
  BY <1>8, <1>9

\* The loop stays within the vCPUs, and the ring of the event channel device
\* never holds a port more than twice, for any number of vCPUs.
THEOREM RingStaysBounded == DSpec => []TypeOK
<1>1. DInit => IoreqInv /\ RingInv
  BY IoreqInit, RingInit DEF DInit
<1>2. IoreqInv /\ RingInv /\ [DNext]_allvars => (IoreqInv /\ RingInv)'
  BY IoreqStep, RingStep, DispatchRefines
<1>3. IoreqInv /\ RingInv => TypeOK
  <2> SUFFICES ASSUME IoreqInv, RingInv PROVE TypeOK
    OBVIOUS
  <2>1. Shape /\ ring \in Seq(Vcpus)
    BY DEF IoreqInv, Shape
  <2>2. Len(ring) <= 2 * VcpuCount
    <3>1. ASSUME NEW k \in DOMAIN ring, NEW m \in DOMAIN ring, NEW n \in DOMAIN ring,
                 ring[k] = ring[m], ring[m] = ring[n]
          PROVE  k = m \/ k = n \/ m = n
      <4>1. ring[k] \in Vcpus
        BY <2>1
      <4>2. Twice(ring[k])
        BY <4>1 DEF RingInv, Paid
      <4> QED
        BY <3>1, <4>2 DEF Twice
    <3> QED
      BY <2>1, <3>1, TwiceBounds
  <2>3. served \in [Vcpus -> 0 .. 1]
    BY <2>1 DEF Shape, RingInv
  <2> QED
    BY <2>1, <2>2, <2>3, Zenon DEF Shape, TypeOK
<1> QED
  BY <1>1, <1>2, <1>3, PTL DEF DSpec
=============================================================================
