---------------------------- MODULE IoreqServer ------------------------------
(***************************************************************************)
(* How a request reaches uefistored: a vCPU writes to the I/O port, Xen    *)
(* fills the vCPU's slot of the shared page and raises its event channel,  *)
(* and the daemon's only thread (handler_loop, handle_shared_iopage and    *)
(* handle_ioreq of src/src/uefistored.c) answers in place and raises the   *)
(* channel of the vCPU.  A vCPU's local port is written as its number:     *)
(* ioreq_local_ports is injective.                                         *)
(***************************************************************************)
EXTENDS Integers, Sequences

CONSTANTS
    VcpuCount,   \* vcpu_count
    Kinds        \* what the vCPUs send, as handle_ioreq tells it apart

ASSUME VcpuAssumption ==
    /\ VcpuCount \in Nat \ {0}
    /\ Kinds \subseteq {"request", "other_port", "bad_size", "not_pio", "unmappable"}
    /\ "request" \in Kinds

VARIABLES
    ioreq,     \* vcpu_ioreq[].state
    kind,      \* the request in vcpu_ioreq[]
    served,    \* how often the present request was handed to the server
    pc, i, port,  \* handler_loop: where it is, its index and its port
    vcpu,      \* "runs", "sends" (between state and event) or "waits"
    wake,      \* the event channel towards the vCPU is raised
    enabled, pending, ring  \* the event channel device of dom0

page == <<ioreq, kind, served>>
loop == <<pc, i, port>>
guest == <<vcpu, wake>>
evtchn == <<enabled, pending, ring>>
vars == <<page, loop, guest, evtchn>>

Vcpus == 0 .. VcpuCount - 1

Init == /\ ioreq = [v \in Vcpus |-> "NONE"]
        /\ kind \in [Vcpus -> Kinds]
        /\ served = [v \in Vcpus |-> 0]
        /\ pc = "bind" /\ i = 0 /\ port = 0
        /\ vcpu = [v \in Vcpus |-> "runs"]
        /\ wake = [v \in Vcpus |-> FALSE]
        /\ enabled = [v \in Vcpus |-> FALSE]
        /\ pending = [v \in Vcpus |-> FALSE]
        /\ ring = <<>>

-----------------------------------------------------------------------------
(***************************************************************************)
(* The event channel device: an event on an enabled port queues the port   *)
(* and disables it, an event on a disabled port is remembered until the    *)
(* port is unmasked.                                                       *)
(***************************************************************************)
Queue(p) == /\ ring' = Append(ring, p)
            /\ enabled' = [enabled EXCEPT ![p] = FALSE]

Raise(p) == \/ /\ enabled[p]
               /\ Queue(p)
               /\ UNCHANGED pending
            \/ /\ ~enabled[p]
               /\ pending' = [pending EXCEPT ![p] = TRUE]
               /\ UNCHANGED <<ring, enabled>>

xenevtchn_unmask(p) ==
    \/ /\ pending[p]
       /\ Queue(p)
       /\ pending' = [pending EXCEPT ![p] = FALSE]
    \/ /\ ~pending[p]
       /\ enabled' = [enabled EXCEPT ![p] = TRUE]
       /\ UNCHANGED <<ring, pending>>

-----------------------------------------------------------------------------
(***************************************************************************)
(* The guest and Xen                                                       *)
(***************************************************************************)
\* The port is routed to the daemon once the channels are bound.
Out(v, k) ==
    /\ pc # "bind"
    /\ vcpu[v] = "runs"
    /\ vcpu' = [vcpu EXCEPT ![v] = "sends"]
    /\ ioreq' = [ioreq EXCEPT ![v] = "READY"]
    /\ kind' = [kind EXCEPT ![v] = k]
    /\ served' = [served EXCEPT ![v] = 0]
    /\ UNCHANGED <<loop, wake, evtchn>>

SendEvent(v) ==
    /\ vcpu[v] = "sends"
    /\ vcpu' = [vcpu EXCEPT ![v] = "waits"]
    /\ Raise(v)
    /\ UNCHANGED <<page, loop, wake>>

Resume(v) ==
    /\ vcpu[v] = "waits"
    /\ wake[v]
    /\ ioreq[v] = "RESP"
    /\ vcpu' = [vcpu EXCEPT ![v] = "runs"]
    /\ wake' = [wake EXCEPT ![v] = FALSE]
    /\ ioreq' = [ioreq EXCEPT ![v] = "NONE"]
    /\ UNCHANGED <<kind, served, loop, evtchn>>

-----------------------------------------------------------------------------
(***************************************************************************)
(* The daemon                                                              *)
(***************************************************************************)
\* Binding a channel leaves an event on it, in case one was missed.
Bind ==
    /\ pc = "bind"
    /\ Queue(i)
    /\ IF i = VcpuCount - 1 THEN pc' = "start" /\ i' = 0
       ELSE pc' = "bind" /\ i' = i + 1
    /\ UNCHANGED <<page, port, guest, pending>>

\* The variables and the certificates are loaded before the loop is entered.
EnterLoop ==
    /\ pc = "start"
    /\ pc' = "poll"
    /\ UNCHANGED <<page, i, port, guest, evtchn>>

\* A poll that finds nothing for 5 s starts again.
Poll ==
    /\ pc = "poll"
    /\ ring # <<>>
    /\ port' = Head(ring)
    /\ ring' = Tail(ring)
    /\ i' = 0
    /\ pc' = "unmask"
    /\ UNCHANGED <<page, guest, enabled, pending>>

\* As if the last iteration were taken for one more.
NextVcpu_Beyond == IF i = VcpuCount THEN pc' = "poll" /\ i' = i
                   ELSE pc' = "unmask" /\ i' = i + 1

NextVcpu == IF i = VcpuCount - 1 THEN pc' = "poll" /\ i' = i
            ELSE pc' = "unmask" /\ i' = i + 1

\* As if the port were not unmasked.
Unmask_Not ==
    /\ pc = "unmask"
    /\ IF i = port THEN pc' = "check" /\ i' = i ELSE NextVcpu
    /\ UNCHANGED <<page, port, guest, evtchn>>

\* Every iteration unmasks the port, also those of the other vCPUs.
Unmask ==
    /\ pc = "unmask"
    /\ xenevtchn_unmask(port)
    /\ IF i = port THEN pc' = "check" /\ i' = i ELSE NextVcpu
    /\ UNCHANGED <<page, port, guest>>

\* As if the state were not looked at.
Accept_Any ==
    /\ pc = "check"
    /\ ioreq' = [ioreq EXCEPT ![i] = "INPROCESS"]
    /\ pc' = "process"
    /\ UNCHANGED <<kind, served, i, port, guest, evtchn>>

Accept ==
    /\ pc = "check"
    /\ ioreq[i] = "READY"
    /\ ioreq' = [ioreq EXCEPT ![i] = "INPROCESS"]
    /\ pc' = "process"
    /\ UNCHANGED <<kind, served, i, port, guest, evtchn>>

NotReady ==
    /\ pc = "check"
    /\ ioreq[i] # "READY"
    /\ NextVcpu
    /\ UNCHANGED <<page, port, guest, evtchn>>

\* What is not a request to the I/O port is answered without being served.
handle_ioreq ==
    /\ pc = "process"
    /\ served' = [served EXCEPT ![i] = IF kind[i] = "request" THEN @ + 1 ELSE @]
    /\ pc' = "respond"
    /\ UNCHANGED <<ioreq, kind, i, port, guest, evtchn>>

Respond ==
    /\ pc = "respond"
    /\ ioreq' = [ioreq EXCEPT ![i] = "RESP"]
    /\ pc' = "notify"
    /\ UNCHANGED <<kind, served, i, port, guest, evtchn>>

\* As if the first vCPU were notified instead of the one served.
Notify_First ==
    /\ pc = "notify"
    /\ wake' = [wake EXCEPT ![0] = TRUE]
    /\ NextVcpu
    /\ UNCHANGED <<page, port, vcpu, evtchn>>

Notify ==
    /\ pc = "notify"
    /\ wake' = [wake EXCEPT ![i] = TRUE]
    /\ NextVcpu
    /\ UNCHANGED <<page, port, vcpu, evtchn>>

Daemon == \/ Bind \/ EnterLoop \/ Poll \/ Unmask \/ Accept \/ NotReady
          \/ handle_ioreq \/ Respond \/ Notify

Next == \/ Daemon
        \/ \E v \in Vcpus : \/ \E k \in Kinds : Out(v, k)
                            \/ SendEvent(v)
                            \/ Resume(v)

-----------------------------------------------------------------------------
\* The loop stays within the vCPUs and the device never queues a port more
\* than twice, so its ring, sized for the bound ports, has a known bound.
TypeOK ==
    /\ ioreq \in [Vcpus -> {"NONE", "READY", "INPROCESS", "RESP"}]
    /\ kind \in [Vcpus -> Kinds]
    /\ served \in [Vcpus -> 0 .. 1]
    /\ pc \in {"bind", "start", "poll", "unmask", "check", "process", "respond", "notify"}
    /\ i \in Vcpus /\ port \in Vcpus
    /\ vcpu \in [Vcpus -> {"runs", "sends", "waits"}]
    /\ wake \in [Vcpus -> BOOLEAN]
    /\ enabled \in [Vcpus -> BOOLEAN] /\ pending \in [Vcpus -> BOOLEAN]
    /\ ring \in Seq(Vcpus) /\ Len(ring) <= 2 * VcpuCount

\* A request to the I/O port has been handed to the variable server exactly
\* once when its vCPU is told that it is complete, whatever stale or repeated
\* events woke the daemon.
ServedOnce ==
    \A v \in Vcpus : ioreq[v] = "RESP" =>
                         served[v] = IF kind[v] = "request" THEN 1 ELSE 0

\* A request whose event was sent cannot be overlooked: its port is queued, or
\* the loop has taken the port and is yet to look at the request.
NoLostWakeup ==
    \A v \in Vcpus : ioreq[v] = "READY" /\ vcpu[v] = "waits" =>
        \/ \E n \in DOMAIN ring : ring[n] = v
        \/ /\ port = v
           /\ \/ pc = "unmask" /\ i <= v
              \/ pc = "check" /\ i = v
=============================================================================
