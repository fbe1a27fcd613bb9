------------------------------ MODULE TapQueue ------------------------------
(***************************************************************************)
(* The packet and read-IRP queues of the TAP-Win32 driver (tapdrvr.c).    *)
(*                                                                         *)
(* NDIS hands Ethernet frames to AdapterTransmit, which queues them on    *)
(* m_PacketQueue; the user-mode process reads them with IRP_MJ_READ,      *)
(* whose IRPs wait on m_IrpQueue when no frame is queued.  CompleteIRP    *)
(* copies the head frame into an IRP.  A waiting IRP can be cancelled,    *)
(* which runs CancelIRP under the system cancel spin lock.  No lock       *)
(* protects the two queues: AdapterTransmit and the read dispatch raise   *)
(* the IRQL to DISPATCH_LEVEL around their queue work, which excludes     *)
(* each other on one processor only.  The adapter is deserialized         *)
(* (NDIS_ATTRIBUTE_DESERIALIZE), so on a multiprocessor AdapterTransmit,  *)
(* the dispatch routines and CancelIRP run in parallel.                   *)
(*                                                                         *)
(* Every handler is a sequence of steps, one per call of a Queue* routine *)
(* (each taken as atomic) or of an I/O manager routine on the IRP; the    *)
(* steps of different handlers interleave.  A frame is a model value with *)
(* a size, an IRP a model value with a buffer length.                      *)
(***************************************************************************)
EXTENDS Naturals, Sequences, SequencesExt, Functions

CONSTANTS
    Pkts,              \* frames NDIS sends in a behaviour
    Irps,              \* IRPs the user-mode process issues (read, write, ioctl)
    NoPkt, NoIrp,      \* the null TapPacketPointer and PIRP
    PktSizes,          \* frame lengths (at least ETHERNET_HEADER_SIZE)
    ReadLens,          \* Parameters.Read.Length of a read IRP
    PACKET_QUEUE_SIZE, \* m_Limit of m_PacketQueue
    IRP_QUEUE_SIZE,    \* m_Limit of m_IrpQueue
    SMP,               \* more than one processor
    MaxSessions,       \* IRP_MJ_CREATE/IRP_MJ_CLOSE pairs of the handle
    MaxPowerChanges    \* OID_PNP_SET_POWER requests

ASSUME /\ NoPkt \notin Pkts /\ NoIrp \notin Irps
       /\ PktSizes \subseteq Nat \ {0} /\ ReadLens \subseteq Nat
       /\ {PACKET_QUEUE_SIZE, IRP_QUEUE_SIZE} \subseteq Nat \ {0}
       /\ SMP \in BOOLEAN

VARIABLES
    pktq,       \* m_PacketQueue: the payloads from m_First to m_Last
    irpq,       \* m_IrpQueue
    ctx,        \* ctx[x]: the handler running for frame or IRP x: pc,
                \* CompleteIRP's p_IRP and l_PacketBuffer, and where
                \* CompleteIRP returns to
    cx,         \* cx[r]: IoCancelIrp on r and the CancelIRP it calls
    size,       \* size[p]: l_PacketBuffer->m_Size (0 before AdapterTransmit)
    len,        \* len[r]: IoStatus.Information set from Read.Length
    cancel_rtn, \* cancel_rtn[r]: the cancel routine of r is CancelIRP
    cancel_lock,\* the IRP whose cancellation holds the cancel spin lock
    completed,  \* completed[r]: IoCompleteRequest calls on r
    freed,      \* freed[p]: NdisFreeMemory calls on frame p
    pushed,     \* frames in the order QueuePush accepted them
    delivered,  \* frames in the order they were copied into an IRP
    leaked,     \* frames popped and neither freed nor delivered
    spoiled,    \* frames popped and freed after NdisMoveMemory raised
    opens,      \* m_TapOpens
    sessions,   \* IRP_MJ_CREATE requests so far
    running,    \* m_InterfaceIsRunning
    power       \* OID_PNP_SET_POWER requests so far

vars == <<pktq, irpq, ctx, cx, size, len, cancel_rtn, cancel_lock, completed,
          freed, pushed, delivered, leaked, spoiled, opens, sessions, running,
          power>>

Ctxs == Pkts \cup Irps

\* The steps during which a handler runs at DISPATCH_LEVEL.
RaisedPcs == {"tx_push", "tx_loop", "tx_pop", "rd_check", "rd_push",
              "rd_pend", "ci_peek", "ci_check", "ci_pop", "ci_deliver"}

\* On one processor a handler that raised the IRQL to DISPATCH_LEVEL runs
\* to its KeLowerIrql before any other handler takes a step; so does a
\* cancellation holding the cancel spin lock (acquired at DISPATCH_LEVEL).
NoneRaised(xs, rs) ==
    /\ \A y \in xs : ctx[y].pc \notin RaisedPcs
    /\ \A r \in rs : cx[r] # "cx_extract"
Alone(x)       == SMP \/ NoneRaised(Ctxs \ {x}, Irps)
CancelAlone(r) == SMP \/ NoneRaised(Ctxs, Irps \ {r})
Passive        == SMP \/ NoneRaised(Ctxs, Irps)

\* Variants of the definitions below, each a plausible slip in the code
\* it models; every property of the passing run is violated by one.
ListAddNoLimit(q, lim) ==            \* the m_Count >= m_Limit test lost
    {TRUE, FALSE}

\* MemAlloc: NdisAllocateMemory succeeds, or fails or raises an exception
\* (caught), and the node pointer is 0.
MemAlloc == {TRUE, FALSE}

\* ListCount, ListAdd, ListRemove (LMODE_QUEUE) and ListPeek (LMODE_QUEUE)
\* on a list with limit lim: a full list, or a failed MemAlloc of the node,
\* leaves it unchanged and returns 0.
ListAdd(q, lim) == IF Len(q) < lim THEN MemAlloc ELSE {FALSE}
ListRemove(q) == IF q = <<>> THEN q ELSE Tail(q)
ListRemoved(q, null) == IF q = <<>> THEN null ELSE Head(q)
ListPeek(q, null) == IF q = <<>> THEN null ELSE Head(q)

\* ListExtract: the node holding the payload is unlinked; 0 if none is.
ListExtract(q, x) == RemoveFirst(q, x)

Goto(x, pc) == ctx' = [ctx EXCEPT ![x].pc = pc]

-----------------------------------------------------------------------------
\* CreateTapDevice: both lists ListActivate'd empty, m_TapIsRunning set;
\* AdapterCreate then sets m_InterfaceIsRunning.
Init ==
    /\ pktq = <<>> /\ irpq = <<>>
    /\ ctx = [x \in Ctxs |-> [pc |-> "idle", irp |-> NoIrp, peeked |-> NoPkt,
                              ret |-> "done"]]
    /\ cx = [r \in Irps |-> "idle"]
    /\ size = [p \in Pkts |-> 0]
    /\ len = [r \in Irps |-> 0]
    /\ cancel_rtn = [r \in Irps |-> FALSE]
    /\ cancel_lock = NoIrp
    /\ completed = [r \in Irps |-> 0]
    /\ freed = [p \in Pkts |-> 0]
    /\ pushed = <<>> /\ delivered = <<>> /\ leaked = {} /\ spoiled = {}
    /\ opens = 0 /\ sessions = 0
    /\ running = TRUE /\ power = 0
-----------------------------------------------------------------------------
(* AdapterTransmit, before KeRaiseIrql: a frame shorter than the Ethernet *)
(* header is refused, nothing is queued while no handle is open, and a    *)
(* failed NdisAllocateMemory drops the frame; otherwise the frame is      *)
(* copied into a new TapPacket.                                            *)
TransmitStart(p) ==
    /\ ctx[p].pc = "idle" /\ Alone(p)
    /\ \/ Goto(p, "done") /\ UNCHANGED size                    \* too short
       \/ opens = 0 /\ Goto(p, "done") /\ UNCHANGED size       \* no reader
       \/ opens > 0 /\ Goto(p, "done") /\ UNCHANGED size       \* no memory
       \/ opens > 0 /\ Goto(p, "tx_push")
          /\ \E sz \in PktSizes : size' = [size EXCEPT ![p] = sz]
    /\ UNCHANGED <<pktq, irpq, cx, len, cancel_rtn, cancel_lock, completed,
                   freed, pushed, delivered, leaked, spoiled, opens, sessions,
                   running, power>>

\* QueuePush; with OVERWRITE_OLD_PACKETS FALSE a frame the queue refuses
\* is freed.
TransmitPush(p) ==
    /\ ctx[p].pc = "tx_push" /\ Alone(p)
    /\ \E ok \in ListAdd(pktq, PACKET_QUEUE_SIZE) :
          IF ok THEN /\ pktq' = Append(pktq, p) /\ pushed' = Append(pushed, p)
                     /\ UNCHANGED freed
                ELSE /\ freed' = [freed EXCEPT ![p] = @ + 1]
                     /\ UNCHANGED <<pktq, pushed>>
    /\ Goto(p, "tx_loop")
    /\ UNCHANGED <<irpq, cx, size, len, cancel_rtn, cancel_lock, completed,
                   delivered, leaked, spoiled, opens, sessions, running, power>>

\* while (QueueCount (PacketQueue) && QueueCount (IrpQueue)); on leaving
\* the loop KeLowerIrql and return.
TransmitLoop(p) ==
    /\ ctx[p].pc = "tx_loop" /\ Alone(p)
    /\ Goto(p, IF pktq # <<>> /\ irpq # <<>> THEN "tx_pop" ELSE "done")
    /\ UNCHANGED <<pktq, irpq, cx, size, len, cancel_rtn, cancel_lock,
                   completed, freed, pushed, delivered, leaked, spoiled, opens,
                   sessions, running, power>>

\* CompleteIRP (l_Adapter, QueuePop (IrpQueue), ...)
TransmitPop(p) ==
    /\ ctx[p].pc = "tx_pop" /\ Alone(p)
    /\ irpq' = ListRemove(irpq)
    /\ ctx' = [ctx EXCEPT ![p] = [pc |-> "ci_peek",
                                  irp |-> ListRemoved(irpq, NoIrp),
                                  peeked |-> NoPkt, ret |-> "tx_loop"]]
    /\ UNCHANGED <<pktq, cx, size, len, cancel_rtn, cancel_lock, completed,
                   freed, pushed, delivered, leaked, spoiled, opens, sessions,
                   running, power>>

-----------------------------------------------------------------------------
(* CompleteIRP, called with the IRP ctx[x].irp by AdapterTransmit or by   *)
(* the read dispatch; it returns to ctx[x].ret.                           *)

\* l_PacketBuffer = QueuePeek (PacketQueue).  "The topmost packet buffer
\* is invalid" when the peek returns 0, as it does on an empty queue: then
\* QueuePop (PacketQueue), whose result is dropped, and return without
\* completing the IRP.  The peek and that pop are taken as one step (a
\* frame queued between them would be popped and leaked as well).
CompletePeek(x) ==
    /\ ctx[x].pc = "ci_peek" /\ Alone(x)
    /\ LET h == ListPeek(pktq, NoPkt) IN
         /\ ctx' = [ctx EXCEPT ![x].peeked = h,
                               ![x].pc = IF h = NoPkt \/ ctx[x].irp = NoIrp
                                         THEN ctx[x].ret ELSE "ci_check"]
         /\ IF h = NoPkt
              THEN /\ pktq' = ListRemove(pktq)
                   /\ leaked' = leaked \cup ({ListRemoved(pktq, NoPkt)} \ {NoPkt})
              ELSE UNCHANGED <<pktq, leaked, spoiled>>
    /\ UNCHANGED <<irpq, cx, size, len, cancel_rtn, cancel_lock, completed,
                   freed, pushed, delivered, spoiled, opens, sessions, running,
                   power>>

CompleteCheckOverflowKept(x) ==      \* overflow without IoCompleteRequest
    /\ ctx[x].pc = "ci_check" /\ Alone(x)
    /\ LET r == ctx[x].irp IN
         /\ cancel_rtn' = [cancel_rtn EXCEPT ![r] = FALSE]
         /\ IF len[r] < size[ctx[x].peeked]
              THEN Goto(x, ctx[x].ret)
              ELSE Goto(x, "ci_pop")
    /\ UNCHANGED <<pktq, irpq, cx, size, len, cancel_lock, completed, freed,
                   pushed, delivered, leaked, spoiled, opens, sessions, running, power>>

\* IoSetCancelRoutine (p_IRP, NULL); an IRP too small for the frame is
\* completed with STATUS_BUFFER_OVERFLOW and the frame stays queued.
CompleteCheck(x) ==
    /\ ctx[x].pc = "ci_check" /\ Alone(x)
    /\ LET r == ctx[x].irp IN
         /\ cancel_rtn' = [cancel_rtn EXCEPT ![r] = FALSE]
         /\ IF len[r] < size[ctx[x].peeked]
              THEN /\ completed' = [completed EXCEPT ![r] = @ + 1]
                   /\ Goto(x, ctx[x].ret)
              ELSE /\ Goto(x, "ci_pop") /\ UNCHANGED completed
    /\ UNCHANGED <<pktq, irpq, cx, size, len, cancel_lock, freed, pushed,
                   delivered, leaked, spoiled, opens, sessions, running, power>>

\* QueuePop (PacketQueue): the head now, which need not be the frame peeked.
CompletePop(x) ==
    /\ ctx[x].pc = "ci_pop" /\ Alone(x)
    /\ pktq' = ListRemove(pktq)
    /\ Goto(x, "ci_deliver")
    /\ UNCHANGED <<irpq, cx, size, len, cancel_rtn, cancel_lock, completed,
                   freed, pushed, delivered, leaked, spoiled, opens, sessions,
                   running, power>>

\* NdisMoveMemory of the peeked frame into the IRP, NdisFreeMemory of the
\* frame, IoCompleteRequest (l_Status is STATUS_SUCCESS on both paths).  If
\* the copy raises, the __except sets STATUS_UNSUCCESSFUL: the reader gets
\* no frame, and the frame is freed all the same.
CompleteDeliver(x) ==
    /\ ctx[x].pc = "ci_deliver" /\ Alone(x)
    /\ LET p == ctx[x].peeked IN
         /\ \/ delivered' = Append(delivered, p) /\ UNCHANGED spoiled
            \/ spoiled' = spoiled \cup {p} /\ UNCHANGED delivered
         /\ freed' = [freed EXCEPT ![p] = @ + 1]
    /\ completed' = [completed EXCEPT ![ctx[x].irp] = @ + 1]
    /\ Goto(x, ctx[x].ret)
    /\ UNCHANGED <<pktq, irpq, cx, size, len, cancel_rtn, cancel_lock, pushed,
                   leaked, opens, sessions, running, power>>
-----------------------------------------------------------------------------
(* TapDeviceHook, IRP_MJ_READ on an open handle.  A missing MDL, a failed *)
(* MmGetSystemAddressForMdlSafe or a stopped interface complete the IRP   *)
(* with an error; otherwise the IRQL is raised.                           *)
Read(r) ==
    /\ ctx[r].pc = "idle" /\ opens > 0 /\ Alone(r)
    /\ \E l \in ReadLens : len' = [len EXCEPT ![r] = l]
    /\ \/ /\ completed' = [completed EXCEPT ![r] = @ + 1]  \* no MDL, no map
          /\ Goto(r, "done")
       \/ /\ ~running
          /\ completed' = [completed EXCEPT ![r] = @ + 1]
          /\ Goto(r, "done")
       \/ /\ running /\ Goto(r, "rd_check") /\ UNCHANGED completed
    /\ UNCHANGED <<pktq, irpq, cx, size, cancel_rtn, cancel_lock, freed,
                   pushed, delivered, leaked, spoiled, opens, sessions, running, power>>

\* Immediate service when frames are queued and no IRP waits; else pend.
ReadCheck(r) ==
    /\ ctx[r].pc = "rd_check" /\ Alone(r)
    /\ IF pktq # <<>> /\ irpq = <<>>
         THEN ctx' = [ctx EXCEPT ![r] = [pc |-> "ci_peek", irp |-> r,
                                         peeked |-> NoPkt, ret |-> "done"]]
         ELSE Goto(r, "rd_push")
    /\ UNCHANGED <<pktq, irpq, cx, size, len, cancel_rtn, cancel_lock,
                   completed, freed, pushed, delivered, leaked, spoiled, opens,
                   sessions, running, power>>

\* QueuePush (IrpQueue); a refused IRP is the "read IRP overrun".
ReadPush(r) ==
    /\ ctx[r].pc = "rd_push" /\ Alone(r)
    /\ \E ok \in ListAdd(irpq, IRP_QUEUE_SIZE) :
          IF ok THEN /\ irpq' = Append(irpq, r) /\ Goto(r, "rd_pend")
                     /\ UNCHANGED completed
                ELSE /\ completed' = [completed EXCEPT ![r] = @ + 1]
                     /\ Goto(r, "done") /\ UNCHANGED irpq
    /\ UNCHANGED <<pktq, cx, size, len, cancel_rtn, cancel_lock, freed,
                   pushed, delivered, leaked, spoiled, opens, sessions, running, power>>

\* IoSetCancelRoutine (p_IRP, CancelIRP), IoMarkIrpPending, STATUS_PENDING.
ReadPend(r) ==
    /\ ctx[r].pc = "rd_pend" /\ Alone(r)
    /\ cancel_rtn' = [cancel_rtn EXCEPT ![r] = TRUE]
    /\ Goto(r, "done")
    /\ UNCHANGED <<pktq, irpq, cx, size, len, cancel_lock, completed, freed,
                   pushed, delivered, leaked, spoiled, opens, sessions, running, power>>

\* TapDeviceHook, IRP_MJ_WRITE: served at once.  A missing MDL, a failed
\* map, a stopped interface, a buffer shorter than ETHERNET_HEADER_SIZE or
\* an exception in NdisMEthIndicateReceive fail it; otherwise the frame
\* goes up the stack (the m_Rx statistic is left out).  Either way the IRP
\* is completed before the dispatch returns.
Write(r) ==
    /\ ctx[r].pc = "idle" /\ opens > 0 /\ Alone(r)
    /\ completed' = [completed EXCEPT ![r] = @ + 1]
    /\ Goto(r, "done")
    /\ UNCHANGED <<pktq, irpq, cx, size, len, cancel_rtn, cancel_lock, freed,
                   pushed, delivered, leaked, spoiled, opens, sessions, running, power>>

\* TapDeviceHook, IRP_MJ_DEVICE_CONTROL: TAP_IOCTL_GET_MAC copies m_MAC if
\* the output buffer holds it, any other code is STATUS_INVALID_PARAMETER;
\* the IRP is completed in the dispatch.
DeviceControl(r) ==
    /\ ctx[r].pc = "idle" /\ opens > 0 /\ Alone(r)
    /\ completed' = [completed EXCEPT ![r] = @ + 1]
    /\ Goto(r, "done")
    /\ UNCHANGED <<pktq, irpq, cx, size, len, cancel_rtn, cancel_lock, freed,
                   pushed, delivered, leaked, spoiled, opens, sessions, running, power>>

-----------------------------------------------------------------------------
(* IoCancelIrp on a read IRP the process has issued and not seen          *)
(* completed (CancelIo, or the thread exiting): it takes the cancel spin  *)
(* lock, clears the cancel routine and calls it, or releases the lock if  *)
(* there was none.                                                         *)
Cancel(r) ==
    /\ cx[r] = "idle" /\ ctx[r].pc # "idle" /\ completed[r] = 0
    /\ cancel_lock = NoIrp /\ CancelAlone(r)
    /\ cancel_rtn' = [cancel_rtn EXCEPT ![r] = FALSE]
    /\ IF cancel_rtn[r]
         THEN cx' = [cx EXCEPT ![r] = "cx_extract"] /\ cancel_lock' = r
         ELSE cx' = [cx EXCEPT ![r] = "done"] /\ UNCHANGED cancel_lock
    /\ UNCHANGED <<pktq, irpq, ctx, size, len, completed, freed, pushed,
                   delivered, leaked, spoiled, opens, sessions, running, power>>

CancelIRPNoRelease(r) ==             \* IoReleaseCancelSpinLock left out
    /\ cx[r] = "cx_extract" /\ CancelAlone(r)
    /\ cx' = [cx EXCEPT ![r] = "done"]
    /\ IF r \in ToSet(irpq)
         THEN /\ irpq' = ListExtract(irpq, r)
              /\ completed' = [completed EXCEPT ![r] = @ + 1]
         ELSE UNCHANGED <<irpq, completed>>
    /\ UNCHANGED <<pktq, ctx, size, len, cancel_rtn, cancel_lock, freed,
                   pushed, delivered, leaked, spoiled, opens, sessions, running, power>>
CancelIRPNoExtract(r) ==             \* completed but left on m_IrpQueue
    /\ cx[r] = "cx_extract" /\ CancelAlone(r)
    /\ cx' = [cx EXCEPT ![r] = "done"]
    /\ IF r \in ToSet(irpq)
         THEN /\ cancel_lock' = NoIrp
              /\ completed' = [completed EXCEPT ![r] = @ + 1]
         ELSE UNCHANGED <<cancel_lock, completed>>
    /\ UNCHANGED <<pktq, irpq, ctx, size, len, cancel_rtn, freed, pushed,
                   delivered, leaked, spoiled, opens, sessions, running, power>>

\* CancelIRP: if QueueExtract finds the IRP it releases the cancel spin
\* lock and completes it STATUS_CANCELLED; if not, it returns holding it.
CancelIRP(r) ==
    /\ cx[r] = "cx_extract" /\ CancelAlone(r)
    /\ cx' = [cx EXCEPT ![r] = "done"]
    /\ IF r \in ToSet(irpq)
         THEN /\ irpq' = ListExtract(irpq, r)
              /\ cancel_lock' = NoIrp
              /\ completed' = [completed EXCEPT ![r] = @ + 1]
         ELSE UNCHANGED <<irpq, cancel_lock, completed>>
    /\ UNCHANGED <<pktq, ctx, size, len, cancel_rtn, freed, pushed,
                   delivered, leaked, spoiled, opens, sessions, running, power>>

-----------------------------------------------------------------------------
\* IRP_MJ_CREATE: m_TapIsRunning, so ++m_TapOpens.  The one handle is
\* opened again only after it was closed.
Create ==
    /\ opens = 0 /\ sessions < MaxSessions /\ Passive
    /\ opens' = 1 /\ sessions' = sessions + 1
    /\ UNCHANGED <<pktq, irpq, ctx, cx, size, len, cancel_rtn, cancel_lock,
                   completed, freed, pushed, delivered, leaked, spoiled, running,
                   power>>

\* IRP_MJ_CLOSE, sent once no IRP of the handle is outstanding: one
\* iteration of "while (QueueCount) QueuePop" (the frame is not freed),
\* then --m_TapOpens.
Close ==
    /\ opens > 0 /\ Passive
    /\ \A r \in Irps : ctx[r].pc # "idle" => completed[r] > 0
    /\ IF pktq # <<>>
         THEN /\ pktq' = Tail(pktq) /\ leaked' = leaked \cup {Head(pktq)}
              /\ UNCHANGED opens
         ELSE /\ opens' = opens - 1 /\ UNCHANGED <<pktq, leaked, spoiled>>
    /\ UNCHANGED <<irpq, ctx, cx, size, len, cancel_rtn, cancel_lock,
                   completed, freed, pushed, delivered, spoiled, sessions,
                   running, power>>

\* AdapterModify, OID_PNP_SET_POWER: a state above D0 stops the interface,
\* D0 starts it.
SetPower ==
    /\ power < MaxPowerChanges /\ Passive
    /\ \E d0 \in BOOLEAN : running' = d0
    /\ power' = power + 1
    /\ UNCHANGED <<pktq, irpq, ctx, cx, size, len, cancel_rtn, cancel_lock,
                   completed, freed, pushed, delivered, leaked, spoiled, opens,
                   sessions>>

\* AdapterStop, the shutdown handler NdisMRegisterAdapterShutdownHandler
\* installed: m_InterfaceIsRunning = FALSE, at any moment, whatever the
\* handlers are doing.
Shutdown ==
    /\ running
    /\ running' = FALSE
    /\ UNCHANGED <<pktq, irpq, ctx, cx, size, len, cancel_rtn, cancel_lock,
                   completed, freed, pushed, delivered, leaked, spoiled, opens,
                   sessions, power>>

\* Every frame has been sent and every read dispatched that can be: the
\* system may stop here.
Quiescent ==
    /\ \A p \in Pkts : ctx[p].pc = "done"
    /\ \A r \in Irps : ctx[r].pc \in {"idle", "done"}
    /\ UNCHANGED vars

Next ==
    \/ \E p \in Pkts : TransmitStart(p) \/ TransmitPush(p) \/ TransmitLoop(p)
                       \/ TransmitPop(p)
    \/ \E r \in Irps : Read(r) \/ ReadCheck(r) \/ ReadPush(r) \/ ReadPend(r)
                       \/ Write(r) \/ DeviceControl(r)
                       \/ Cancel(r) \/ CancelIRP(r)
    \/ \E x \in Ctxs : CompletePeek(x) \/ CompleteCheck(x) \/ CompletePop(x)
                       \/ CompleteDeliver(x)
    \/ Create \/ Close \/ SetPower \/ Shutdown
    \/ Quiescent

Spec == Init /\ [][Next]_vars
-----------------------------------------------------------------------------
CompletePcs == {"ci_peek", "ci_check", "ci_pop", "ci_deliver"}
AtRest == \A x \in Ctxs : ctx[x].pc \in {"idle", "done"}

TypeOK ==
    /\ pktq \in BoundedSeq(Pkts, PACKET_QUEUE_SIZE)
    /\ irpq \in BoundedSeq(Irps, IRP_QUEUE_SIZE)
    /\ ctx \in [Ctxs -> [pc : {"idle", "done", "tx_push", "tx_loop",
                               "tx_pop", "rd_check", "rd_push", "rd_pend"}
                              \cup CompletePcs,
                         irp : Irps \cup {NoIrp}, peeked : Pkts \cup {NoPkt},
                         ret : {"tx_loop", "done"}]]
    /\ cx \in [Irps -> {"idle", "cx_extract", "done"}]
    /\ size \in [Pkts -> PktSizes \cup {0}] /\ len \in [Irps -> ReadLens \cup {0}]
    /\ cancel_rtn \in [Irps -> BOOLEAN] /\ cancel_lock \in Irps \cup {NoIrp}
    /\ completed \in [Irps -> Nat] /\ freed \in [Pkts -> Nat]
    /\ pushed \in Seq(Pkts) /\ delivered \in Seq(Pkts) /\ leaked \subseteq Pkts
    /\ spoiled \subseteq Pkts
    /\ opens \in 0..1 /\ sessions \in 0..MaxSessions
    /\ running \in BOOLEAN /\ power \in 0..MaxPowerChanges

\* An IRP is completed at most once, never while it is still on
\* m_IrpQueue, and never before the read dispatch that pends it has done
\* with it (IoSetCancelRoutine and IoMarkIrpPending after QueuePush).
IrpCompletedOnce ==
    \A r \in Irps :
        /\ completed[r] <= 1
        /\ r \in ToSet(irpq) => completed[r] = 0
        /\ ctx[r].pc = "rd_pend" => completed[r] = 0

\* A read IRP the driver kept (its dispatch returned STATUS_PENDING) is on
\* m_IrpQueue, in the hands of a CompleteIRP, or completed: AdapterTransmit
\* pops it only to complete it, and no path drops it.
IrpAccountedFor ==
    \A r \in Irps :
        ctx[r].pc = "done" /\ completed[r] = 0 =>
            \/ r \in ToSet(irpq)
            \/ \E x \in Ctxs : ctx[x].irp = r /\ ctx[x].pc \in CompletePcs

\* The cancel spin lock is held only while a CancelIRP runs: CancelIRP
\* releases it on every path, so QueueExtract must always find the IRP
\* whose cancel routine the I/O manager called.
CancelSpinLockReleased ==
    cancel_lock # NoIrp => cx[cancel_lock] = "cx_extract"

\* The driver implements the frame channel it promises the reader
\* (TapChannel): QueuePush in AdapterTransmit accepts a frame, the
\* NdisMoveMemory and IoCompleteRequest of CompleteIRP deliver the oldest
\* one, and IRP_MJ_CLOSE's pop or a failed copy discards the oldest.  A
\* frame CompleteIRP has popped and not yet copied still counts as queued,
\* at the head.  No path of CompleteIRP, the read dispatch or CancelIRP
\* makes a frame vanish, duplicates one or reorders two, whoever else runs
\* meanwhile: on several processors CompleteIRP's QueuePeek (1398) and
\* QueuePop (1415) must name the same frame.
HeldByCompleteIRP ==
    {ctx[x].peeked : x \in {y \in Ctxs : ctx[y].pc = "ci_deliver"}}

Chan == INSTANCE TapChannel
            WITH accepted <- ToSet(pushed),
                 queued <- SetToSeq(HeldByCompleteIRP) \o pktq,
                 out <- delivered, lost <- leaked \cup spoiled

ImplementsTapChannel == Chan!ChanSpec
====
