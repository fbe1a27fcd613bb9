----------------------------- MODULE MultiProto -----------------------------
(***************************************************************************)
(* The server multiplexer prototype of multi.c with the address helpers of *)
(* mroute.c.  A fixed array of MULTI_N_INSTANCE instances, each with its   *)
(* own context, shares one socket and one TUN device through the top       *)
(* context.  Two pointers name the instance with output pending:           *)
(* m->link_out (for the socket) and m->tun_out (for the TUN device); a     *)
(* third, m->earliest_wakeup, names the instance whose timer is due.  The  *)
(* loop is multi_select, then multi_process_io or multi_process_timeout.   *)
(* A context's own processing (decrypt, TLS, pre_select) is abstracted to  *)
(* its outcome: whether it leaves a packet in to_tun or to_link, and       *)
(* whether it raises a signal, which closes the instance.                  *)
(***************************************************************************)
EXTENDS Naturals, FiniteSets, FiniteSetsExt

CONSTANTS
    N_INSTANCE,   \* MULTI_N_INSTANCE, slots in m->array
    Clients,      \* real addresses (address and port) of clients
    NoAddr,       \* a cleared mroute_addr (type MR_ADDR_NONE)
    MaxLinkPkts,  \* packets read from the socket in a behaviour
    MaxTunPkts    \* packets read from the TUN device in a behaviour

ASSUME /\ N_INSTANCE \in Nat \ {0}
       /\ NoAddr \notin Clients
       /\ {MaxLinkPkts, MaxTunPkts} \subseteq Nat

Slots == 1..N_INSTANCE
NULL  == 0                      \* a null struct multi_instance *

\* What read_incoming_tun can deliver on a DEV_TYPE_TUN device: an IPv4 or
\* IPv6 packet, or one too short for mroute_extract_addr_from_packet.
TunKinds == {"ipv4", "ipv6", "short"}

\* The sites where the process aborts: a failed ASSERT, a NULL
\* dereference, or msg (M_FATAL, ...).
Crashes == {"ASSERT multi.c:288", "ASSERT multi.c:311", "ASSERT multi.c:345",
            "NULL multi.c:374", "NULL multi.c:382", "ASSERT forward.c:919",
            "NULL multi.c:427", "NULL multi.c:429", "M_FATAL mroute.c:63"}

VARIABLES
    phase,     \* "select", "io", "timeout", "exited" or "aborted"
    inst,      \* inst[s]: m->array[s] as [defined, real, to_link, to_tun]
    link_out,  \* m->link_out
    tun_out,   \* m->tun_out
    earliest,  \* m->earliest_wakeup
    ready,     \* the events select reported
    crash,     \* where the process aborted, or "none"
    link_read, \* packets read from the socket so far
    tun_read   \* packets read from the TUN device so far

vars == <<phase, inst, link_out, tun_out, earliest, ready, crash,
          link_read, tun_read>>

\* CLEAR (*mi): an undefined instance with cleared addresses and buffers.
Cleared == [defined |-> FALSE, real |-> NoAddr, to_link |-> FALSE, to_tun |-> FALSE]

\* mi->virtual.addr: mroute_list_init clears it and nothing in multi.c or
\* mroute.c ever sets it.
VirtualAddr(s) == NoAddr

\* Abort at site w.
Abort(w) == /\ crash' = w
            /\ phase' = "aborted"

-----------------------------------------------------------------------------
(* The instance helpers.                                                   *)

\* A variant of the definition below, a plausible slip in the code it
\* models.
multi_close_instance_flag_only(mi) ==   \* mroute_list_free and the
    [mi EXCEPT !.defined = FALSE]        \* context close left out

\* multi_close_instance: a defined instance is closed and undefined.
multi_close_instance(mi) == IF mi.defined THEN Cleared ELSE mi

\* multi_process_post: unless the context is signalled, pre_select runs
\* (it may queue a TLS packet in to_link); a signalled context is closed.
\* sig: IS_SIG after the context's processing and pre_select.
multi_process_post(mi, sig, tls) ==
    IF sig THEN multi_close_instance(mi) ELSE [mi EXCEPT !.to_link = @ \/ tls]

\* The pointer multi_process_incoming_link (incoming_tun) keeps after
\* multi_process_post: NULL once the instance was closed.
PostedPtr(s, sig) == IF sig THEN NULL ELSE s

\* multi_get_instance_by_real_addr: a defined instance with address a.
ByRealAddr(a) == {s \in Slots : inst[s].defined /\ inst[s].real = a}

\* multi_get_instance_by_virtual_addr.
ByVirtualAddr(a) == {s \in Slots : inst[s].defined /\ VirtualAddr(s) = a}

\* multi_instance_get_free: the first undefined slot.
FreeSlots == {s \in Slots : ~inst[s].defined}

\* multi_select: socket write if link_out is set, else TUN read; TUN write
\* if tun_out is set, else socket read.
SelectMask ==
    (IF link_out # NULL THEN {"SOCKET_WRITE"} ELSE {"TUN_READ"})
      \cup (IF tun_out # NULL THEN {"TUN_WRITE"} ELSE {"SOCKET_READ"})

\* Events the outside world can make ready: reads within the bounds.
Available ==
    {e \in SelectMask : /\ e = "SOCKET_READ" => link_read < MaxLinkPkts
                        /\ e = "TUN_READ" => tun_read < MaxTunPkts}

\* multi_get_timeout: m->earliest_wakeup is a defined instance whose
\* wakeup is earliest and before BIG_TIMEOUT, or NULL.
EarliestChoices == {NULL} \cup {s \in Slots : inst[s].defined}

-----------------------------------------------------------------------------
Init ==
    /\ phase = "select"
    /\ inst = [s \in Slots |-> Cleared]
    /\ link_out = NULL
    /\ tun_out = NULL
    /\ earliest = NULL
    /\ ready = {}
    /\ crash = "none"
    /\ link_read = 0
    /\ tun_read = 0

\* multi_select: build the mask, compute the timeout (and earliest_wakeup),
\* and wait; select reports ready events, times out, or a signal arrives.
MultiSelect ==
    /\ phase = "select"
    /\ earliest' \in EarliestChoices
    /\ \/ \E r \in SUBSET Available : r # {} /\ ready' = r /\ phase' = "io"
       \/ ready' = {} /\ phase' = "timeout"
       \/ ready' = {} /\ phase' = "exited"
    /\ UNCHANGED <<inst, link_out, tun_out, crash, link_read, tun_read>>

\* The event multi_process_io handles: socket read, then TUN read, then
\* socket write, then TUN write.
Order == [SOCKET_READ |-> 1, TUN_READ |-> 2, SOCKET_WRITE |-> 3, TUN_WRITE |-> 4]
Top(r) == CHOOSE e \in r : \A f \in r : Order[e] <= Order[f]

\* Back to multi_select, with no abort.
Continue == phase' = "select" /\ UNCHANGED crash

\* multi_process_incoming_link for a packet from client c.  openSig: the
\* new instance's context signals during multi_inherit_context or its first
\* multi_process_post; data: process_incoming_link leaves a packet in
\* to_tun; out: TLS or pre_select leaves a packet in to_link; sig: the
\* context signals (a decrypt error or a timer) and is closed.
multi_process_incoming_link(c, openSig, data, out, sig) ==
    LET known == ByRealAddr(c)
        new   == known = {}
        s     == IF new THEN Min(FreeSlots) ELSE Min(known)
        base  == IF new THEN [Cleared EXCEPT !.defined = TRUE, !.real = c]
                 ELSE inst[s]
        mi    == multi_process_post([base EXCEPT !.to_tun = data], sig, out)
    IN \/ tun_out # NULL /\ Abort("ASSERT multi.c:311") /\ UNCHANGED <<inst, tun_out>>
       \/ /\ tun_out = NULL /\ new /\ FreeSlots = {}
          /\ Abort("ASSERT multi.c:288") /\ UNCHANGED <<inst, tun_out>>
       \/ /\ tun_out = NULL /\ new /\ FreeSlots # {} /\ openSig
          /\ Continue /\ UNCHANGED <<inst, tun_out>>
       \/ /\ tun_out = NULL /\ (~new \/ FreeSlots # {}) /\ ~(new /\ openSig)
          /\ inst' = [inst EXCEPT ![s] = mi]
          /\ tun_out' = PostedPtr(s, sig)
          /\ Continue

\* SOCKET_READ: read_incoming_link on the top context; unless it signals,
\* multi_process_incoming_link.
LinkRead ==
    /\ link_read' = link_read + 1
    /\ \/ phase' = "exited" /\ UNCHANGED <<inst, tun_out, crash>>
       \/ \E c \in Clients, openSig, data, out, sig \in BOOLEAN :
            multi_process_incoming_link(c, openSig, data, out, sig)
    /\ UNCHANGED <<link_out, earliest, ready, tun_read>>

\* multi_process_incoming_tun for a packet of kind k whose destination is
\* a: mroute_extract_addr_from_packet aborts on IPv6 and fails on a short
\* packet; the packet goes to the instance with virtual address a, if any.
multi_process_incoming_tun(k, a, sig) ==
    LET found == ByVirtualAddr(a)
        s     == Min(found)
    IN \/ link_out # NULL /\ Abort("ASSERT multi.c:345") /\ UNCHANGED <<inst, link_out>>
       \/ link_out = NULL /\ k = "ipv6" /\ Abort("M_FATAL mroute.c:63")
          /\ UNCHANGED <<inst, link_out>>
       \/ link_out = NULL /\ k = "short" /\ Continue /\ UNCHANGED <<inst, link_out>>
       \/ link_out = NULL /\ k = "ipv4" /\ found = {} /\ Continue
          /\ UNCHANGED <<inst, link_out>>
       \/ /\ link_out = NULL /\ k = "ipv4" /\ found # {}
          /\ inst' = [inst EXCEPT ![s] = multi_process_post([@ EXCEPT !.to_link = TRUE], sig, FALSE)]
          /\ link_out' = PostedPtr(s, sig)
          /\ Continue

\* TUN_READ: read_incoming_tun on the top context; unless it signals,
\* multi_process_incoming_tun.
TunRead ==
    /\ tun_read' = tun_read + 1
    /\ \/ phase' = "exited" /\ UNCHANGED <<inst, link_out, crash>>
       \/ \E k \in TunKinds, a \in Clients, sig \in BOOLEAN :
            multi_process_incoming_tun(k, a, sig)
    /\ UNCHANGED <<tun_out, earliest, ready, link_read>>

\* multi_process_outgoing_link: process_outgoing_link on m->link_out's
\* context, multi_process_post, link_out = NULL.
multi_process_outgoing_link ==
    \/ link_out = NULL /\ Abort("NULL multi.c:374") /\ UNCHANGED <<inst, link_out>>
    \/ /\ link_out # NULL
       /\ \E sig, tls \in BOOLEAN :
            inst' = [inst EXCEPT ![link_out] =
                       multi_process_post([@ EXCEPT !.to_link = FALSE], sig, tls)]
       /\ link_out' = NULL
       /\ Continue

\* multi_process_outgoing_tun: process_outgoing_tun on m->link_out's
\* context (it ASSERTs to_tun.len > 0, forward.c:919), then
\* multi_process_post on m->tun_out, tun_out = NULL.
multi_process_outgoing_tun ==
    \/ link_out = NULL /\ Abort("NULL multi.c:382") /\ UNCHANGED <<inst, tun_out>>
    \/ /\ link_out # NULL /\ ~inst[link_out].to_tun
       /\ Abort("ASSERT forward.c:919") /\ UNCHANGED <<inst, tun_out>>
    \/ /\ link_out # NULL /\ inst[link_out].to_tun
       /\ \E sig, tls \in BOOLEAN :
            LET written == [inst EXCEPT ![link_out].to_tun = FALSE]
            IN inst' = [written EXCEPT ![tun_out] = multi_process_post(@, sig, tls)]
       /\ tun_out' = NULL
       /\ Continue

\* multi_process_io: the first ready event of the else-if chain.
ProcessIo ==
    /\ phase = "io"
    /\ CASE Top(ready) = "SOCKET_READ" -> LinkRead
         [] Top(ready) = "TUN_READ"    -> TunRead
         [] Top(ready) = "SOCKET_WRITE" ->
              multi_process_outgoing_link /\ UNCHANGED <<tun_out, link_read, tun_read>>
         [] Top(ready) = "TUN_WRITE"   ->
              multi_process_outgoing_tun /\ UNCHANGED <<link_out, link_read, tun_read>>
    /\ UNCHANGED <<earliest, ready>>

\* multi_process_timeout: post-process m->earliest_wakeup and clear it;
\* then, if link_out (tun_out) is NULL, test the to_link (to_tun) of
\* m->earliest_wakeup, which is NULL by now.
multi_process_timeout ==
    /\ phase = "timeout"
    /\ \E sig, tls \in BOOLEAN :
         inst' = IF earliest # NULL
                 THEN [inst EXCEPT ![earliest] = multi_process_post(@, sig, tls)]
                 ELSE inst
    /\ earliest' = NULL
    /\ \/ link_out = NULL /\ Abort("NULL multi.c:427")
       \/ link_out # NULL /\ tun_out = NULL /\ Abort("NULL multi.c:429")
       \/ link_out # NULL /\ tun_out # NULL /\ Continue
    /\ UNCHANGED <<link_out, tun_out, ready, link_read, tun_read>>

\* The server exited on a signal or aborted.
Terminated == phase \in {"exited", "aborted"} /\ UNCHANGED vars

Next ==
    \/ MultiSelect
    \/ ProcessIo
    \/ multi_process_timeout
    \/ Terminated

Spec == Init /\ [][Next]_vars

-----------------------------------------------------------------------------
TypeOK ==
    /\ phase \in {"select", "io", "timeout", "exited", "aborted"}
    /\ inst \in [Slots -> [defined : BOOLEAN, real : Clients \cup {NoAddr},
                           to_link : BOOLEAN, to_tun : BOOLEAN]]
    /\ \A s \in Slots : ~inst[s].defined => inst[s] = Cleared
    /\ {link_out, tun_out, earliest} \subseteq Slots \cup {NULL}
    /\ ready \subseteq DOMAIN Order
    /\ crash \in Crashes \cup {"none"}
    /\ link_read \in 0..MaxLinkPkts /\ tun_read \in 0..MaxTunPkts

\* The prototype never dereferences a NULL instance pointer: neither
\* multi_process_outgoing_link and multi_process_outgoing_tun (the
\* instance behind m->link_out) nor multi_process_timeout (the instance
\* behind m->earliest_wakeup).
NoNullDereference ==
    crash \notin {"NULL multi.c:374", "NULL multi.c:382",
                  "NULL multi.c:427", "NULL multi.c:429"}
====
