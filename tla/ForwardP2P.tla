----------------------------- MODULE ForwardP2P -----------------------------
(***************************************************************************)
(* The point-to-point event loop of forward.c and openvpn.c.               *)
(*                                                                         *)
(* One context c holds two single-packet slots: c2.to_link (a packet       *)
(* waiting for the TCP/UDP socket) and c2.to_tun (a packet waiting for the *)
(* TUN/TAP device).  Each iteration of tunnel_point_to_point runs          *)
(* pre_select, io_wait and process_io, checking for a signal after each.   *)
(* Packet contents are abstracted to their kind and, for packets read from *)
(* the TUN device, to the number of the packet and of the fragment.        *)
(***************************************************************************)
EXTENDS Naturals, FiniteSets, Options

CONSTANTS
    Options,      \* the option sets the process may be started with:
                  \* records of proto ("udp", "tcp-client" or
                  \* "tcp-server"), shaping (--shaper given), fragment
                  \* (--fragment given, c2.fragment # NULL) and link_pkts
                  \* (packets the peer delivers)
    TuntapOpen,   \* tuntap_defined (c->c1.tuntap)
    Inetd,        \* options.inetd
    MaxFrags,     \* most fragments fragment_outgoing makes of one packet
    MaxTunPkts,   \* packets the TUN device delivers in a behaviour
    MaxCtrl,      \* control-channel transmissions started by TLS timers
    MaxRestarts   \* SIGUSR1/SIGHUP restarts of tunnel_point_to_point

ASSUME /\ Options \subseteq [proto : {"udp", "tcp-client", "tcp-server"},
                             shaping : BOOLEAN, fragment : BOOLEAN,
                             link_pkts : Nat]
       /\ {TuntapOpen, Inetd} \subseteq BOOLEAN
       /\ MaxFrags \in Nat \ {0}
       /\ {MaxTunPkts, MaxCtrl, MaxRestarts} \subseteq Nat

VARIABLES
    opt,          \* the options of this process, fixed at startup
    phase,        \* position in the loop of tunnel_point_to_point
    wait,         \* the events io_wait registered in c2.event_set
    status,       \* c2.event_set_status
    sig,          \* c->sig->signal_received
    to_link,      \* c2.to_link
    to_tun,       \* c2.to_tun.len > 0
    frag,         \* c2.fragment->outgoing: packet being fragmented
    tls_pending,  \* TLS has a control packet ready for to_link
    tls_errors,   \* c2.tls_multi->n_errors > 0
    stream,       \* TCP stream_buf: "empty", "residual" or "formed"
    tun_read,     \* packets read from the TUN device so far
    link_read,    \* packets delivered by the peer so far
    ctrl_made,    \* TLS retransmissions started so far
    restarts,     \* restarts of the tunnel so far
    n_frags,      \* n_frags[i]: fragments TUN packet i was cut into
    sent_frags,   \* sent_frags[i]: the fragments of packet i written (history)
    dropped       \* TUN packets discarded on purpose (no key, restart)

loop_vars == <<phase, wait, status, sig, to_link, to_tun, frag, tls_pending,
               tls_errors, stream, tun_read, link_read, ctrl_made, restarts,
               n_frags, sent_frags, dropped>>
vars == <<opt, loop_vars>>

Proto       == opt.proto
Shaping     == opt.shaping
MaxLinkPkts == opt.link_pkts

Events  == {"SOCKET_READ", "SOCKET_WRITE", "TUN_READ", "TUN_WRITE"}
Signals == {"none", "SIGUSR1", "SIGTERM"}
TunIds  == 1..MaxTunPkts
NoPkt   == [kind |-> "none", id |-> 0, frag |-> 0]
CtrlPkt == [kind |-> "ctrl", id |-> 0, frag |-> 0]
DataPkt(i, k) == [kind |-> "data", id |-> i, frag |-> k]
NoFrag  == [id |-> 0, next |-> 0, total |-> 0]
Stopped == phase \in {"exited", "aborted"}

\* TO_LINK_FRAG(c): fragment_outgoing_defined (c->c2.fragment)
TO_LINK_FRAG == frag # NoFrag

\* What the peer can send: a data or control packet, good or failing
\* authentication.
PeerKinds == {"data", "ctrl", "bad_data", "bad_ctrl"}

\* Everything in flight that a restart throws away.
InFlight == ({frag.id, to_link.id} \cap TunIds)

\* The phase after a step: PROCESS_SIGNAL_P2P breaks out on a signal.
After(next) == IF sig' = "none" THEN next ELSE "signal"

\* tls_pre_encrypt empties the buffer when no key is >= S_ACTIVE; the rest
\* of encrypt_sign leaves the packet, and its final line stores it in
\* to_link.
EncryptSign(p, keyOk) == IF keyOk THEN p ELSE NoPkt

\* Variants of the definitions below, each a plausible slip in the code
\* it models; every property of the passing runs is violated by one.
FragmentNextPastEnd ==      \* last fragment test off by one
    IF frag.next > frag.total THEN NoFrag ELSE [frag EXCEPT !.next = @ + 1]
SocketFlagsShaperStuck(delay) ==   \* shaper delay never below 1000 us
    {e \in {"SOCKET_WRITE"} : to_link # NoPkt /\ ~Shaping}
      \cup {e \in {"SOCKET_READ"} : ~to_tun}
TunFlagsLikeSpec ==         \* spec.md 4.H: tun read while to_link is set
    {e \in {"TUN_READ"} : ~TO_LINK_FRAG} \cup {e \in {"TUN_WRITE"} : to_tun}
TlsSendsUnchecked(want) ==  \* tls_process writes to_link unconditionally
    want
ResidualIgnored(str) ==     \* IOW_CHECK_RESIDUAL not honoured
    FALSE

\* tls_process puts a reliable-layer packet or an ACK in to_link only if
\* to_link is empty (!to_link->len).
TlsSendsControl(want) == want /\ to_link = NoPkt

\* fragment_ready_to_send: the next fragment of f->outgoing; after the last
\* one f->outgoing is empty.
FragmentReadyToSend ==
    IF frag.next = frag.total THEN NoFrag ELSE [frag EXCEPT !.next = @ + 1]

-----------------------------------------------------------------------------
\* The struct options of an option set: init_options with --remote,
\* --inetd when Inetd holds, and the fields above given.  main runs the tunnel only with option sets
\* options_postprocess accepts; it exits on any other.
OptionSet(o) ==
    [init_options EXCEPT !.proto = o.proto, !.remote = TRUE,
                         !.shaper = o.shaping, !.fragment = o.fragment,
                         !.inetd = IF Inetd THEN "wait" ELSE "none"]

Init ==
    /\ opt \in {o \in Options : options_postprocess(OptionSet(o))}
    /\ phase = "pre_select"
    /\ wait = {}
    /\ status = {}
    /\ sig = "none"
    /\ to_link = NoPkt
    /\ to_tun = FALSE
    /\ frag = NoFrag
    /\ tls_pending = TRUE     \* the initial hard reset
    /\ tls_errors = FALSE
    /\ stream = "empty"
    /\ tun_read = 0
    /\ link_read = 0
    /\ ctrl_made = 0
    /\ restarts = 0
    /\ n_frags = [i \in TunIds |-> 0]
    /\ sent_frags = [i \in TunIds |-> {}]
    /\ dropped = {}

\* check_coarse_timers: --inactive raises SIGTERM, --ping-restart SIGUSR1.
CoarseTimerSignal ==
    /\ \E s \in Signals \ {"none"} : sig' = s
    /\ UNCHANGED <<to_link, frag, tls_pending, ctrl_made, dropped>>

\* check_fragment_dowork, with to_link as check_tls left it: a pending
\* fragment goes into an empty to_link through fragment_ready_to_send and
\* encrypt_sign, which drops it when there is no key.
CheckFragment(link1, keyOk) ==
    LET sendF == TO_LINK_FRAG /\ link1 = NoPkt
        piece == DataPkt(frag.id, frag.next)
    IN /\ to_link' = IF sendF THEN EncryptSign(piece, keyOk) ELSE link1
       /\ frag' = IF sendF THEN FragmentReadyToSend ELSE frag
       /\ dropped' = IF sendF /\ ~keyOk THEN dropped \cup {frag.id}
                     ELSE dropped

\* check_tls, then check_tls_errors, whose SIGUSR1 makes pre_select return,
\* then check_fragment.
PreSelectService ==
    \E timer \in IF ctrl_made < MaxCtrl THEN BOOLEAN ELSE {FALSE},
       keyOk \in BOOLEAN :
      LET want   == tls_pending \/ timer
          sendC  == TlsSendsControl(want)
          link1  == IF sendC THEN CtrlPkt ELSE to_link
          tlsErr == Proto # "udp" /\ tls_errors
      IN /\ tls_pending' = (want /\ ~sendC)
         /\ ctrl_made' = ctrl_made + (IF timer THEN 1 ELSE 0)
         /\ sig' = IF tlsErr THEN "SIGUSR1" ELSE "none"
         /\ IF tlsErr THEN to_link' = link1 /\ UNCHANGED <<frag, dropped>>
                     ELSE CheckFragment(link1, keyOk)

PreSelect ==
    /\ phase = "pre_select"
    /\ CoarseTimerSignal \/ PreSelectService
    /\ phase' = After("io_wait")
    /\ UNCHANGED <<wait, status, to_tun, tls_errors, stream, tun_read,
                   link_read, restarts, n_frags, sent_frags>>

\* p2p_iow_flags and the event mask io_wait builds from them.
SocketFlags(delay) ==
    {e \in {"SOCKET_WRITE"} : to_link # NoPkt /\ ~delay}
      \cup {e \in {"SOCKET_READ"} : ~to_tun}
TunFlags ==
    {e \in {"TUN_READ"} : to_link = NoPkt /\ ~TO_LINK_FRAG}
      \cup {e \in {"TUN_WRITE"} : to_tun}

\* socket_set: a requested read first runs stream_buf_read_setup, which
\* turns a complete packet left in the residual into a fully formed one
\* and then withdraws the read.
StreamSetup(flags) ==
    IF "SOCKET_READ" \in flags /\ stream = "residual" THEN "formed" ELSE stream

\* Events the outside world can make ready: the peer and the TUN device
\* have input left within the bounds; writes may always become possible.
Ready == {"SOCKET_WRITE", "TUN_WRITE"}
           \cup {e \in {"SOCKET_READ"} : link_read < MaxLinkPkts}
           \cup {e \in {"TUN_READ"} : tun_read < MaxTunPkts}

\* IOW_CHECK_RESIDUAL: socket_read_residual reports a fully formed packet.
ResidualReady(str) == str = "formed"

IoWait ==
    /\ phase = "io_wait"
    /\ \E delay \in IF Shaping THEN BOOLEAN ELSE {FALSE} :
         LET sock == SocketFlags(delay)
             str  == StreamSetup(sock)
         IN /\ stream' = str
            /\ wait' = IF str = "formed" THEN (sock \ {"SOCKET_READ"}) \cup TunFlags
                       ELSE sock \cup TunFlags
    /\ \/ /\ ResidualReady(stream')     \* socket_read_residual
          /\ status' = {"SOCKET_READ"}
          /\ sig' = sig
       \/ /\ ~ResidualReady(stream')    \* event_wait; {} is ES_TIMEOUT
          /\ \E ev \in SUBSET (wait' \cap Ready) : status' = ev
          /\ sig' = sig
       \/ /\ ~ResidualReady(stream')    \* ES_ERROR: a signal arrived
          /\ status' = {}
          /\ \E s \in Signals \ {"none"} : sig' = s
    /\ phase' = IF sig' # "none" THEN "signal"
                ELSE IF status' = {} THEN "pre_select" ELSE "process_io"
    /\ UNCHANGED <<to_link, to_tun, frag, tls_pending, tls_errors, tun_read,
                   link_read, ctrl_made, restarts, n_frags, sent_frags,
                   dropped>>
-----------------------------------------------------------------------------
\* process_io dispatches on the highest-priority ready event.
Top(e) ==
    LET order == <<"SOCKET_WRITE", "TUN_WRITE", "SOCKET_READ", "TUN_READ">>
        pos(x) == CHOOSE i \in 1..4 : order[i] = x
    IN /\ e \in status
       /\ \A x \in status : pos(e) <= pos(x)

\* A failed ASSERT aborts the process.
Abort ==
    /\ phase' = "aborted"
    /\ UNCHANGED <<wait, status, sig, to_link, to_tun, frag, tls_pending,
                   tls_errors, stream, tun_read, link_read, ctrl_made,
                   restarts, n_frags, sent_frags, dropped>>

\* process_outgoing_link: write to_link (whatever the write returns) and
\* buf_reset (&c->c2.to_link).
ProcessOutgoingLink ==
    /\ phase = "process_io"
    /\ Top("SOCKET_WRITE")
    /\ to_link' = NoPkt
    /\ sent_frags' = IF to_link.kind = "data"
                     THEN [sent_frags EXCEPT ![to_link.id] = @ \cup {to_link.frag}]
                     ELSE sent_frags
    /\ phase' = "pre_select"
    /\ UNCHANGED <<wait, status, sig, to_tun, frag, tls_pending, tls_errors,
                   stream, tun_read, link_read, ctrl_made, restarts, n_frags,
                   dropped>>

\* process_outgoing_tun: ASSERT (c->c2.to_tun.len > 0), write, buf_reset.
ProcessOutgoingTun ==
    /\ phase = "process_io"
    /\ Top("TUN_WRITE")
    /\ IF ~to_tun THEN Abort
       ELSE /\ to_tun' = FALSE
            /\ phase' = "pre_select"
            /\ UNCHANGED <<wait, status, sig, to_link, frag, tls_pending,
                           tls_errors, stream, tun_read, link_read, ctrl_made,
                           restarts, n_frags, sent_frags, dropped>>

\* The outcomes of link_socket_read: UDP returns one datagram; TCP returns
\* a fully formed residual without a recv, or else recv yields a reset, an
\* incomplete packet (len 0) or a complete one, possibly followed by a
\* complete packet left in the residual.
LinkReads ==
    LET pkt(n) == [res : {"packet"}, kind : PeerKinds, more : {FALSE, TRUE},
                   cost : {n}]
        fits(r) == link_read + r.cost + (IF r.more THEN 1 ELSE 0) <= MaxLinkPkts
        udp == {r \in pkt(1) : ~r.more}
        tcp == IF stream = "formed" THEN pkt(0)
               ELSE pkt(1) \cup [res : {"reset", "partial"}, kind : {"none"},
                                 more : {FALSE}, cost : {0}]
    IN {r \in IF Proto = "udp" THEN udp ELSE tcp : fits(r)}

\* process_incoming_link for a packet of kind k: tls_pre_decrypt takes
\* control packets (an erroneous one counts in n_errors), openvpn_decrypt
\* rejects bad data, fatally on TCP; the rest goes to to_tun, emptied when
\* the TUN/TAP device is not defined.
DecryptFatal(k) == k = "bad_data" /\ Proto # "udp"

ProcessIncomingLink(k) ==
    /\ tls_pending' = (tls_pending \/ k = "ctrl")
    /\ tls_errors' = (tls_errors \/ k = "bad_ctrl")
    /\ sig' = IF DecryptFatal(k) THEN "SIGUSR1" ELSE "none"
    /\ to_tun' = IF DecryptFatal(k) THEN to_tun ELSE (k = "data" /\ TuntapOpen)

\* process_io, SOCKET_READ: read_incoming_link, then process_incoming_link
\* unless the read raised a signal.
IncomingLink ==
    /\ phase = "process_io"
    /\ Top("SOCKET_READ")
    /\ IF to_tun THEN Abort     \* ASSERT (!c->c2.to_tun.len)
       ELSE \E r \in LinkReads :
              /\ link_read' = link_read + r.cost + (IF r.more THEN 1 ELSE 0)
              /\ stream' = IF r.res = "packet" /\ ~r.more THEN "empty"
                           ELSE IF r.more THEN "residual" ELSE stream
              /\ CASE r.res = "reset" ->
                        /\ sig' = IF Inetd THEN "SIGTERM" ELSE "SIGUSR1"
                        /\ UNCHANGED <<to_tun, tls_pending, tls_errors>>
                   [] r.res = "partial" ->     \* buf_reset (&c->c2.to_tun)
                        /\ sig' = "none"
                        /\ to_tun' = FALSE
                        /\ UNCHANGED <<tls_pending, tls_errors>>
                   [] r.res = "packet" -> ProcessIncomingLink(r.kind)
              /\ phase' = After("pre_select")
              /\ UNCHANGED <<wait, status, to_link, frag, tun_read, ctrl_made,
                             restarts, n_frags, sent_frags, dropped>>

\* process_io, TUN_READ: read_incoming_tun, then process_incoming_tun,
\* whose encrypt_sign (c, true) runs fragment_outgoing: a packet larger
\* than the fragment size is kept in f->outgoing and its first fragment
\* returned, a smaller one goes whole and leaves f->outgoing alone.
IncomingTun ==
    /\ phase = "process_io"
    /\ Top("TUN_READ")
    /\ IF to_link # NoPkt THEN Abort     \* ASSERT (!c->c2.to_link.len)
       ELSE \/ /\ sig' = "SIGTERM"       \* tuntap_stop: "tun-stop"
               /\ UNCHANGED <<to_link, frag, tun_read, n_frags, dropped>>
            \/ \E total \in IF opt.fragment THEN 1..MaxFrags ELSE {1},
                  keyOk \in BOOLEAN :
                 LET id == tun_read + 1
                 IN /\ sig' = "none"
                    /\ tun_read' = id
                    /\ n_frags' = [n_frags EXCEPT ![id] = total]
                    /\ frag' = IF total > 1
                               THEN [id |-> id, next |-> 2, total |-> total]
                               ELSE frag
                    /\ to_link' = EncryptSign(DataPkt(id, 1), keyOk)
                    /\ dropped' = IF keyOk THEN dropped ELSE dropped \cup {id}
            /\ phase' = After("pre_select")
            /\ UNCHANGED <<wait, status, to_tun, tls_pending, tls_errors,
                           stream, link_read, ctrl_made, restarts, sent_frags>>

ProcessIo == ProcessOutgoingLink \/ ProcessOutgoingTun \/ IncomingLink
               \/ IncomingTun

\* PROCESS_SIGNAL_P2P leaves the loop and close_instance runs; main starts
\* tunnel_point_to_point again on SIGUSR1 (directly, or as SIGHUP when the
\* restart is not stateful), and its context_clear_2 and init_instance
\* discard both slots, the fragment and the stream buffer and begin a new
\* TLS session.  SIGTERM, or a restart past the bound, ends the process.
ProcessSignal ==
    /\ phase = "signal"
    /\ IF sig = "SIGUSR1" /\ restarts < MaxRestarts
       THEN /\ phase' = "pre_select"
            /\ restarts' = restarts + 1
            /\ sig' = "none"
            /\ wait' = {}
            /\ status' = {}
            /\ to_link' = NoPkt
            /\ to_tun' = FALSE
            /\ frag' = NoFrag
            /\ tls_pending' = TRUE
            /\ tls_errors' = FALSE
            /\ stream' = "empty"
            /\ dropped' = dropped \cup InFlight
            /\ UNCHANGED <<tun_read, link_read, ctrl_made, n_frags,
                           sent_frags>>
       ELSE /\ phase' = "exited"
            /\ UNCHANGED <<wait, status, sig, to_link, to_tun, frag,
                           tls_pending, tls_errors, stream, tun_read,
                           link_read, ctrl_made, restarts, n_frags,
                           sent_frags, dropped>>

\* The process has exited or aborted.
Terminated == Stopped /\ UNCHANGED vars

Next == (PreSelect \/ IoWait \/ ProcessIo \/ ProcessSignal \/ Terminated)
        /\ UNCHANGED opt

\* The loop itself never stops while the process runs.  The environment is
\* assumed to let a waiting write through eventually: the socket and the
\* TUN device drain, and the shaper's delay falls under 1000 us.
LinkWritable == IoWait /\ "SOCKET_WRITE" \in status'
TunWritable  == IoWait /\ "TUN_WRITE" \in status'

Fairness ==
    /\ WF_loop_vars(PreSelect) /\ WF_loop_vars(IoWait)
    /\ WF_loop_vars(ProcessIo) /\ WF_loop_vars(ProcessSignal)
    /\ SF_loop_vars(LinkWritable) /\ SF_loop_vars(TunWritable)

Spec == Init /\ [][Next]_vars /\ Fairness

-----------------------------------------------------------------------------
TypeOK ==
    /\ opt \in Options
    /\ phase \in {"pre_select", "io_wait", "process_io", "signal", "exited",
                  "aborted"}
    /\ wait \subseteq Events /\ status \subseteq Events
    /\ sig \in Signals
    /\ to_link \in {NoPkt, CtrlPkt} \cup {DataPkt(i, k) : i \in TunIds,
                                                        k \in 1..MaxFrags}
    /\ to_tun \in BOOLEAN
    /\ frag \in {NoFrag} \cup [id : TunIds, next : 2..MaxFrags,
                               total : 2..MaxFrags]
    /\ {tls_pending, tls_errors} \subseteq BOOLEAN
    /\ stream \in {"empty", "residual", "formed"}
    /\ tun_read \in 0..MaxTunPkts /\ link_read \in 0..MaxLinkPkts
    /\ ctrl_made \in 0..MaxCtrl /\ restarts \in 0..MaxRestarts
    /\ n_frags \in [TunIds -> 0..MaxFrags]
    /\ sent_frags \in [TunIds -> SUBSET (1..MaxFrags)]
    /\ dropped \subseteq TunIds

\* None of the loop's ASSERTs fires: read_incoming_link never finds
\* to_tun occupied (not even when a TCP residual bypasses the wait),
\* read_incoming_tun never finds to_link occupied, and process_outgoing_tun
\* always has a packet.  io_wait's event mask and the stream buffer set-up
\* must agree with process_io's priorities for this to hold.
NoAssertionFailure == phase # "aborted"

\* Every packet read from the TUN device has had every one of its
\* fragments, 1 to n_frags[i], written to the socket, is still in to_link
\* or f->outgoing, or was discarded on purpose (no data key, or a
\* restart).  A tun read while fragments are pending, or a TLS packet or
\* fragment placed over an occupied to_link (losing fragment 1 of 2 while
\* fragment 2 is still written), breaks it.
NoFragmentLoss ==
    \A i \in 1..tun_read :
        \/ sent_frags[i] = 1..n_frags[i]
        \/ i \in dropped
        \/ i \in InFlight

\* A packet in to_link (data, fragment or TLS control) eventually leaves:
\* it is written to the socket, or the tunnel restarts or exits.
LinkDrains == to_link # NoPkt ~> (to_link = NoPkt \/ Stopped)

\* A complete TCP packet left in the stream residual is eventually read,
\* even if the peer sends nothing more (the IOW_CHECK_RESIDUAL path).
ResidualDelivered == stream # "empty" ~> (stream = "empty" \/ Stopped)

\* spec.md 4.H: "If to_link is set: wait for endpoint writable; also wait
\* for tun readable iff not also fragment-pending."  io_wait's mask.
WaitMaskPerSpec ==
    [][IoWait => ((to_link # NoPkt /\ ~TO_LINK_FRAG) => "TUN_READ" \in wait')]_vars
=============================================================================
