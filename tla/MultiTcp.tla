------------------------------- MODULE MultiTcp -------------------------------
(***************************************************************************)
(* The TCP server of mtcp.c: one event loop (tunnel_server_tcp) over the  *)
(* listening socket, the TUN device and one TCP socket per client         *)
(* instance.  event_wait returns a batch of ready events (esr) which      *)
(* multi_tcp_process_io handles in order; each starts a multi_tcp_action   *)
(* loop whose iterations (a lite wait, a dispatch on the TA_* action, a   *)
(* close on signal, multi_tcp_post) are the steps of this module.  After  *)
(* the batch the broadcast queue m->mbuf is drained.  Output a socket     *)
(* cannot take is queued on the instance's tcp_link_out_deferred mbuf;   *)
(* both queues are the mbuf_sets of module Mbuf, sharing one refcount    *)
(* per mbuf_buffer.  The clients, their sockets and the TUN device are    *)
(* the environment.                                                       *)
(***************************************************************************)
EXTENDS Naturals, Sequences, FiniteSets, SequencesExt

CONSTANTS
    Conns,       \* the client connections, one instance each
    NoConn,      \* the NULL instance pointer
    RealAddr,    \* RealAddr[c]: the address and port mi->real of c
    Size,        \* options.n_bcast_buf, the size of both kinds of mbuf_set
    QueueLimit,  \* options.tcp_queue_limit
    SockBuf,     \* packets a socket's kernel send buffer holds
    MaxTunPkts,  \* packets the TUN device delivers in a behaviour
    MaxReads,    \* TCP segments the clients send in a behaviour
    MaxGen,      \* packets pre_select generates (TLS, ping) in a behaviour
    PostErrors   \* whether pre_select may raise a signal on an instance

ASSUME /\ NoConn \notin Conns
       /\ {Size, QueueLimit, SockBuf} \subseteq Nat \ {0}
       /\ {MaxTunPkts, MaxReads, MaxGen} \subseteq Nat
       /\ PostErrors \in BOOLEAN

\* A packet in to_link is numbered by its instance's packet_id when it is
\* encrypted.
MaxPkts == MaxTunPkts + MaxGen

\* A client's segment carries one or two packets: two leave a residual
\* packet in the stream buffer after the first is read.
SegPkts == 1..2

\* The actions of mtcp.c (TA_*); "UNDEF" ends multi_tcp_action.
Actions == {"UNDEF", "TUN_READ", "SOCKET_READ", "SOCKET_READ_RESIDUAL",
            "SOCKET_WRITE", "SOCKET_WRITE_READY", "SOCKET_WRITE_DEFERRED",
            "TUN_WRITE", "TIMEOUT", "INITIAL"}

\* An event_set_return: what is ready and for which instance.
Events == {<<"listen", NoConn>>, <<"tun", NoConn>>}
            \cup ({"read", "write"} \X Conns)

VARIABLES
    st,        \* st[c]: "unborn", "live" or "closed" (halted and freed)
    dq,        \* dq[c]: mi->tcp_link_out_deferred
    tl,        \* tl[c]: the packet in c2.to_link, 0 for none
    tt,        \* tt[c]: c2.to_tun holds a packet
    sig,       \* sig[c]: IS_SIG (&mi->context)
    rw,        \* rw[c]: the interest socket_set registered for c's socket
    resid,     \* resid[c]: whole packets left in c's stream buffer
    gm,        \* m->mbuf, the broadcast queue
    rc,        \* rc[b]: the refcount of mbuf_buffer b
    bp,        \* bp[b]: the packet a deferred buffer holds
    npkt,      \* npkt[c]: packets encrypted for c (its packet_id)
    pending,   \* m->pending
    inq,       \* inq[c]: packets c sent that the server has not read
    eof,       \* eof[c]: c has closed its end
    sent,      \* sent[c]: packets in c's kernel send buffer
    lastw,     \* lastw[c]: the last packet written to c's socket
    backlog,   \* connections waiting in the listen queue
    tunq,      \* packets waiting on the TUN device
    nread,     \* segments the clients have sent
    ntun,      \* packets the TUN device has delivered
    ngen,      \* packets pre_select has generated
    lost,      \* packets dropped without being queued or sent
    crash,     \* "none", or where the process failed
    phase,     \* "wait", "io" (the esr batch), "action", "drain"
    esr,       \* the events of the batch not yet handled
    act,       \* the action of the current iteration
    mi,        \* the instance of the current iteration
    poll,      \* multi_tcp_action's poll
    tip,       \* multi_tcp_action's tun_input_pending
    ret        \* the phase multi_tcp_action returns to

\* The mbuf_buffers that can be allocated at once: one per queued item
\* (a capacity below 2 * Size, per set) and the one being filled.
\* mbuf_alloc_buf takes a free one (malloc reuses freed memory); which
\* one is immaterial to the properties.
MaxBufs == 2 * Size * (1 + Cardinality(Conns)) + 1

MB == INSTANCE Mbuf WITH Args <- Conns, NULL <- NoConn,
                         MaxTargets <- Cardinality(Conns),
                         ms <- gm, refcount <- rc, nalloc <- 0,
                         last_out <- 0, phase <- "open"

Bufs    == 1..MaxBufs
NewBuf(S) == Min({b \in Bufs : S.rc[b] = 0})

\* mbuf_init: an empty set of capacity adjust_power_of_2(Size).
EmptyQ == [array |-> [j \in MB!Slots |-> MB!NoItem], head |-> 0, len |-> 0]

srv  == <<st, dq, tl, tt, sig, rw, resid, gm, rc, bp, npkt, pending,
          inq, sent, lastw, backlog, tunq, ngen, lost, crash>>
envv == <<eof, nread, ntun>>
loop == <<phase, esr, act, mi, poll, tip, ret>>
vars == <<srv, envv, loop>>

\* The server state as a record S; touched is multi_tcp_dispatch's local.
Cur == [st |-> st, dq |-> dq, tl |-> tl, tt |-> tt, sig |-> sig, rw |-> rw,
        resid |-> resid, gm |-> gm, rc |-> rc, bp |-> bp,
        npkt |-> npkt, pending |-> pending, inq |-> inq, sent |-> sent,
        lastw |-> lastw, backlog |-> backlog, tunq |-> tunq, ngen |-> ngen,
        lost |-> lost, crash |-> crash, touched |-> NoConn]

Store(S) ==
    /\ st' = S.st /\ dq' = S.dq /\ tl' = S.tl /\ tt' = S.tt /\ sig' = S.sig
    /\ rw' = S.rw /\ resid' = S.resid /\ gm' = S.gm /\ rc' = S.rc
    /\ bp' = [b \in Bufs |-> IF S.rc[b] = 0 THEN 0 ELSE S.bp[b]]
    /\ npkt' = S.npkt
    /\ pending' = S.pending /\ inq' = S.inq /\ sent' = S.sent
    /\ lastw' = S.lastw /\ backlog' = S.backlog /\ tunq' = S.tunq
    /\ ngen' = S.ngen /\ lost' = S.lost /\ crash' = S.crash

Live(S) == {c \in Conns : S.st[c] = "live"}

\* A queue as the [ms, rc, ok] record of Mbuf's functions.
QSt(S, q) == [ms |-> q, rc |-> S.rc, ok |-> TRUE]

\* A packet encrypted into to_link of c; a packet already there is lost.
SetToLink(S, c) ==
    [S EXCEPT !.tl[c] = S.npkt[c] + 1, !.npkt[c] = @ + 1,
              !.lost = @ + (IF S.tl[c] # 0 THEN 1 ELSE 0)]
\* Variants of the definitions below, each a plausible slip in the code
\* it models.
multi_tcp_set_global_rw_flags_read(S, x) ==     \* EVENT_READ always
    IF x = NoConn THEN S ELSE [S EXCEPT !.rw[x] = "read"]
multi_tcp_set_global_rw_flags_two(S, x) ==      \* EVENT_WRITE from 2 items
    IF x = NoConn THEN S
    ELSE [S EXCEPT !.rw[x] = IF S.dq[x].len > 1 THEN "write" ELSE "read"]
MbufFreeKept(S, x) == [S EXCEPT !.dq[x] = EmptyQ]  \* items not released

\* mbuf_free: release the buffer of every item of set q, then the set.
MbufFree(S, x) ==
    [S EXCEPT !.rc = [b \in Bufs |->
                @[b] - Cardinality({i \in 1..S.dq[x].len :
                                      MB!Queued(S.dq[x])[i].buffer = b})],
              !.dq[x] = EmptyQ]

\* multi_tcp_set_global_rw_flags: register c's socket for EVENT_WRITE
\* while its deferred queue is defined (non-empty), else EVENT_READ.
multi_tcp_set_global_rw_flags(S, x) ==
    IF x = NoConn THEN S
    ELSE [S EXCEPT !.rw[x] = IF S.dq[x].len > 0 THEN "write" ELSE "read"]

\* multi_process_post with MPP_PRE_SELECT|MPP_RECORD_TOUCH: pre_select
\* runs unless a signal is set; it may queue a TLS or ping packet into an
\* empty to_link (gen) and may raise a signal (err).  Without a signal
\* m->pending is the instance if it has output, else NULL; the instance
\* is recorded as touched.
PostPreSelect(S, x, ch) ==
    IF S.sig[x] THEN S
    ELSE [IF ch.gen /\ S.tl[x] = 0
          THEN [SetToLink(S, x) EXCEPT !.ngen = @ + 1] ELSE S
            EXCEPT !.sig[x] = ch.err]
PostPendingKept(S, x) ==    \* a variant that never clears m->pending
    [S EXCEPT !.pending = IF S.sig[x] THEN @
                          ELSE IF S.tl[x] # 0 \/ S.tt[x] THEN x ELSE @,
              !.touched = x]
PostPending(S, x) ==
    [S EXCEPT !.pending = IF S.sig[x] THEN @
                          ELSE IF S.tl[x] # 0 \/ S.tt[x] THEN x ELSE NoConn,
              !.touched = x]
multi_process_post(S, x, ch) == PostPending(PostPreSelect(S, x, ch), x)

\* multi_tcp_dereference_instance: event_del of the instance's socket, if
\* socket_set ever registered it.
multi_tcp_dereference_instance(S, x) == [S EXCEPT !.rw[x] = "none"]

\* multi_close_instance (declared at multi.h:149; its body is not in src):
\* dereference the instance's broadcast items,
\* multi_tcp_dereference_instance (event_del), free the deferred set
\* (multi_tcp_instance_specific_free), clear m->pending, halt.
CloseStore(S, x, g) ==
    multi_tcp_dereference_instance(
    [S EXCEPT !.st[x] = "closed", !.gm = g.ms, !.rc = g.rc,
              !.pending = IF @ = x THEN NoConn ELSE @,
              !.tl[x] = 0, !.tt[x] = FALSE, !.resid[x] = 0, !.sig[x] = FALSE,
              !.inq[x] = 0, !.sent[x] = 0, !.lastw[x] = 0], x)
multi_close_instance(S, x) ==
    MbufFree(CloseStore(S, x, MB!mbuf_dereference(QSt(S, S.gm), x)), x)

\* multi_create_instance_tcp: accept the first connection of the listen
\* queue; an instance already hashed under the same real address is
\* closed and the new one takes its place (mtcp.c:115-123).
CreateFor(S, n) ==
    [S EXCEPT !.st[n] = "live", !.dq[n] = EmptyQ, !.backlog = Tail(@)]
multi_create_instance_tcp(S, n) ==
    CreateFor(FoldLeft(LAMBDA T, o : multi_close_instance(T, o), S,
                       SetToSeq({o \in Live(S) : RealAddr[o] = RealAddr[n]})), n)
\* process_outgoing_link for a TCP socket: the write succeeds while the
\* kernel buffer has room; otherwise the packet is dropped.  to_link is
\* reset either way.
process_outgoing_link(S, x) ==
    IF S.sent[x] < SockBuf
    THEN [S EXCEPT !.sent[x] = @ + 1, !.lastw[x] = S.tl[x], !.tl[x] = 0]
    ELSE [S EXCEPT !.lost = @ + 1, !.tl[x] = 0]

\* multi_process_outgoing_link_dowork: write, then post.
multi_process_outgoing_link_dowork(S, x, ch) ==
    multi_process_post(process_outgoing_link(S, x), x, ch)

\* multi_get_queue: extract the first live item of m->mbuf, encrypt it
\* into its instance's to_link and free the item's buffer reference.
GetQueueFound(S, r) ==
    [SetToLink([S EXCEPT !.gm = r.st.ms], r.item.arg)
        EXCEPT !.rc[r.item.buffer] = @ - 1]
GetQueue(S, r) ==
    IF r.found THEN [s |-> GetQueueFound(S, r), x |-> r.item.arg]
    ELSE [s |-> [S EXCEPT !.gm = r.st.ms], x |-> NoConn]
multi_get_queue(S) == GetQueue(S, MB!mbuf_extract_item(QSt(S, S.gm)))

\* multi_process_outgoing_link_pre: m->pending, else the instance of the
\* next broadcast item.
multi_process_outgoing_link_pre(S) ==
    IF S.pending # NoConn THEN [s |-> S, x |-> S.pending]
    ELSE IF S.gm.len > 0 THEN multi_get_queue(S)
    ELSE [s |-> S, x |-> NoConn]

\* mtcp.c:280-289: a new buffer with the to_link packet is added to the
\* deferred queue (the oldest item is dropped when it is full), the
\* producer's reference is freed and to_link is reset.
DeferStore(S, x, b, r) ==
    [S EXCEPT !.dq[x] = r.ms, !.rc = [r.rc EXCEPT ![b] = @ - 1],
              !.bp[b] = S.tl[x], !.tl[x] = 0,
              !.crash = IF r.ok THEN @ ELSE "mbuf.c:112"]
Defer(S, x) ==
    DeferStore(S, x, NewBuf(S),
               MB!mbuf_add_item([QSt(S, S.dq[x]) EXCEPT !.rc[NewBuf(S)] = 1],
                                [buffer |-> NewBuf(S), arg |-> x]))

\* A variant of OutgoingLinkTo without "|| mbuf_defined (...)": a packet
\* overtakes the queue whenever the socket is writable.
OutgoingLinkToNoQueueCheck(S, x, defer, ch) ==
    IF x = NoConn THEN S
    ELSE IF defer
         THEN IF S.tl[x] # 0 THEN multi_process_post(Defer(S, x), x, ch) ELSE S
         ELSE multi_process_outgoing_link_dowork(S, x, ch)

\* multi_tcp_process_outgoing_link: queue the packet behind the deferred
\* ones when asked to or when the queue is defined, else write it.
OutgoingLinkTo(S, x, defer, ch) ==
    IF x = NoConn THEN S
    ELSE IF defer \/ S.dq[x].len > 0
         THEN IF S.tl[x] # 0 THEN multi_process_post(Defer(S, x), x, ch) ELSE S
         ELSE multi_process_outgoing_link_dowork(S, x, ch)
OutgoingLinkFrom(r, defer, ch) == OutgoingLinkTo(r.s, r.x, defer, ch)
multi_tcp_process_outgoing_link(S, defer, ch) ==
    OutgoingLinkFrom(multi_process_outgoing_link_pre(S), defer, ch)

\* multi_tcp_process_outgoing_link_ready: send the head of the deferred
\* queue, then free its buffer reference.
ReadySend(S, x, r, ch) ==
    [multi_process_outgoing_link_dowork(
        [S EXCEPT !.dq[x] = r.st.ms, !.tl[x] = S.bp[r.item.buffer],
                  !.lost = @ + (IF S.tl[x] # 0 THEN 1 ELSE 0)], x, ch)
       EXCEPT !.rc[r.item.buffer] = @ - 1]
ReadyFrom(S, x, r, ch) == IF r.found THEN ReadySend(S, x, r, ch) ELSE S
multi_tcp_process_outgoing_link_ready(S, x, ch) ==
    ReadyFrom(S, x, MB!mbuf_extract_item(QSt(S, S.dq[x])), ch)
\* multi_output_queue_ready: the deferred queue is within tcp_queue_limit.
multi_output_queue_ready(S, x) == S.dq[x].len <= QueueLimit

\* multi_bcast with no instance omitted: one buffer, an item on m->mbuf
\* for every live instance whose queue is ready (multi_add_mbuf), then the
\* producer's reference is freed.
BcastStore(S, b, r) ==
    [S EXCEPT !.gm = r.ms, !.rc = [r.rc EXCEPT ![b] = @ - 1],
              !.crash = IF r.ok THEN @ ELSE "mbuf.c:112"]
multi_bcast(S) ==
    BcastStore(S, NewBuf(S),
      FoldLeft(LAMBDA T, t : IF T.ok THEN MB!mbuf_add_item(T, [buffer |-> NewBuf(S), arg |-> t])
                             ELSE T,
               [QSt(S, S.gm) EXCEPT !.rc[NewBuf(S)] = 1],
               SetToSeq({t \in Live(S) : multi_output_queue_ready(S, t)})))

\* multi_process_incoming_tun: ASSERT (!m->pending); a broadcast goes to
\* multi_bcast, a unicast packet for a live instance whose queue is ready
\* is encrypted into its to_link, made pending and posted; a packet with
\* no route, or for a saturated instance, is dropped.
multi_process_incoming_tun(S, ch) ==
    CASE S.pending # NoConn -> [S EXCEPT !.crash = "multi.c:ASSERT(!m->pending)"]
      [] ch.dest = "bcast"  -> multi_bcast(S)
      [] ch.dest = NoConn   -> S
      [] OTHER ->
           IF multi_output_queue_ready(S, ch.dest)
           THEN multi_process_post([SetToLink(S, ch.dest) EXCEPT !.pending = ch.dest],
                                   ch.dest, ch)
           ELSE S

\* A variant of TunRead that processes a read that found nothing.
TunReadEmpty(S, ch) == multi_process_incoming_tun([S EXCEPT !.tunq = @ - 1], ch)

\* TA_TUN_READ: read_incoming_tun, then multi_process_incoming_tun; the
\* read finds nothing when an earlier action of the batch took the packet.
TunRead(S, ch) ==
    IF S.tunq = 0 THEN S
    ELSE multi_process_incoming_tun([S EXCEPT !.tunq = @ - 1], ch)

\* multi_process_incoming_link: the packet is decrypted; a data packet
\* lands in to_tun, a control packet is consumed by TLS; then post.
multi_process_incoming_link(S, x, ch) ==
    multi_process_post(
        IF ch.pkt = "data"
        THEN [S EXCEPT !.tt[x] = TRUE, !.lost = @ + (IF S.tt[x] THEN 1 ELSE 0)]
        ELSE S, x, ch)

\* TA_SOCKET_READ: read_incoming_link takes what the socket holds into the
\* stream buffer, one packet to process and the rest residual; a read of
\* zero bytes after the client's close is a connection reset (SIGUSR1).
\* TA_SOCKET_READ_RESIDUAL takes the next buffered packet.
SocketRead(S, x, ch) ==
    IF S.inq[x] > 0
    THEN multi_process_incoming_link(
            [S EXCEPT !.resid[x] = S.inq[x] - 1, !.inq[x] = 0], x, ch)
    ELSE [S EXCEPT !.sig[x] = TRUE]
ResidualRead(S, x, ch) ==
    multi_process_incoming_link([S EXCEPT !.resid[x] = @ - 1], x, ch)

\* multi_process_outgoing_tun: ASSERT (m->pending), write its to_tun to
\* the TUN device, post.
multi_process_outgoing_tun(S, ch) ==
    IF S.pending = NoConn THEN [S EXCEPT !.crash = "multi.h:ASSERT(mi)"]
    ELSE multi_process_post([S EXCEPT !.tt[S.pending] = FALSE], S.pending, ch)

\* multi_process_timeout: post the instance the schedule wakes, if any.
multi_process_timeout(S, ch) ==
    IF ch.wake = NoConn THEN S ELSE multi_process_post(S, ch.wake, ch)

\* multi_tcp_dispatch: run the action; touched starts as mi and is
\* updated by every multi_process_post.
multi_tcp_dispatch(S0, x, a, ch) ==
    LET S == [S0 EXCEPT !.touched = x] IN
    CASE a = "TUN_READ"              -> TunRead(S, ch)
      [] a = "SOCKET_READ"           -> SocketRead(S, x, ch)
      [] a = "SOCKET_READ_RESIDUAL"  -> ResidualRead(S, x, ch)
      [] a = "TIMEOUT"               -> multi_process_timeout(S, ch)
      [] a = "TUN_WRITE"             -> multi_process_outgoing_tun(S, ch)
      [] a = "SOCKET_WRITE_READY"    -> multi_tcp_process_outgoing_link_ready(S, x, ch)
      [] a = "SOCKET_WRITE"          -> multi_tcp_process_outgoing_link(S, FALSE, ch)
      [] a = "SOCKET_WRITE_DEFERRED" -> multi_tcp_process_outgoing_link(S, TRUE, ch)
      [] a = "INITIAL"  -> multi_process_post(multi_tcp_set_global_rw_flags(S, x), x, ch)
\* multi_tcp_wait_lite: a zero-timeout wait on the instance's own socket.
\* A socket write finds the socket writable or turns into a deferred
\* write; the TUN device is taken to be writable within
\* MULTI_TCP_TUN_WRITE_TIMEOUT.
multi_tcp_wait_lite_unchecked(S, x, a) == a   \* a variant that never defers
multi_tcp_wait_lite(S, x, a) ==
    IF a = "SOCKET_WRITE" /\ S.sent[x] >= SockBuf THEN "SOCKET_WRITE_DEFERRED"
    ELSE a

\* A variant of multi_tcp_post that ignores the stream buffer's residue.
multi_tcp_post_no_residual(S, x) ==
    CASE x # NoConn /\ S.tt[x]     -> [s |-> S, a |-> "TUN_WRITE"]
      [] x # NoConn /\ S.tl[x] # 0 -> [s |-> S, a |-> "SOCKET_WRITE"]
      [] OTHER -> [s |-> multi_tcp_set_global_rw_flags(S, x), a |-> "UNDEF"]

\* multi_tcp_post: TUN output first, then link output, then the stream
\* buffer's residue; with nothing left, re-register the socket and stop.
multi_tcp_post(S, x) ==
    CASE x # NoConn /\ S.tt[x]      -> [s |-> S, a |-> "TUN_WRITE"]
      [] x # NoConn /\ S.tl[x] # 0  -> [s |-> S, a |-> "SOCKET_WRITE"]
      [] x # NoConn /\ S.resid[x] > 0 -> [s |-> S, a |-> "SOCKET_READ_RESIDUAL"]
      [] OTHER -> [s |-> multi_tcp_set_global_rw_flags(S, x), a |-> "UNDEF"]

-----------------------------------------------------------------------------
(* multi_tcp_action, one iteration of its do-while loop per step.         *)

\* The end of an iteration: pending TUN input becomes the next action once
\* the current one is finished; multi_tcp_action returns on TA_UNDEF.
ActionEnd(r, x, tp) ==
    /\ Store(r.s)
    /\ IF tp /\ r.a = "UNDEF"
       THEN /\ act' = "TUN_READ" /\ mi' = NoConn /\ tip' = FALSE
            /\ poll' = FALSE /\ phase' = "action"
       ELSE IF r.a = "UNDEF"
       THEN /\ act' = "UNDEF" /\ mi' = NoConn /\ tip' = FALSE
            /\ poll' = FALSE /\ phase' = ret
       ELSE /\ act' = r.a /\ mi' = x /\ tip' = tp
            /\ poll' = TRUE /\ phase' = "action"
    /\ UNCHANGED <<esr, ret, envv>>

\* Output pending after the dispatch moves the loop to that instance.
PostStep(S, x, tp) ==
    ActionEnd(multi_tcp_post(S, IF S.pending # NoConn THEN S.pending ELSE x),
              IF S.pending # NoConn THEN S.pending ELSE x, tp)

\* A touched instance with a signal is closed (mtcp.c:505-513).
CloseStep(S, x, tp) ==
    IF S.touched # NoConn /\ S.sig[S.touched]
    THEN PostStep(multi_close_instance(S, S.touched),
                  IF x = S.touched THEN NoConn ELSE x, tp)
    ELSE PostStep(S, x, tp)

\* The lite wait runs when polling, except for a residual read.
Polled == poll /\ act # "SOCKET_READ_RESIDUAL"
LiteAction == IF Polled THEN multi_tcp_wait_lite(Cur, mi, act) ELSE act
LiteTip == tip \/ (Polled /\ act = "SOCKET_WRITE" /\ tunq > 0)

\* The outcomes the dispatch leaves open: whether pre_select generates a
\* packet or raises a signal, what a packet read from a client is, where
\* a TUN packet is routed, which instance the schedule wakes.
Outcomes(a) ==
    [gen  : IF ngen < MaxGen THEN BOOLEAN ELSE {FALSE},
     err  : IF PostErrors THEN BOOLEAN ELSE {FALSE},
     pkt  : IF a \in {"SOCKET_READ", "SOCKET_READ_RESIDUAL"}
            THEN {"data", "control"} ELSE {"control"},
     dest : IF a = "TUN_READ" THEN {"bcast", NoConn} \cup Live(Cur) ELSE {NoConn},
     wake : IF a = "TIMEOUT" THEN Live(Cur) \cup {NoConn} ELSE {NoConn}]

Iterate ==
    /\ phase = "action" /\ crash = "none"
    /\ \E ch \in Outcomes(LiteAction) :
          CloseStep(multi_tcp_dispatch(Cur, mi, LiteAction, ch), mi, LiteTip)
-----------------------------------------------------------------------------
(* tunnel_server_tcp and multi_tcp_process_io.                            *)

\* The events event_wait can return: the listen socket and the TUN device
\* are registered for reading, each instance's socket for rw[c].
Ready ==
    {e \in Events :
       \/ e = <<"listen", NoConn>> /\ backlog # <<>>
       \/ e = <<"tun", NoConn>> /\ tunq > 0
       \/ \E c \in Live(Cur) :
             \/ e = <<"read", c>> /\ rw[c] = "read" /\ (inq[c] > 0 \/ eof[c])
             \/ e = <<"write", c>> /\ rw[c] = "write" /\ sent[c] < SockBuf}

\* Start multi_tcp_action with poll FALSE.
StartAction(a, x, from) ==
    /\ act' = a /\ mi' = x /\ poll' = FALSE /\ tip' = FALSE
    /\ phase' = "action" /\ ret' = from

\* multi_tcp_wait: event_wait returns the ready events in some order.
Wait ==
    /\ phase = "wait" /\ crash = "none"
    /\ Ready # {}
    /\ \E e \in SetToSeqs(Ready) : esr' = e
    /\ phase' = "io"
    /\ UNCHANGED <<srv, envv, act, mi, poll, tip, ret>>

\* event_wait returns 0: multi_tcp_action (TA_TIMEOUT).
Timeout ==
    /\ phase = "wait" /\ crash = "none"
    /\ Ready = {}
    /\ StartAction("TIMEOUT", NoConn, "wait")
    /\ UNCHANGED <<srv, envv, esr>>

\* One event of the batch (mtcp.c:555-600).  An instance event carries the
\* instance pointer it was registered with, whatever happened to the
\* instance since event_wait returned.
ProcessEvent ==
    /\ phase = "io" /\ crash = "none"
    /\ esr # <<>>
    /\ esr' = Tail(esr)
    /\ LET e == Head(esr) IN
       CASE e[1] = "listen" ->
              /\ Store(multi_create_instance_tcp(Cur, Head(backlog)))
              /\ StartAction("INITIAL", Head(backlog), "io")
         [] e[1] = "tun" ->
              /\ StartAction("TUN_READ", NoConn, "io")
              /\ UNCHANGED srv
         [] st[e[2]] # "live" ->
              /\ crash' = "mtcp.c:562"
              /\ UNCHANGED <<st, dq, tl, tt, sig, rw, resid, gm, rc, bp,
                             npkt, pending, inq, sent, lastw, backlog, tunq,
                             ngen, lost, phase, act, mi, poll, tip, ret>>
         [] OTHER ->
              /\ StartAction(IF e[1] = "write" THEN "SOCKET_WRITE_READY"
                             ELSE "SOCKET_READ", e[2], "io")
              /\ UNCHANGED srv
    /\ UNCHANGED envv

\* The batch is done.
EndBatch ==
    /\ phase = "io" /\ crash = "none"
    /\ esr = <<>>
    /\ phase' = "drain"
    /\ UNCHANGED <<srv, envv, esr, act, mi, poll, tip, ret>>

\* mtcp.c:605-611: while m->mbuf has an item for a live instance,
\* multi_tcp_action (mi, TA_SOCKET_WRITE) with poll TRUE.
DrainNext ==
    /\ phase = "drain" /\ crash = "none"
    /\ MB!mbuf_peek(gm) # NoConn
    /\ act' = "SOCKET_WRITE" /\ mi' = MB!mbuf_peek(gm) /\ poll' = TRUE
    /\ tip' = FALSE /\ phase' = "action" /\ ret' = "drain"
    /\ UNCHANGED <<srv, envv, esr>>
DrainDone ==
    /\ phase = "drain" /\ crash = "none"
    /\ MB!mbuf_peek(gm) = NoConn
    /\ phase' = "wait"
    /\ UNCHANGED <<srv, envv, esr, act, mi, poll, tip, ret>>

-----------------------------------------------------------------------------
(* The environment: clients connecting, sending, closing and reading,     *)
(* packets arriving on the TUN device.                                    *)

Connect(n) ==
    /\ crash = "none"
    /\ st[n] = "unborn" /\ \A i \in 1..Len(backlog) : backlog[i] # n
    /\ backlog' = Append(backlog, n)
    /\ UNCHANGED <<st, dq, tl, tt, sig, rw, resid, gm, rc, bp, npkt,
                   pending, inq, sent, lastw, tunq, ngen, lost, crash,
                   envv, loop>>

ClientSend(c) ==
    /\ crash = "none"
    /\ st[c] = "live" /\ ~eof[c] /\ nread < MaxReads
    /\ \E k \in SegPkts : inq' = [inq EXCEPT ![c] = @ + k]
    /\ nread' = nread + 1
    /\ UNCHANGED <<st, dq, tl, tt, sig, rw, resid, gm, rc, bp, npkt,
                   pending, sent, lastw, backlog, tunq, ngen, lost, crash,
                   eof, ntun, loop>>

ClientClose(c) ==
    /\ crash = "none"
    /\ st[c] = "live" /\ ~eof[c]
    /\ eof' = [eof EXCEPT ![c] = TRUE]
    /\ UNCHANGED <<srv, nread, ntun, loop>>

ClientRecv(c) ==
    /\ crash = "none"
    /\ sent[c] > 0
    /\ sent' = [sent EXCEPT ![c] = @ - 1]
    /\ UNCHANGED <<st, dq, tl, tt, sig, rw, resid, gm, rc, bp, npkt,
                   pending, inq, lastw, backlog, tunq, ngen, lost, crash,
                   envv, loop>>

TunInput ==
    /\ crash = "none"
    /\ ntun < MaxTunPkts
    /\ tunq' = tunq + 1 /\ ntun' = ntun + 1
    /\ UNCHANGED <<st, dq, tl, tt, sig, rw, resid, gm, rc, bp, npkt,
                   pending, inq, sent, lastw, backlog, ngen, lost, crash,
                   eof, nread, loop>>

-----------------------------------------------------------------------------
Init ==
    /\ st = [c \in Conns |-> "unborn"] /\ dq = [c \in Conns |-> EmptyQ]
    /\ tl = [c \in Conns |-> 0] /\ tt = [c \in Conns |-> FALSE]
    /\ sig = [c \in Conns |-> FALSE] /\ rw = [c \in Conns |-> "none"]
    /\ resid = [c \in Conns |-> 0]
    /\ gm = EmptyQ /\ rc = [b \in Bufs |-> 0]
    /\ bp = [b \in Bufs |-> 0] /\ npkt = [c \in Conns |-> 0] /\ pending = NoConn
    /\ inq = [c \in Conns |-> 0] /\ eof = [c \in Conns |-> FALSE]
    /\ sent = [c \in Conns |-> 0] /\ lastw = [c \in Conns |-> 0]
    /\ backlog = <<>> /\ tunq = 0 /\ nread = 0 /\ ntun = 0 /\ ngen = 0
    /\ lost = 0 /\ crash = "none"
    /\ phase = "wait" /\ esr = <<>> /\ act = "UNDEF" /\ mi = NoConn
    /\ poll = FALSE /\ tip = FALSE /\ ret = "wait"

Server == Wait \/ Timeout \/ ProcessEvent \/ EndBatch \/ DrainNext
            \/ DrainDone \/ Iterate

Next ==
    \/ Server
    \/ \E n \in Conns : Connect(n)
    \/ \E c \in Conns : ClientSend(c) \/ ClientClose(c) \/ ClientRecv(c)
    \/ TunInput

\* The server loop runs whenever it can; a client reads what it is sent.
\* WF_vars(Server), with ENABLED <<Server>>_vars written out: until the
\* process fails some step of the loop is always possible (Iterate in
\* "action", Wait or Timeout in "wait", ProcessEvent or EndBatch in "io",
\* DrainNext or DrainDone in "drain") and every one changes the state.
ServerFair == <>[](crash = "none") => []<><<Server>>_vars
Spec == Init /\ [][Next]_vars /\ ServerFair
            /\ \A c \in Conns : WF_vars(ClientRecv(c))
-----------------------------------------------------------------------------
Queue == [array : [MB!Slots -> [buffer : 0..MaxBufs, arg : Conns \cup {NoConn}]],
          head : MB!Slots, len : 0..MB!Capacity]

TypeOK ==
    /\ st \in [Conns -> {"unborn", "live", "closed"}]
    /\ dq \in [Conns -> Queue] /\ gm \in Queue
    /\ tl \in [Conns -> 0..MaxPkts] /\ tt \in [Conns -> BOOLEAN]
    /\ sig \in [Conns -> BOOLEAN] /\ rw \in [Conns -> {"none", "read", "write"}]
    /\ resid \in [Conns -> 0..2 * MaxReads] /\ inq \in [Conns -> 0..2 * MaxReads]
    /\ rc \in [Bufs -> Nat] /\ bp \in [Bufs -> 0..MaxPkts]
    /\ tunq \in 0..MaxTunPkts /\ npkt \in [Conns -> 0..MaxPkts] /\ pending \in Conns \cup {NoConn}
    /\ sent \in [Conns -> 0..SockBuf] /\ lastw \in [Conns -> 0..MaxPkts]
    /\ phase \in {"wait", "io", "action", "drain"} /\ act \in Actions
    /\ mi \in Conns \cup {NoConn} /\ esr \in Seq(Events)

\* Items of buffer b queued on a set.
Holding(q, b) == Cardinality({i \in 1..q.len : MB!Queued(q)[i].buffer = b})

\* Every mbuf_buffer's refcount equals the number of items that hold it
\* on m->mbuf and on all deferred queues: multi_bcast, multi_get_queue,
\* the deferral of mtcp.c:280-289, the send of mtcp.c:252-261 and
\* multi_close_instance's mbuf_dereference and mbuf_free each keep the
\* count, so a buffer is freed exactly when its last item goes.
RefcountExact ==
    crash = "none" =>
      \A b \in Bufs :
        rc[b] = Holding(gm, b) + FoldFunction(LAMBDA c, n : Holding(dq[c], b) + n, 0,
                                              [c \in Conns |-> c])

\* When the loop blocks in event_wait, every live instance's socket is
\* registered for writing exactly when its deferred queue is non-empty:
\* each path that changes the queue ends in multi_tcp_set_global_rw_flags
\* for that instance, through multi_tcp_post's TA_UNDEF case.
RwFlagsInSync ==
    phase = "wait" =>
      \A c \in Live(Cur) : rw[c] = IF dq[c].len > 0 THEN "write" ELSE "read"

\* When the loop blocks in event_wait, no output is stranded: m->pending is
\* NULL and no live instance holds a packet in to_link or to_tun or a
\* packet in its stream buffer, since nothing but a later event would
\* handle it.  multi_tcp_post's chain of actions must run out every time.
NoStrandedOutput ==
    phase = "wait" =>
      /\ pending = NoConn
      /\ \A c \in Live(Cur) : tl[c] = 0 /\ ~tt[c] /\ resid[c] = 0

\* No packet is dropped unqueued: nothing writes into a full socket, and
\* nothing overwrites a packet in to_link or to_tun (multi_get_queue,
\* process_incoming_tun and the deferred send all store into to_link).
NoPacketLost == lost = 0

\* Packets reach each client's socket in the order they were encrypted:
\* a packet never overtakes one queued earlier for the same instance (the
\* "|| mbuf_defined" test of mtcp.c:274).
WritesInOrder ==
    [][\A c \in Conns :
         st'[c] = "live" /\ lastw'[c] # lastw[c] => lastw'[c] > lastw[c]]_vars

\* The ASSERTs of the TCP loop's handlers hold: no instance is pending
\* when a TUN packet is routed (multi_process_incoming_tun), and one is
\* pending whenever to_tun is written (multi_process_outgoing_tun).
HandlerAssertsHold ==
    crash \notin {"multi.c:ASSERT(!m->pending)", "multi.h:ASSERT(mi)"}

\* Adding to a full m->mbuf drops its oldest packet, as the code intends
\* ("MBUF: mbuf packet dropped", mbuf.c:113-116), and never aborts the
\* server in the ASSERT of mbuf.c:112.
NoMbufAbort == crash # "mbuf.c:112"

\* An event of the batch never names an instance closed earlier in the
\* same batch (mtcp.c:562 dispatches e->arg as it was registered).
NoStaleEvent == crash # "mtcp.c:562"

\* A deferred queue is eventually emptied, or its instance closed: the
\* socket is registered for EVENT_WRITE while the queue is non-empty, and
\* each write-ready event sends its head.
DeferredDrains ==
    \A c \in Conns : dq[c].len > 0 ~> (dq[c].len = 0 \/ st[c] # "live")
==============================================================================
