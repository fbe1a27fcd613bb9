----------------------------- MODULE TlsSession -----------------------------
(***************************************************************************)
(* The TLS control channel of ssl.c between a client and a server, each    *)
(* with one tls_multi: the sessions TM_ACTIVE, TM_UNTRUSTED, TM_LAME_DUCK,  *)
(* each with a primary and a lame-duck key_state.  tls_multi_process,       *)
(* tls_pre_decrypt (control and data packets) and tls_pre_encrypt are       *)
(* actions of a peer; the datagram network between them loses, duplicates  *)
(* and reorders packets.  Time is abstracted to the timers' outcomes: each *)
(* call of tls_multi_process chooses which of the timers that are armed    *)
(* have expired (renegotiation, lame-duck expiry, handshake window,        *)
(* retransmission).  The TLS library is abstracted to one key message per  *)
(* key state and direction: the client sends its key at S_START, the       *)
(* server answers with its own once it got the client's.                   *)
(***************************************************************************)
EXTENDS Integers, FiniteSets, FiniteSetsExt, TLC

CONSTANTS
    SingleSession,  \* --single-session
    Renegotiates,   \* the peers with a renegotiation limit (--reneg-*)
    MaxKeyId,       \* the largest key_id a local soft reset may start
    TimesOut,       \* the peers whose handshake window may expire
    ExpiringKeyIds, \* the key_ids of the keys whose window may expire
    MaxTimeouts,    \* handshake-window expiries in a behaviour
    MaxNet,         \* control packets the network holds; it loses the rest
    MaxSessions,    \* tls_session_init calls per peer in a behaviour
    Faults,         \* what the network may do: "loss", "duplication"
    Senders         \* the peers that send data packets

ASSUME SingleSession \in BOOLEAN /\ MaxKeyId \in 0..7 /\ MaxTimeouts \in Nat
       /\ MaxNet \in Nat \ {0} /\ MaxSessions \in Nat

Peers == {"client", "server"}
Other(p) == IF p = "client" THEN "server" ELSE "client"
IsServer(p) == p = "server"
ASSUME Renegotiates \subseteq Peers /\ TimesOut \subseteq Peers
       /\ ExpiringKeyIds \subseteq 0..7
       /\ Faults \subseteq {"loss", "duplication"} /\ Senders \subseteq Peers

\* key states, sessions and opcodes of ssl.h
S_ERROR == -1
S_UNDEF == 0
S_INITIAL == 1
S_PRE_START == 2
S_START == 3
S_SENT_KEY == 4
S_GOT_KEY == 5
S_ACTIVE == 6
S_NORMAL == 7
TM_ACTIVE == 0
TM_UNTRUSTED == 1
TM_LAME_DUCK == 2
TM_SIZE == 3
TM == 0..2
KS_PRIMARY == 0
KS_LAME_DUCK == 1
P_KEY_ID_MASK == 7
P_CONTROL_SOFT_RESET_V1 == 3
P_CONTROL_V1 == 4
P_ACK_V1 == 5
P_CONTROL_HARD_RESET_CLIENT_V2 == 7
P_CONTROL_HARD_RESET_SERVER_V2 == 8

\* An undefined session_id; a session_id is <<peer, n>> for the n-th
\* tls_session_init of a peer (a random 64-bit value in the code).
NoSid == <<"none", 0>>

\* DECRYPT_KEY_ENABLED (ssl.h): the server decrypts from S_SENT_KEY on,
\* the client from S_GOT_KEY on.
DECRYPT_KEY_ENABLED(p, ks) ==
    ks.state >= S_GOT_KEY - (IF IsServer(p) THEN 1 ELSE 0)

\* A freed or cleared key_state.  sendq holds the packets of send_reliable
\* ([id, op, fresh]: fresh ones may be sent now), recq the packets of
\* rec_reliable ([id, key]: key is the sender session of a key message),
\* rec_ack the ids still to acknowledge.  ssl, ptr and ptw stand for the
\* TLS object and the plaintext buffers: the sender session of a key
\* message written to, or read from, the TLS object; peer is the session
\* whose key message was accepted; ct is ciphertext waiting in ct_out;
\* tls is the remote session whose ciphertext the TLS object has read,
\* the other end of its TLS connection.
UndefKey ==
    [state |-> S_UNDEF, key_id |-> 0, rsid |-> NoSid, addr |-> FALSE,
     must_die |-> FALSE, mn |-> "unset", iop |-> 0,
     snext |-> 0, sendq |-> {}, rnext |-> 0, recq |-> {}, rec_ack |-> {},
     ssl |-> NoSid, ptr |-> NoSid, ptw |-> FALSE, ct |-> FALSE, peer |-> NoSid,
     tls |-> NoSid]

\* A key_state that tls_process and tls_pre_decrypt no longer run (a
\* lame-duck key, or a primary key in error): only the fields that
\* lame_duck_must_die, key_scan and the session lookup read are kept.
Retired(ks) == [UndefKey EXCEPT !.state = ks.state, !.key_id = ks.key_id,
                  !.rsid = ks.rsid, !.addr = ks.addr, !.must_die = ks.must_die,
                  !.peer = ks.peer]

Cleared == [sid |-> NoSid, key_id |-> 0, iop |-> 0, burst |-> FALSE,
            keys |-> [j \in {KS_PRIMARY, KS_LAME_DUCK} |-> UndefKey]]

-----------------------------------------------------------------------------
(* Sessions and key states.                                                *)

\* key_state_init on the primary key: the initial opcode and key_id of the
\* session pass to the key; later keys open with a soft reset, and key_id
\* counts up to P_KEY_ID_MASK and then recycles to 1.
key_state_init(S) ==
    LET nk == (S.key_id + 1) % (P_KEY_ID_MASK + 1)
    IN [S EXCEPT !.keys[KS_PRIMARY] = [UndefKey EXCEPT !.state = S_INITIAL,
                                                      !.key_id = S.key_id,
                                                      !.iop = S.iop],
                 !.iop = P_CONTROL_SOFT_RESET_V1,
                 !.key_id = IF nk = 0 THEN 1 ELSE nk]

\* tls_session_init: a cleared session with a fresh session_id and the
\* hard-reset opcode of its role, then key_state_init.
tls_session_init(p, sid) ==
    key_state_init([Cleared EXCEPT !.sid = sid,
                      !.iop = IF IsServer(p) THEN P_CONTROL_HARD_RESET_SERVER_V2
                                             ELSE P_CONTROL_HARD_RESET_CLIENT_V2])

\* key_state_soft_reset: the primary key, given its expiry, becomes the
\* lame duck; a new primary keeps the remote session id and address.
key_state_soft_reset(S) ==
    LET lame == Retired([S.keys[KS_PRIMARY] EXCEPT !.must_die = TRUE])
        S1   == key_state_init([S EXCEPT !.keys[KS_LAME_DUCK] = lame])
    IN [S1 EXCEPT !.keys[KS_PRIMARY].rsid = lame.rsid,
                  !.keys[KS_PRIMARY].addr = lame.addr]

\* tls_session_init of session i of a tls_multi M, drawing the next
\* session_id of peer p.
InitSession(M, p, i) ==
    [M EXCEPT !.sess[i] = tls_session_init(p, <<p, M.nsid + 1>>),
              !.nsid = @ + 1]

\* move_session: dest is freed and replaced by src; src is reinitialized
\* or cleared.
move_session(M, p, dest, src, reinit_src) ==
    LET M1 == [M EXCEPT !.sess[dest] = M.sess[src]]
    IN IF reinit_src THEN InitSession(M1, p, src)
       ELSE [M1 EXCEPT !.sess[src] = Cleared]

\* reset_session: tls_session_free, then tls_session_init.
reset_session(M, p, i) == InitSession(M, p, i)

\* lame_duck_must_die: whether the lame-duck key of S is to be freed,
\* given whether its must_die time has passed, and whether its ASSERT
\* (a lame duck key must always have an expiration) holds.
lame_duck_must_die(S, expired) ==
    LET lame == S.keys[KS_LAME_DUCK]
    IN CASE lame.state >= S_INITIAL -> [die |-> expired, ok |-> lame.must_die]
         [] lame.state = S_ERROR    -> [die |-> TRUE, ok |-> TRUE]
         [] OTHER                   -> [die |-> FALSE, ok |-> TRUE]

\* FULL_SYNC: no outgoing packet unacknowledged, no ACK owed.
FULL_SYNC(ks) == ks.sendq = {} /\ ks.rec_ack = {}

-----------------------------------------------------------------------------
(* tls_process (ssl.c:1908-2412) on the primary key ks of a session.       *)
(* Each step of the loop body is an operator applied to the result of the  *)
(* step before it.                                                         *)

\* "Initial handshake": the hard or soft reset is queued, and
\* must_negotiate is armed in this call ("fresh").
HsInitial(ks) ==
    IF ks.state = S_INITIAL
    THEN [ks EXCEPT !.mn = "fresh", !.state = S_PRE_START,
             !.sendq = @ \cup {[id |-> ks.snext, op |-> ks.iop, fresh |-> TRUE]},
             !.snext = @ + 1]
    ELSE ks

\* The handshake window: on its expiry a key below S_ACTIVE is in error,
\* and a later one goes to S_NORMAL.
HsTimeout(k1, expired) ==
    LET tmo == k1.mn = "unset" \/ (k1.mn = "armed" /\ expired)
    IN CASE tmo /\ k1.state < S_ACTIVE -> [k1 EXCEPT !.state = S_ERROR]
         [] tmo -> [k1 EXCEPT !.state = S_NORMAL, !.mn = "unset"]
         [] OTHER -> k1

\* "Wait for Initial Handshake ACK": S_PRE_START to S_START.
HsStart(k2) ==
    IF k2.state = S_PRE_START /\ FULL_SYNC(k2)
    THEN [ks |-> [k2 EXCEPT !.state = S_START], st |-> TRUE]
    ELSE [ks |-> k2, st |-> FALSE]

\* "Wait for ACK" after the key exchange: S_ACTIVE.
HsActive(srv, r, init) ==
    LET act == /\ \/ r.ks.state = S_GOT_KEY /\ ~srv
                  \/ r.ks.state = S_SENT_KEY /\ srv
               /\ FULL_SYNC(r.ks)
    IN [ks  |-> IF act THEN [r.ks EXCEPT !.state = S_ACTIVE] ELSE r.ks,
        chg |-> init \/ r.st \/ act,
        act |-> act]

\* The head of the do-while body, the four steps above in order.
HandshakeStep(srv, ks, expired) ==
    HsActive(srv, HsStart(HsTimeout(HsInitial(ks), expired)), ks.state = S_INITIAL)

\* The tail of the do-while body works on r = [ks, chg], chg recording
\* whether any step changed the state.  Incoming ciphertext goes to the
\* TLS object in packet-id order; a control packet carries the key.  The
\* TLS object belongs to one TLS connection: ciphertext of another remote
\* session fails to decode, key_state_read_plaintext returns -1 and the
\* key goes to S_ERROR (goto error).
IoCiphertextIn(r) ==
    LET nxt == {x \in r.ks.recq : x.id = r.ks.rnext}
        x   == CHOOSE x \in nxt : TRUE
    IN CASE nxt = {} -> r
         [] x.key # NoSid /\ r.ks.tls \notin {NoSid, x.key} ->
              [ks |-> [r.ks EXCEPT !.state = S_ERROR], chg |-> TRUE]
         [] OTHER ->
              [ks |-> [r.ks EXCEPT !.recq = @ \ nxt, !.rnext = @ + 1,
                         !.ssl = IF x.key = NoSid THEN @ ELSE x.key,
                         !.tls = IF x.key = NoSid THEN @ ELSE x.key],
               chg |-> TRUE]

\* Incoming plaintext is read from the TLS object.
IoPlaintextIn(r) ==
    IF r.ks.ptr = NoSid /\ r.ks.ssl # NoSid
    THEN [ks |-> [r.ks EXCEPT !.ptr = r.ks.ssl, !.ssl = NoSid], chg |-> TRUE]
    ELSE r

\* "Send Key": the client at S_START, the server at S_GOT_KEY.
IoSendKey(srv, r) ==
    IF ~r.ks.ptw /\ ((r.ks.state = S_START /\ ~srv) \/ (r.ks.state = S_GOT_KEY /\ srv))
    THEN [ks |-> [r.ks EXCEPT !.ptw = TRUE, !.state = S_SENT_KEY], chg |-> TRUE]
    ELSE r

\* "Receive Key": the client at S_SENT_KEY, the server at S_START; the
\* key comes from the peer whose session id the plaintext carries.
IoReceiveKey(srv, r) ==
    IF r.ks.ptr # NoSid /\ ((r.ks.state = S_SENT_KEY /\ ~srv) \/ (r.ks.state = S_START /\ srv))
    THEN [ks |-> [r.ks EXCEPT !.peer = r.ks.ptr, !.ptr = NoSid, !.state = S_GOT_KEY],
          chg |-> TRUE]
    ELSE r

\* Outgoing plaintext is written into the TLS object.
IoPlaintextOut(r) ==
    IF r.ks.ptw THEN [ks |-> [r.ks EXCEPT !.ptw = FALSE, !.ct = TRUE], chg |-> TRUE]
    ELSE r

\* Outgoing ciphertext goes into send_reliable as a P_CONTROL_V1 packet.
IoCiphertextOut(r) ==
    IF r.ks.state >= S_START /\ r.ks.ct
    THEN [ks |-> [r.ks EXCEPT !.ct = FALSE, !.snext = @ + 1,
                    !.sendq = @ \cup {[id |-> r.ks.snext, op |-> P_CONTROL_V1, fresh |-> TRUE]}],
          chg |-> TRUE]
    ELSE r

\* The tail of the do-while body, the six steps above in order.
IoStep(srv, ks) ==
    IoCiphertextOut(IoPlaintextOut(IoReceiveKey(srv, IoSendKey(srv,
        IoPlaintextIn(IoCiphertextIn([ks |-> ks, chg |-> FALSE]))))))

\* A variant of ControlPacket that writes the remote session id where the
\* local one belongs.
ControlPacketSwapped(p, S, ks, op, id) ==
    [src |-> p, op |-> op, kid |-> ks.key_id, sid |-> ks.rsid, acks |-> ks.rec_ack,
     asid |-> IF ks.rec_ack = {} THEN NoSid ELSE S.sid, id |-> id]

\* write_control_auth: a control packet of session S carrying every owed
\* ACK (CONTROL_SEND_ACK_MAX exceeds the ids of a key) and, with them, the
\* remote session id.
ControlPacket(p, S, ks, op, id) ==
    [src |-> p, op |-> op, kid |-> ks.key_id, sid |-> S.sid, acks |-> ks.rec_ack,
     asid |-> IF ks.rec_ack = {} THEN NoSid ELSE ks.rsid, id |-> id]

\* The packets reliable_send may send now: new ones, and with an expired
\* retransmit timer the others.
Sendable(ks, resend) == {e \in ks.sendq : e.fresh \/ resend}

\* The packet of sn reliable_send takes first: the lowest packet id.
FirstSendable(sn) == CHOOSE e \in sn : \A f \in sn : e.id <= f.id

\* The do-while loop, from iteration to iteration while the state changes:
\* it breaks after placing one packet in to_link (unless an earlier session
\* filled it: busy), and ends at an error.  h is the head of the body on
\* the primary key of S, io its tail.
RECURSIVE TlsLoop(_, _, _, _, _, _, _)
LoopIteration(p, S, h, io, sn, busy, resend, expired, act, fuel) ==
    LET Sk(k) == [S EXCEPT !.keys[KS_PRIMARY] = k]
    IN CASE h.ks.state = S_ERROR ->
              [s |-> Sk(h.ks), out |-> {}, act |-> act]
         [] ~busy /\ sn # {} ->
              LET e == FirstSendable(sn)
              IN [s |-> Sk([h.ks EXCEPT !.sendq = (@ \ {e}) \cup {[e EXCEPT !.fresh = FALSE]},
                                        !.rec_ack = {}]),
                  out |-> {ControlPacket(p, S, h.ks, e.op, e.id)}, act |-> act \/ h.act]
         [] ~busy /\ h.ks.rec_ack # {} ->
              [s |-> Sk([h.ks EXCEPT !.rec_ack = {}]),
               out |-> {ControlPacket(p, S, h.ks, P_ACK_V1, -1)}, act |-> act \/ h.act]
         [] (h.chg \/ io.chg) ->
              IF Assert(fuel > 0, "tls_process loop bound")
              THEN TlsLoop(p, Sk(io.ks), busy, resend, expired, act \/ h.act, fuel - 1)
              ELSE {}
         [] OTHER -> [s |-> Sk(io.ks), out |-> {}, act |-> act \/ h.act]

LoopHead(p, S, h, busy, resend, expired, act, fuel) ==
    LoopIteration(p, S, h, IoStep(IsServer(p), h.ks), Sendable(h.ks, resend),
                  busy, resend, expired, act, fuel)

TlsLoop(p, S, busy, resend, expired, act, fuel) ==
    LoopHead(p, S, HandshakeStep(IsServer(p), S.keys[KS_PRIMARY], expired),
             busy, resend, expired, act, fuel)

\* tls_process on session i: a soft reset when renegotiation is due on an
\* active key, the lame-duck key freed when it must die, then the loop.
\* ch holds the timers that have expired, as <<i, kind>> pairs.
SoftResetDue(S, i, ch) ==
    IF S.keys[KS_PRIMARY].state >= S_ACTIVE /\ <<i, "reneg">> \in ch
    THEN key_state_soft_reset(S) ELSE S

LoopResult(r, ok) ==
    [s   |-> [r.s EXCEPT !.keys[KS_PRIMARY].mn = IF @ = "fresh" THEN "armed" ELSE @],
     out |-> r.out, act |-> r.act, ok |-> ok]

LameDuckThenLoop(p, S1, i, busy, ch, d) ==
    LoopResult(TlsLoop(p, IF d.die THEN [S1 EXCEPT !.keys[KS_LAME_DUCK] = UndefKey] ELSE S1,
                       busy, <<i, "resend">> \in ch, <<i, "expire">> \in ch, FALSE, 12),
               d.ok)

ProcessAfterReset(p, S1, i, busy, ch) ==
    LameDuckThenLoop(p, S1, i, busy, ch, lame_duck_must_die(S1, <<i, "die">> \in ch))

tls_process(p, S, i, busy, ch) == ProcessAfterReset(p, SoftResetDue(S, i, ch), i, busy, ch)

-----------------------------------------------------------------------------
VARIABLES
    m,        \* m[p]: the tls_multi of peer p: [sess, nsid, n_sessions], where
              \* n_sessions, only ever tested for zero, saturates at 1
    lsa,      \* lsa[p]: the link socket's actual remote address is defined
    net,      \* control packets in flight
    dsent,    \* the keys data packets were encrypted with, as seen on the wire
    timeouts, \* handshake-window expiries so far
    abort,    \* "none", or the site of a failed ASSERT
    due       \* due[p]: c2.tmp_int of p is due, so the next pre_select runs
              \* tls_multi_process before another packet is read: set by a
              \* control packet tls_pre_decrypt accepted, or by a call of
              \* tls_multi_process that returned true (interval_action)

vars == <<m, lsa, net, dsent, timeouts, abort, due>>

\* tls_multi_init_finalize: TM_ACTIVE, and TM_UNTRUSTED unless
\* --single-session, are initialized.  The client's remote is configured;
\* the server learns its peer from the first session that gets active.
Init ==
    /\ m = [p \in Peers |->
              LET M0 == [sess |-> [i \in TM |-> Cleared], nsid |-> 0, n_sessions |-> 0]
                  M1 == InitSession(M0, p, TM_ACTIVE)
              IN IF SingleSession THEN M1 ELSE InitSession(M1, p, TM_UNTRUSTED)]
    /\ lsa = [p \in Peers |-> ~IsServer(p)]
    /\ net = {}
    /\ dsent = {}
    /\ timeouts = 0
    /\ abort = "none"
    /\ due = [p \in Peers |-> FALSE]

\* A variant of AfterProcess that keeps a session in error instead of
\* reinitializing it.
AfterProcessKeepError(p, M, i, r) ==
    [m |-> [M EXCEPT !.sess[i] = r.s], out |-> r.out, act |-> r.act, ok |-> r.ok]

\* The session after tls_process, kept when not in error: a session in
\* error is replaced by a new one, and TM_ACTIVE with a lame-duck key at
\* S_ACTIVE or later first moves to TM_LAME_DUCK.
AfterProcess(p, M, i, r) ==
    LET M1 == [M EXCEPT !.sess[i] = IF r.s.keys[KS_PRIMARY].state = S_ERROR
                                    THEN [r.s EXCEPT !.keys[KS_PRIMARY] = Retired(@)]
                                    ELSE r.s]
    IN [m |-> CASE r.s.keys[KS_PRIMARY].state # S_ERROR -> M1
                [] i = TM_ACTIVE /\ r.s.keys[KS_LAME_DUCK].state >= S_ACTIVE
                     /\ ~SingleSession -> move_session(M1, p, TM_LAME_DUCK, TM_ACTIVE, TRUE)
                [] OTHER -> reset_session(M1, p, i),
        out |-> r.out, act |-> r.act, ok |-> r.ok]

\* A session at S_INITIAL or later with an address runs tls_process.
VisitAddressed(p, M, i, busy, ch, S0) ==
    IF S0.keys[KS_PRIMARY].state >= S_INITIAL /\ S0.keys[KS_PRIMARY].addr
    THEN AfterProcess(p, M, i, tls_process(p, S0, i, busy, ch))
    ELSE [m |-> [M EXCEPT !.sess[i] = S0], out |-> {}, act |-> FALSE, ok |-> TRUE]

\* One iteration of the session loop of tls_multi_process (ssl.c:2438-2477):
\* TM_ACTIVE at S_INITIAL first takes the socket's address.
VisitSession(p, M, i, busy, ch) ==
    VisitAddressed(p, M, i, busy, ch,
        IF i = TM_ACTIVE /\ M.sess[i].keys[KS_PRIMARY].state = S_INITIAL /\ lsa[p]
        THEN [M.sess[i] EXCEPT !.keys[KS_PRIMARY].addr = TRUE] ELSE M.sess[i])

\* The timers of peer p that may have expired when tls_multi_process is
\* called: renegotiation of an active key (up to MaxKeyId), expiry of a
\* lame-duck key, the handshake window (up to MaxTimeouts), retransmission.
Timers(p) ==
    LET S(i) == m[p].sess[i]
    IN    {<<i, "reneg">> : i \in {i \in TM : /\ p \in Renegotiates
                                              /\ S(i).keys[KS_PRIMARY].state >= S_ACTIVE
                                              /\ S(i).key_id <= MaxKeyId}}
       \cup {<<i, "die">> : i \in {i \in TM : S(i).keys[KS_LAME_DUCK].state >= S_INITIAL}}
       \cup {<<i, "expire">> : i \in {i \in TM : /\ p \in TimesOut
                                               /\ S(i).keys[KS_PRIMARY].key_id \in ExpiringKeyIds
                                               /\ S(i).keys[KS_PRIMARY].mn = "armed"
                                               /\ timeouts < MaxTimeouts}}
       \cup {<<i, "resend">> : i \in {i \in TM : \E e \in S(i).keys[KS_PRIMARY].sendq :
                                                   ~e.fresh}}

\* check_tls_dowork: tls_multi_process returns true when it placed a
\* packet (out) in to_link, and then interval_action makes the next
\* pre_select call it again, before the loop reads another packet.
IntervalAfterProcess(p, out) == [due EXCEPT ![p] = out # {}]

\* The result of tls_multi_process, M4 the tls_multi it leaves.
MultiProcessStore(p, ch, v0, v1, v2, dok, M4) ==
    /\ M4.nsid <= MaxSessions
    /\ m' = [m EXCEPT ![p] = M4]
    /\ net' = LET sent == net \cup v0.out \cup v1.out \cup v2.out
              IN IF Cardinality(sent) <= MaxNet THEN sent ELSE net
    /\ lsa' = [lsa EXCEPT ![p] = @ \/ v0.act \/ v1.act \/ v2.act]
    /\ timeouts' = timeouts + Cardinality({i \in TM : <<i, "expire">> \in ch})
    /\ due' = IntervalAfterProcess(p, v0.out \cup v1.out \cup v2.out)
    /\ abort' = IF v0.ok /\ v1.ok /\ v2.ok /\ dok THEN abort ELSE "ssl.c:1310"

\* After the loop, the lame-duck session is freed when its lame-duck key
\* must die (d), and an untrusted session whose key decrypts is promoted
\* to TM_ACTIVE.
PromoteUntrusted(p, M3) ==
    IF DECRYPT_KEY_ENABLED(p, M3.sess[TM_UNTRUSTED].keys[KS_PRIMARY])
    THEN move_session(M3, p, TM_ACTIVE, TM_UNTRUSTED, TRUE) ELSE M3

MultiProcessEnd(p, ch, v0, v1, v2, d) ==
    MultiProcessStore(p, ch, v0, v1, v2, d.ok,
        PromoteUntrusted(p, IF d.die THEN [v2.m EXCEPT !.sess[TM_LAME_DUCK] = Cleared]
                            ELSE v2.m))

\* tls_multi_process: the three sessions in order, sharing to_link, then
\* the lame-duck session and the promotion.
MultiProcess2(p, ch, v0, v1, v2) ==
    MultiProcessEnd(p, ch, v0, v1, v2,
        lame_duck_must_die(v2.m.sess[TM_LAME_DUCK], <<TM_LAME_DUCK, "die">> \in ch))

MultiProcess1(p, ch, v0, v1) ==
    MultiProcess2(p, ch, v0, v1, VisitSession(p, v1.m, 2, v0.out \cup v1.out # {}, ch))

MultiProcess0(p, ch, v0) ==
    MultiProcess1(p, ch, v0, VisitSession(p, v0.m, 1, v0.out # {}, ch))

tls_multi_process(p, ch) == MultiProcess0(p, ch, VisitSession(p, m[p], 0, FALSE, ch))

TlsMultiProcess(p) ==
    /\ abort = "none"
    /\ \E ch \in SUBSET Timers(p) : tls_multi_process(p, ch)
    /\ UNCHANGED dsent

-----------------------------------------------------------------------------
(* tls_pre_decrypt on a control packet (ssl.c:2642-2973).                  *)

\* The reliability layer on an accepted packet: ACKed packets leave
\* send_reliable; a packet with an id is acknowledged (even a replay) and,
\* unless it is a replay, stored in rec_reliable.
ReliableReceive(ks, pkt) ==
    LET k1 == [ks EXCEPT !.sendq = {e \in @ : e.id \notin pkt.acks}]
        new == pkt.id >= k1.rnext /\ ~\E r \in k1.recq : r.id = pkt.id
    IN IF pkt.op = P_ACK_V1 THEN k1
       ELSE [k1 EXCEPT !.rec_ack = @ \cup {pkt.id},
                       !.recq = IF new
                                THEN @ \cup {[id |-> pkt.id,
                                              key |-> IF pkt.op = P_CONTROL_V1
                                                      THEN pkt.sid ELSE NoSid]}
                                ELSE @]

\* The packet, routed to session i: the remote session id and address are
\* taken on a new link; a first hard reset or an answer to our soft reset
\* schedules a burst of retransmissions.
LinkAndBurst(M, i, pkt, new_link, do_burst) ==
    LET S  == M.sess[i]
        k1 == IF new_link THEN [S.keys[KS_PRIMARY] EXCEPT !.rsid = pkt.sid, !.addr = TRUE]
              ELSE S.keys[KS_PRIMARY]
        b  == do_burst /\ ~S.burst
    IN [M EXCEPT !.sess[i] = [S EXCEPT !.keys[KS_PRIMARY] =
                                 IF b THEN [k1 EXCEPT !.sendq = {[e EXCEPT !.fresh = TRUE] : e \in @}]
                                 ELSE k1,
                               !.burst = @ \/ b],
                 !.n_sessions = IF new_link THEN 1 ELSE @]

\* Then the key_id check, the ACKs (whose session id must be ours) and the
\* reliability layer on the key k2 of M2.  An error leaves the changes
\* made before it.
CheckAndReceive(S, i, pkt, M2, k2) ==
    [m  |-> IF \/ k2.key_id # pkt.kid
               \/ pkt.acks # {} /\ pkt.asid # S.sid
            THEN M2
            ELSE [M2 EXCEPT !.sess[i].keys[KS_PRIMARY] = ReliableReceive(k2, pkt)],
     ok |-> S.keys[KS_PRIMARY].state \notin {S_UNDEF, S_ERROR} /\ S.sid # NoSid,
     acc |-> TRUE]

DeliverLinked(S, i, pkt, M2) == CheckAndReceive(S, i, pkt, M2, M2.sess[i].keys[KS_PRIMARY])

DeliverToSession(p, M, i, pkt, new_link, do_burst) ==
    DeliverLinked(M.sess[i], i, pkt, LinkAndBurst(M, i, pkt, new_link, do_burst))

\* tls_pre_decrypt on a control packet from the other peer: the session
\* whose remote session id matches (i0, TM_SIZE for none; a match in
\* TM_LAME_DUCK is stale), and the session the packet goes to (i1): a
\* hard reset matching none opens TM_ACTIVE when it has no remote session
\* (toAct), else TM_UNTRUSTED.
RouteControl(M, pkt, hard, i0) ==
    LET toAct == i0 = TM_SIZE /\ hard /\ M.sess[TM_ACTIVE].keys[KS_PRIMARY].rsid = NoSid
    IN [i0 |-> i0, toAct |-> toAct,
        i1 |-> CASE i0 # TM_SIZE -> i0
                 [] toAct         -> TM_ACTIVE
                 [] hard          -> TM_UNTRUSTED
                 [] OTHER         -> TM_SIZE]

\* Then the checks that drop the packet, among them the direction of a
\* hard reset; a soft reset on a key that decrypts starts a new key.  M is
\* unchanged on an error.
ControlRouted(p, M, pkt, hard, rt, soft) ==
    IF \/ hard /\ \/ pkt.op = P_CONTROL_HARD_RESET_CLIENT_V2 /\ ~IsServer(p)
                  \/ pkt.op = P_CONTROL_HARD_RESET_SERVER_V2 /\ IsServer(p)
       \/ rt.i0 = TM_LAME_DUCK
       \/ rt.toAct /\ SingleSession /\ M.n_sessions > 0
       \/ rt.i1 = TM_UNTRUSTED /\ rt.i0 = TM_SIZE /\ SingleSession
       \/ rt.i1 = TM_SIZE
       \/ rt.i0 # TM_SIZE /\ ~M.sess[rt.i1].keys[KS_PRIMARY].addr
    THEN [m |-> M, ok |-> TRUE, acc |-> FALSE]
    ELSE DeliverToSession(p, IF soft THEN [M EXCEPT !.sess[rt.i1] = key_state_soft_reset(@)]
                             ELSE M,
                          rt.i1, pkt, rt.i0 = TM_SIZE,
                          rt.toAct \/ (pkt.op = P_CONTROL_SOFT_RESET_V1 /\ ~soft))

ControlSoft(p, M, pkt, hard, rt) ==
    ControlRouted(p, M, pkt, hard, rt,
        /\ pkt.op = P_CONTROL_SOFT_RESET_V1 /\ ~rt.toAct /\ rt.i0 # TM_SIZE
        /\ DECRYPT_KEY_ENABLED(p, M.sess[rt.i1].keys[KS_PRIMARY]))

ControlIn(p, M, pkt) ==
    LET hard  == pkt.op \in {P_CONTROL_HARD_RESET_CLIENT_V2, P_CONTROL_HARD_RESET_SERVER_V2}
        match == {i \in TM : M.sess[i].keys[KS_PRIMARY].rsid = pkt.sid}
    IN ControlSoft(p, M, pkt, hard,
                   RouteControl(M, pkt, hard, IF match = {} THEN TM_SIZE ELSE Min(match)))

\* A variant of IntervalAfterControl without the interval_action.
IntervalAfterControlNone(p, r) == due

\* process_incoming_link: tls_pre_decrypt returned true (the packet reached
\* a session), so interval_action (&c->c2.tmp_int).
IntervalAfterControl(p, r) == [due EXCEPT ![p] = r.acc]

\* The tls_multi of p after tls_pre_decrypt, r its result; a packet that
\* reached a session (ret = true) makes process_incoming_link call
\* interval_action, so the next check_tls runs tls_multi_process before
\* the loop reads another packet.
StoreControl(p, r) ==
    /\ m' = [m EXCEPT ![p] = r.m]
    /\ abort' = IF r.ok THEN abort ELSE "ssl.c:2914"
    /\ due' = IntervalAfterControl(p, r)

\* A control packet for p arrives; the network may keep a copy.
ControlPacketIn(p) ==
    /\ abort = "none"
    /\ ~due[p]
    /\ \E pkt \in net :
         /\ pkt.src = Other(p)
         /\ StoreControl(p, ControlIn(p, m[p], pkt))
         /\ \/ net' = net \ {pkt}
            \/ "duplication" \in Faults /\ net' = net
    /\ UNCHANGED <<lsa, dsent, timeouts>>

\* The network loses a packet.
Lose ==
    /\ "loss" \in Faults
    /\ \E pkt \in net : net' = net \ {pkt}
    /\ UNCHANGED <<m, lsa, dsent, timeouts, abort, due>>

-----------------------------------------------------------------------------
(* The data channel.                                                       *)

\* key_scan (tls_multi_init): the keys the data channel may use, with the
\* session each belongs to.
KeyScan(M) == <<[s |-> M.sess[TM_ACTIVE], k |-> KS_PRIMARY],
                [s |-> M.sess[TM_ACTIVE], k |-> KS_LAME_DUCK],
                [s |-> M.sess[TM_LAME_DUCK], k |-> KS_LAME_DUCK]>>
ScanKey(M, j) == KeyScan(M)[j].s.keys[KeyScan(M)[j].k]

\* The key a data packet is encrypted with, named by the two session ids
\* and the key_id its key material is derived from.
KeyName(M, j) == [sid |-> KeyScan(M)[j].s.sid, rsid |-> ScanKey(M, j).rsid,
                  kid |-> ScanKey(M, j).key_id]

\* tls_pre_encrypt: the first key of key_scan at S_ACTIVE or later.
EncryptKey(M) == LET js == {j \in 1..3 : ScanKey(M, j).state >= S_ACTIVE}
                 IN IF js = {} THEN 0 ELSE Min(js)

\* A variant of DecryptKey that does not compare the key_id.
DecryptKeyAnyId(p, M, kid) ==
    LET js == {j \in 1..3 : DECRYPT_KEY_ENABLED(p, ScanKey(M, j)) /\ ScanKey(M, j).addr}
    IN IF js = {} THEN 0 ELSE Min(js)

\* tls_pre_decrypt on a data packet with key_id kid: the first key of
\* key_scan that decrypts, has that key_id and the sender's address.
DecryptKey(p, M, kid) ==
    LET js == {j \in 1..3 : /\ DECRYPT_KEY_ENABLED(p, ScanKey(M, j))
                            /\ ScanKey(M, j).key_id = kid
                            /\ ScanKey(M, j).addr}
    IN IF js = {} THEN 0 ELSE Min(js)

\* A data packet is encrypted (tls_pre_encrypt) and sent; the network may
\* deliver it at any later time, so the key it names stays on the wire.
DataSend(p) ==
    /\ abort = "none"
    /\ p \in Senders
    /\ EncryptKey(m[p]) # 0
    /\ dsent' = dsent \cup {KeyName(m[p], EncryptKey(m[p]))}
    /\ UNCHANGED <<m, lsa, net, timeouts, abort, due>>

Next ==
    \/ \E p \in Peers : TlsMultiProcess(p) \/ ControlPacketIn(p) \/ DataSend(p)
    \/ Lose

Spec == Init /\ [][Next]_vars

-----------------------------------------------------------------------------
\* Every session of a peer is cleared or has a session_id of that peer,
\* and every key_state field stays in its range.
TypeOK ==
    /\ abort \in {"none", "ssl.c:1310", "ssl.c:2914"}
    /\ due \in [Peers -> BOOLEAN]
    /\ \A p \in Peers, i \in TM :
         LET S == m[p].sess[i]
         IN /\ S.sid = NoSid \/ S.sid[1] = p
            /\ S.key_id \in 0..P_KEY_ID_MASK
            /\ \A j \in {KS_PRIMARY, KS_LAME_DUCK} :
                 /\ S.keys[j].state \in S_ERROR..S_NORMAL
                 /\ S.keys[j].key_id \in 0..P_KEY_ID_MASK
                 /\ S.keys[j].mn \in {"unset", "armed"}
    /\ \A pkt \in net : pkt.src \in Peers /\ pkt.sid[1] = pkt.src

\* No ASSERT of ssl.c fails: a control packet is only routed to a
\* session that is initialized and not in error (tls_pre_decrypt,
\* ssl.c:2877-2879), even when a handshake window expires with the peer's
\* packets in flight and the session in error is replaced, and a lame-duck
\* key always has an expiration (lame_duck_must_die).
NoAssertionFailure == abort = "none"

\* A key_state at S_ACTIVE or later got its key material from the session
\* it names as remote: the session id taken on the new link (or kept by
\* a soft reset) is the sender of the key message the TLS object read,
\* although an unmatched hard reset overwrites session_id_remote of
\* TM_UNTRUSTED (ssl.c:2889) while its key message may be queued in
\* rec_reliable; the tls_multi_process that process_incoming_link's
\* interval_action forces reads that key before another packet arrives.
ActiveKeyFromItsPeer ==
    \A p \in Peers, i \in TM, j \in {KS_PRIMARY, KS_LAME_DUCK} :
        LET ks == m[p].sess[i].keys[j]
        IN ks.state >= S_ACTIVE => ks.rsid # NoSid /\ ks.peer = ks.rsid

\* A data packet that was encrypted with a key is decrypted with the
\* receiver's half of that key whenever the receiver still holds it: the
\* first key of key_scan that tls_pre_decrypt finds for the packet's
\* key_id is the one negotiated with the sender's key.
DataDecryptsWithItsKey ==
    \A d \in dsent :
        LET q    == IF d.sid[1] = "client" THEN "server" ELSE "client"
            M    == m[q]
            mine == {j \in 1..3 : /\ DECRYPT_KEY_ENABLED(q, ScanKey(M, j))
                                  /\ ScanKey(M, j).addr
                                  /\ KeyName(M, j) = [sid |-> d.rsid, rsid |-> d.sid,
                                                      kid |-> d.kid]}
        IN mine # {} => DecryptKey(q, M, d.kid) \in mine
====
