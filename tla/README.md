# TLA+ models of the OpenVPN 2.0 daemon

This directory holds TLA+ models of the C sources under `src/`, with the TLC
configurations that check them. `PROJECT.json` is the machine-readable index.
It lists every component, every run, the mutants that show each property can
fail, the map from each definition to the source lines it translates, the
findings and the hazards.

## 1. The system: components, state and interactions

OpenVPN is a single-threaded process built around an event loop. There is no
multithreading in the daemon, so its concurrency comes from three places:

- the order in which the loop serves ready I/O events;
- the peer and the network, which lose, duplicate and reorder datagrams;
- signals and timers.

The TAP-Win32 driver is the exception. It is truly concurrent: NDIS miniport
callbacks, IRP dispatch and cancel routines run on several processors.

| Component | Sources | State it keeps | Operations that change state |
|---|---|---|---|
| Point-to-point event loop | `forward.c`, `openvpn.c`, `io.h`, `sig.h`, `shaper.h` | `c2.to_link` and `c2.to_tun` (one packet each), `c2.fragment->outgoing`, event mask and status, `signal_received`, the TCP stream buffer, the shaper | `pre_select` (coarse timers, `check_tls`, `check_tls_errors`, `check_fragment`), `io_wait`, `process_io` (`process_outgoing_link`, `process_outgoing_tun`, `read_incoming_link` + `process_incoming_link`, `read_incoming_tun` + `process_incoming_tun`), and the restart loop in `main` |
| TLS key-state machine | `ssl.c` | per `tls_multi`: three sessions (`TM_ACTIVE`, `TM_UNTRUSTED`, `TM_LAME_DUCK`); per session, two key states (`KS_PRIMARY`, `KS_LAME_DUCK`) with `state` S_ERROR..S_NORMAL, `key_id`, `must_negotiate`, `must_die`, reliable send/receive rings and ACK lists | `key_state_init`/`free`, `tls_session_init`, `move_session`, `reset_session`, `key_state_soft_reset`, `tls_process`, `tls_multi_process`, `tls_pre_decrypt`, `tls_pre_encrypt`, `tls_post_encrypt` |
| Deferred output queue | `mbuf.c` | ring of `mbuf_item {buffer, arg}` with `head`, `len`, `capacity` (power of two) and refcounted buffers | `mbuf_alloc_buf`, `mbuf_free_buf`, `mbuf_add_item` (drops the oldest when full), `mbuf_extract_item`, `mbuf_peek_dowork`, `mbuf_dereference` |
| Server multiplexer, prototype | `multi.c` (an early version that disagrees with `multi.h`), `multi.h` | fixed instance array with `defined` flags, `link_out`/`tun_out` pending pointers, `earliest_wakeup` | `multi_open_instance`, `multi_close_instance`, `multi_select`, `multi_process_incoming_link`/`_tun`, `multi_process_outgoing_link`/`_tun`, `multi_process_timeout` |
| Server TCP action machine | `mtcp.c` | per instance: `tcp_link_out_deferred` queue, `socket_set_called`; global action loop | `multi_create_instance_tcp`, `multi_tcp_action` over `TA_*`, `multi_tcp_post`, `multi_tcp_dispatch`, `multi_tcp_process_outgoing_link`, `multi_tcp_wait_lite` |
| Route address extraction | `mroute.c`, `mroute.h` | none (pure) | `mroute_extract_addr_from_packet`, `mroute_extract_sockaddr_in` |
| TAP-Win32 driver | `tap-win32/tapdrvr.c` | packet queue and IRP queue per adapter, `m_TapOpens`, `m_InterfaceIsRunning`, the cancel routine of each IRP | `AdapterTransmit`, `TapDeviceHook` (create, read, close), `CompleteIRP`, `CancelIRP`, `AdapterModify` (power) |
| Option processing | `options.c` | `struct options`, fixed once a tunnel starts | `init_options`, `add_option`, `options_postprocess` (checks that exit with `M_USAGE`), `options_string` and `options_cmp_equal` (the options consistency check, OCC, called from `tls_process`) |
| Win32 layer, headers | `win32.c`, `win32.h`, `misc.h`, `tun.h`, `openvpn-plugin.h` | OS handles | OS wrappers (not modelled, see section 6) |

How they interact. In peer mode, `tunnel_point_to_point` (`openvpn.c`) runs the
loop of `forward.c`. The TLS machine (`ssl.c`) is called from the loop in two
ways:

- `check_tls` calls `tls_multi_process`, which puts control packets into the
  same `to_link` slot that data and fragments use;
- `tls_pre_decrypt` and `tls_pre_encrypt` choose the data key.

In server mode the same per-client `context` is embedded in a multi instance.
Output that cannot be written at once goes to an `mbuf` queue, and in TCP mode
to the per-instance deferred queue driven by the action machine of `mtcp.c`.
`mroute.c` extracts the addresses that route packets between instances.

Hard behaviours in this code:

- one shared slot per direction, filled by several producers (TLS, fragmenter,
  tun reader, link reader);
- ASSERTs that rely on the wait mask and on `process_io`'s priority order;
- the TCP stream residual, which bypasses select;
- restarts that discard in-flight state;
- the shaper delaying writes;
- key renegotiation with a lame-duck key and key_ids that wrap 1..7;
- an unreliable control channel;
- a bounded deferred queue that drops the oldest item and is dereferenced by
  instance;
- lock-free driver queues touched from several processors.

## 2. Plan

Most important behaviour first:

1. **`ForwardP2P`** (done): the peer-mode event loop. It checks the loop's
   ASSERTs, that fragments are not lost in the shared `to_link` slot, and two
   liveness properties (the link slot drains; a TCP residual is read).
2. **`Mbuf`** (done): the `mbuf.c` ring as a component. Properties: refcount
   balance (no buffer freed while queued, none leaked), FIFO order of the
   surviving items, and the `ASSERT` in `mbuf_add_item` (a full queue whose
   items were all dereferenced).
3. **`TlsSession`** (done, safety): key states of `ssl.c` for a client and a
   server over a channel that loses, duplicates and reorders. It checks the
   ASSERTs of `ssl.c`, that a data packet gets its own key, and that an
   active key was expanded with its TLS peer's session id. It found that
   key_id 0 is reused. Left for later: liveness to ACTIVE under fair delivery,
   and an abstract key-lifecycle spec refined through `INSTANCE ... WITH`.
4. **`MultiProto`** (modelled, not run): the `multi.c` prototype. No file
   of this tree calls its loop, so the run budget goes to `mtcp.c`.
5. **`MultiTcp`** (done): the `mtcp.c` action machine of the TCP server. It
   composes `Mbuf` (the per-instance deferred queues and the broadcast set
   `m->mbuf`) with instance creation, preemption and close. It found a
   use-after-close through the event batch, and it reaches the `mbuf.c:112`
   abort from real server traffic.
6. **`TapQueue`** (done, partly): `tapdrvr.c` transmit, read, completion,
   cancel, close and power changes as concurrent handlers, on one processor
   and on several. On several processors it found that `CancelIRP` can keep
   the cancel spin lock. It is also shown to implement the abstract frame
   channel `TapChannel` through `INSTANCE ... WITH`.
7. **`Mroute`** (done): the address extraction as operators, checked against a
   reference definition over bounded packets.
8. **`Options`** (done, partly): the `options_postprocess` checks that
   decide which option sets reach a tunnel, and the OCC string comparison,
   checked against the matching rules over bounded option sets.
   `ForwardP2P` takes its option sets through it.

## 3. Modules

### ForwardP2P (`forward.c`, `openvpn.c`)

State, one variable per field of `struct context` the loop uses:

- `to_link`: a record with a kind (none, ctrl, data), the number of the TUN
  packet and the fragment number.
- `to_tun`: whether `to_tun.len > 0`.
- `frag`: `c2.fragment->outgoing`, the packet being cut into fragments.
- `wait`, `status`: the event mask and `event_set_status`.
- `sig`: `signal_received`.
- `stream`: the TCP `stream_buf`. "residual" means a complete next packet is
  buffered; "formed" means `stream_buf_read_setup` has made it the current
  packet.
- `tls_pending`, `tls_errors`: whether TLS has a control packet ready, and
  `n_errors`.
- `phase`: the position in `tunnel_point_to_point`.
- History variables, used only by the properties:
  - `n_frags[i]`, `sent_frags[i]`: fragments made of TUN packet i, and the
    set of its fragments written so far (every write is recorded, so a
    lost first fragment is told apart from a complete packet);
  - `dropped`: packets discarded on purpose (no key, or a restart).

Actions:

- `PreSelect` is `pre_select`. It has two disjuncts:
  - `CoarseTimerSignal`: `--inactive` raises SIGTERM, `--ping-restart`
    raises SIGUSR1;
  - `PreSelectService`: `check_tls`, then `check_tls_errors` (whose
    SIGUSR1 ends `pre_select`), then `CheckFragment`
    (`check_fragment_dowork`), in the code's order.
- `IoWait` is `io_wait` with `p2p_iow_flags`. It builds the mask from
  `to_link`, `to_tun`, the fragment state and the shaper delay. A requested
  read calls `StreamSetup` (`socket_set` → `stream_buf_read_setup`). It takes
  the residual shortcut, or else waits: any subset of the ready events, the
  empty set (timeout), or a signal (ES_ERROR).
- `process_io` picks the highest-priority event (`Top`) and dispatches to one
  of four actions:
  - `ProcessOutgoingLink`;
  - `ProcessOutgoingTun`;
  - `IncomingLink`: `read_incoming_link` and `process_incoming_link`;
  - `IncomingTun`: `read_incoming_tun` and `process_incoming_tun` with
    `encrypt_sign`.
- An ASSERT that fails moves to `phase = "aborted"`.
- `ProcessSignal` is `PROCESS_SIGNAL_P2P` followed by `main`'s restart loop.
  SIGUSR1 restarts with cleared slots and a new TLS session. SIGTERM exits.

Abstractions:

- The data key is a nondeterministic `keyOk` at each `tls_pre_encrypt`.
- The peer sends packets of four kinds: good data, good control, data failing
  authentication, control failing authentication.
- `fragment.c`, `socket.c` and `forward-inline.h` are not in `src/`.
  `FragmentReadyToSend`, `StreamSetup`, `LinkReads` and `TO_LINK_FRAG` are
  therefore modelled from spec.md and the calls in `forward.c`, and are marked
  spec-modelled in the map.

Runs:

The transport is a per-behaviour choice: the variable `opt` is picked in
`Init` from the constant `Options` and never changes. `Init` takes only the
option sets that `options_postprocess` accepts (the operator of the `Options`
module, applied to `init_options` with the set's fields), since `main` exits
on any other. `MC_ForwardP2P` sets `Options` to UDP with shaping,
`--fragment` and 2 peer packets, and to a TCP client without shaping and
with 3 peer packets. It also lists the TCP client with `--fragment`, which
`options_postprocess` rejects (`options.c:1188`). One run therefore covers
both transports. Earlier versions of this model let TCP behaviours fragment,
a configuration the program refuses to start with.

- `p2p` (`ForwardP2P.cfg`, pass; about 198k states, about 60 s). It also
  evaluates the `ASSUME`s of `Options`, which `ForwardP2P` extends. It checks
  these over UDP behaviours:
  - `NoAssertionFailure`: none of the loop's three ASSERTs can fire;
  - `NoFragmentLoss`: every TUN packet had all its fragments written, is
    still in flight, or was dropped on purpose;
  - `LinkDrains`: a packet in `to_link` eventually leaves.
- and these over TCP behaviours:
  - `NoAssertionFailure`: the residual shortcut never reads while `to_tun` is
    occupied, because `socket_set` promotes the residual only when a read is
    requested, that is, when `to_tun` is empty;
  - `ResidualDelivered`: a buffered residual packet is always read, even when
    the peer sends nothing more.
- `WaitMaskPerSpec` states the mask spec.md §4.H describes: tun readable
  while `to_link` is set. `io_wait` does not build that mask
  (`forward.c:1105`), and it must not: the mutant `TunFlagsLikeSpec` builds
  the spec's mask, and it breaks `NoAssertionFailure` in `p2p`, because
  `read_incoming_tun` asserts an empty `to_link`. The property is kept as a
  record of the difference from the spec, but no run checks it.

Bounds:

- 2 TUN packets of up to 2 fragments each. That is enough for a fragment to
  be pending while TLS, the link reader and the next TUN read compete for
  `to_link`.
- 2 peer packets (UDP) or 3 (TCP). Three lets one read leave a second
  complete packet in the residual while a third is still to come.
- 1 TLS retransmission on top of the initial hard reset.
- 1 restart (SIGUSR1). A SIGUSR1 past that bound ends the behaviour, like
  SIGTERM.

Fairness:

- Weak fairness on each loop step. The loop never blocks forever: `io_wait`
  always has a timeout, since `BIG_TIMEOUT` or a timer bounds it.
- Strong fairness on the environment making a requested socket or TUN write
  possible. This is an assumption about the outside world: the kernel drains
  its socket and device buffers, and time passes until the shaper delay
  falls under 1000 µs. It is not something the code guarantees.

Observation from the model: `check_fragment` refills `to_link` from the
pending fragment in every `pre_select`. The `IOW_FRAG` guard in `io_wait`
therefore only matters after `tls_pre_encrypt` has dropped a fragment for
lack of a key.

### Mbuf (`mbuf.c`, callers in `mtcp.c`)

State: `ms` is the `mbuf_set` record `[array, head, len]` over `Capacity ==
adjust_power_of_2(Size)` slots, `refcount[b]` counts references to buffer
`b`, `nalloc` counts allocations (buffers are named by allocation order),
`last_out` is the buffer of the last item sent, and `phase` is `open`,
`freed` (after `mbuf_free`) or `aborted` (a failed ASSERT).

The functions of `mbuf.c` are operators over a state record `[ms, rc, ok]`:
`mbuf_free_buf`, `mbuf_extract_item` (RECURSIVE, it skips dereferenced
items), `mbuf_add_item` (on a full set it ASSERTs that an item can be
extracted, frees it and stores at the tail), `mbuf_dereference` and
`mbuf_peek`. `AdjustPowerOf2` is RECURSIVE and is checked by an ASSUME
against a reference definition over 1..64. `MBUF_INDEX` uses Bitwise `&`.

The actions are the callers' patterns:
- `Enqueue(targets)`: `mbuf_alloc_buf`, one `mbuf_add_item` per target, then
  the producer's `mbuf_free_buf` (`mtcp.c:280-288`);
- `Send`: `mbuf_extract_item`, send, `mbuf_free_buf` (`mtcp.c:252-261`);
- `Close(a)`: `mbuf_dereference(ms, a)` when an instance closes;
- `MbufFree`: `mbuf_free`.

Runs (constants `Args = {i1, i2}`, `Size = 3`, so capacity 4, 5 buffers,
up to 2 targets per buffer; 26k states):
- `mbuf` (pass):
  - `RefcountExact`: each buffer's refcount equals the number of queued items
    holding it, across drops on overflow, dereference and both frees;
  - `QueueOrdered`: live items are in allocation order and none is older
    than the last one sent;
- `NoAssertionFailure` does not hold here. Four single-target enqueues for
  `i1` fill the ring, `Close(i1)` dereferences all four items, and the next
  `Enqueue` meets a full set with nothing to extract: the `ASSERT` at
  `mbuf.c:112` aborts. The code means to drop the oldest packet there (lines
  113-116). The run that shows this is `multi_tcp_mbuf`, in the server whose
  callers really produce the sequence (see MultiTcp).

Five buffers is one more than the capacity, enough for an overflow after a
dereference. `mbuf_dereference` has no caller in `src/`, and `mtcp.c` uses a
newer three-argument `mbuf_extract_item`. The model follows `mbuf.c` and
treats `Close` as a legal call of its API.

### MultiProto (`multi.c`)

`multi.c` is an older prototype of the server than `multi.h` and `mtcp.c` in
this tree. Its `struct multi_context` has `array`, `link_out` and `tun_out`,
which `multi.h` does not declare, and it calls the forward.c handlers with
their older signatures. It pairs with `mroute.c`. The model follows
`multi.c`. For the `forward.c` handlers it calls, it takes the
preconditions of the versions in this tree.

State:
- `inst[s]` is slot `s` of `m->array`, as `[defined, real, to_link, to_tun]`;
- `link_out`, `tun_out` and `earliest` are the three instance pointers, with
  0 for NULL;
- `ready` is what select reported;
- `crash` names the site where the process aborted.

A context's own processing (`process_incoming_link`, TLS, `pre_select`)
is reduced to its outcome: whether it leaves a packet in `to_tun` or
`to_link`, and whether it raises a signal, which makes `multi_process_post`
close the instance.

Actions:
- `MultiSelect`: the mask of `multi_select`, `multi_get_timeout`'s choice of
  `earliest_wakeup`, then ready events, a timeout or a signal;
- `ProcessIo`: the else-if chain of `multi_process_io` over
  `multi_process_incoming_link`, `multi_process_incoming_tun`,
  `multi_process_outgoing_link` and `multi_process_outgoing_tun`;
- `multi_process_timeout`.

The driver loop (`tunnel_server`) is not in `src/`. `Next` assumes it calls
`multi_process_io` when select reports events, `multi_process_timeout` when
it times out, and exits on a signal.

The mask takes SOCKET_READ away while `tun_out` is set. `tun_out` is set
after every accepted client packet and is cleared only by a TUN write.
`link_out` is never set, because `mi->virtual` is never learned. So after
the first client packet, the only ways forward are a TUN write or a
timeout, and both crash:
- `NoNullDereference` states that no NULL instance pointer is
  dereferenced. It fails on the first timeout, which reads
  `m->earliest_wakeup` after `multi.c:425` has set it to NULL. It is kept
  in the module, but no run checks it: the prototype is superseded by
  `mtcp.c`, and the run budget goes there.
  - The same property also covers the second site: `multi_process_outgoing_tun`
    uses `m->link_out`, which is NULL, where `tun_out` is meant
    (`multi.c:382`).
  - That site is listed as a hazard, and TLC reaches it as soon as the
    timeout path is corrected.
- A control packet also makes the instance `tun_out` with nothing in
  `to_tun` (`multi.c:314`). Even with line 382 corrected,
  `process_outgoing_tun` would then fail its ASSERT (`forward.c:919`). This
  is listed as a hazard; the NULL dereference comes first on the same write.

No run checks `MultiProto`. Nothing in this tree calls its
`multi_process_io` loop: the server of this tree is `mtcp.c`, with the
`multi.h` interface, and `MultiTcp` models it. The module and its map are
kept as the record of the prototype's control flow and of the two NULL
dereferences above. Its earlier run checked only ASSERTs that the select
mask makes hold by construction, so it was retired.

### TlsSession (`ssl.c`)

Two peers, `"client"` and `"server"`, each with one `tls_multi`. `m[p]` holds
its three sessions (`TM_ACTIVE`, `TM_UNTRUSTED`, `TM_LAME_DUCK`) and, per
session, the two key states `KS_PRIMARY` and `KS_LAME_DUCK`.

A session_id is `<<peer, n>>`: the n-th `tls_session_init` of that peer. This
stands for the code's random 64-bit value, so two ids never collide.

A key state keeps:
- `state`, `key_id`, `session_id_remote` (`rsid`) and whether `remote_addr`
  is set (`addr`);
- `must_die`;
- `must_negotiate` as `mn`: unset or armed;
- `send_reliable` and `rec_reliable` as sets of packet ids;
- the owed ACKs;
- the TLS object as one key message per direction: the client sends its key
  at `S_START`, and the server answers once it has the client's.

`peer` is the session whose key message the TLS object accepted. It is what
the key material was actually negotiated with. `tls` is the remote session
whose ciphertext the TLS object has read: a TLS object is one connection,
so ciphertext of another remote session makes the TLS library fail, and
`IoCiphertextIn` takes the `goto error` path (`S_ERROR`).

`due[p]` models the `tmp_int` interval of `forward.c`. `process_incoming_link`
calls `interval_action` when `tls_pre_decrypt` returns true, that is, when
the control packet reached a session (`forward.c:606`). `check_tls_dowork`
calls it again when `tls_multi_process` placed a packet in `to_link`
(`forward.c:93`). `interval_action` makes the next `pre_select`, which comes
before the next read, call `tls_multi_process`. So `ControlPacketIn(p)` is
disabled while `due[p]` holds, and `TlsMultiProcess(p)` sets `due[p]` to
whether it sent something.

Actions:
- `TlsMultiProcess(p)` is `tls_multi_process` as a whole:
  - the three sessions in order, sharing one `to_link`;
  - each runs `tls_process`: the soft-reset trigger, the lame-duck kill, and
    the do-while loop as the recursive `TlsLoop`, which breaks after one
    packet;
  - `S_ERROR` handling by `move_session` or `reset_session`;
  - the lame-duck session kill;
  - promotion of `TM_UNTRUSTED`.
- `ControlPacketIn(p)` is the control path of `tls_pre_decrypt`:
  - the hard-reset direction check, session matching, and routing to
    `TM_ACTIVE` or `TM_UNTRUSTED`;
  - soft reset, `new_link` and burst;
  - the key_id and ACK checks, then the reliable layer.
- `DataSend(p)` is `tls_pre_encrypt`. The key a data packet is encrypted with
  is recorded by name: the two session ids and the key_id. `DecryptKey` is the
  data path of `tls_pre_decrypt`.
- `Lose` drops a control packet. A delivered packet may stay in `net`
  (duplication). `net` holds at most `MaxNet` packets, and a send that would
  exceed it is lost.
- A failed ASSERT sets `abort`, and every action is then disabled: the
  process has exited.

Each step of a handler is its own operator, applied to the result of the
step before. For example, `HandshakeStep` is `HsInitial`, then
`HsTimeout`, then `HsStart`, then `HsActive`, the four blocks at the head of
the loop body of `tls_process`. `IoStep` is the six I/O blocks in code order.
`VisitSession` and `tls_multi_process` are split the same way. The map of
`PROJECT.json` gives each operator its block of `ssl.c`.

Time is abstracted to the timers that have expired at each
`tls_multi_process`. The call picks any subset of the armed ones:
- renegotiation of an active key;
- `must_die` of a lame-duck key;
- `must_negotiate` (the handshake window);
- retransmission of the sent packets.

This over-approximates every timing, because the code fires a timer only
once it is armed.

Bounds:
- `MaxKeyId`: the last key_id a local soft reset may start;
- `TimesOut`, `ExpiringKeyIds`, `MaxTimeouts`: the peers and key_ids whose
  handshake window may expire, and how many expiries a behaviour has;
- `MaxSessions`: `tls_session_init` calls per peer per behaviour, which also
  bounds promotions and resets;
- `Faults`: which of loss and duplication the network does;
- `Senders`: the peers that send data.

Runs:
- `tls_rekey` (pass, about 32k states): both peers may renegotiate once.
  It checks:
  - `TypeOK`;
  - `DataDecryptsWithItsKey`: a data packet whose key the receiver still
    holds is decrypted with that key.
- `tls_peer` (pass, about 48k states). The server restarts once, and the
  client's key_id 0 handshake window may expire once. It checks:
  - `ActiveKeyFromItsPeer`: an active key was expanded with the session id
    of the remote session its TLS exchange was with. An unmatched hard
    reset does overwrite `session_id_remote` of `TM_UNTRUSTED`
    (`ssl.c:2889`). But the forced `tls_multi_process` reads the queued key
    message first, and ciphertext of another connection fails the handshake.
    The mutant without the `interval_action` breaks it.
  - `NoAssertionFailure`: the ASSERT of `lame_duck_must_die` and the three
    ASSERTs of `tls_pre_decrypt` hold. The latter three matter when the
    window expires with the peer's answer in flight (`ssl.c:1990`). The
    mutant that keeps the session in `S_ERROR` breaks it.
- `tls_keyid` (violation, `DataDecryptsWithItsKey`), found in 33 steps,
  without loss or duplication, with only the client's key_id 1 able to
  expire:
  1. the client's renegotiation to key_id 1 times out;
  2. `tls_multi_process` moves `TM_ACTIVE`, with its lame-duck key_id 0, to
     `TM_LAME_DUCK`;
  3. it reinitializes `TM_ACTIVE`, whose first key is again key_id 0;
  4. once that key is active, the server's in-flight key_id 0 data is matched
     to it first in `key_scan`, not to the lame-duck key it was encrypted
     with.

An earlier version of this model reported `ActiveKeyFromItsPeer` violated.
That version let two control packets in without a `tls_multi_process`
between them, and let the TLS object accept a second connection's key. The
code allows neither, so that trace was an artefact of the model.

Why the bounds are enough:
- One renegotiation per peer exercises soft reset, the lame duck and its
  death, and key_id 1.
- One expiry exercises the error path, `reset_session`, and `move_session`
  to `TM_LAME_DUCK`.
- Four sessions cover a restart followed by a promotion on both sides.
- `MaxNet` = 1 keeps the search small. Loss by overflow is then frequent,
  which the retransmission timer repairs.

Not modelled in `ssl.c`:
- key_method 1;
- `--tls-auth` HMACs and packet-id replay windows;
- `tls_send_payload` and `tls_rec_payload`;
- `tls_pre_decrypt_dynamic`;
- certificate verification;
- the key material itself.

No fairness is assumed, because no liveness property is checked. One was
tried: under weak fairness of `tls_multi_process` and strong fairness of a
retransmission and of delivery, both peers are active infinitely often.
TLC then evaluates `ENABLED` over the recursive `tls_process` at every
state, and it stalled after a handful of states. The question stays open.

The handshake-window expiry (`ssl.c:1990`) is reached in the `tls_peer`
configuration. Adding it to `tls_rekey` takes about 13 minutes, over the
5-minute limit.

### Mroute (`mroute.c`, `mroute.h`)

The helpers are operators over bounded inputs.
- A buffer is a function from offsets to bytes. Each byte after the first
  carries its offset, so an extracted address shows which bytes were copied.
- A sockaddr's address and port are numbers, turned into bytes in network
  order, as `memcpy` of `sin_addr` and `sin_port` copies them.

The single variable `in` ranges over every input:
- every buffer length up to 36;
- first bytes 0x45 (IPv4), 0x60 (IPv6) and 0;
- TUN and TAP;
- source and destination;
- pairs of sockaddrs.

Reference definitions give the header layouts: the IPv4 header at offset
0 of a TUN packet, and the Ethernet header at offset 0 of a TAP frame.

The module also states these properties. They held in an earlier run
(1092 states), but no run in the current set checks them, because the
project keeps its run count to the questions that matter most:
  - `TypeOK`: every `mroute_addr` fits its `len` and `MR_MAX_ADDR_LEN`;
  - `TapExtractsEthernet`: TAP extraction matches the Ethernet layout;
  - `RealAddrEqualIffSameEndpoint`: `mroute_addr_equal` on extracted
    sockaddrs holds exactly for the same address and, with `use_port`, the
    same port.
- `mroute_tun` (violation, `TunExtractsIPv4`): for a TUN packet the code
  reads the version at byte 0 but the IPv4 header at offset 14, and wants
  34 bytes. A 20-byte IPv4 packet is not extracted, and a longer one yields
  bytes 30..33.

Lengths up to 36 cover every threshold involved (14, 15, 20 and 34) and
the byte positions past them.

### Options (`options.c`)

`struct options` is abstracted to a record of the fields that the models
and the options consistency check tell apart: mode, device type, protocol,
`--remote`, `--pull`, `--inetd`, the crypto mode (`--secret`,
`--tls-client` or `--tls-server`, of which the code allows one),
`--tls-auth`, `--key-method`, the key direction, `--no-replay`, `--no-iv`,
`--ifconfig`, `--fragment`, `--shaper`, `--comp-lzo`, `--tun-ipv6` and the
MTU. `init_options` gives the defaults. Every other field keeps its default,
so the checks on it pass.

- `options_postprocess` is the conjunction of its `M_USAGE` checks on these
  fields, in the code's groups: `InetdOk`, `ProtoOk`, `ServerModeOk` and
  `TlsModeOk`. `KeyDirectionParsed` says what `add_option` allows: only
  `--secret` and `--tls-auth` set a key direction.
- `options_string` is modelled by what it does. It builds the sequence of
  its comma-separated items, each a tuple `<<name, value>>`, in the code's
  order and under the code's conditions. The first item stands for the
  version prefix `V4`.
- `options_cmp_equal` treats strings with different first items (versions)
  as equal, and otherwise compares them.
- `proto_remote`, `keydirection2ascii`, `ifconfig_options_string` and
  `PULL_DEFINED` are not in `src/`. They are modelled from the comments and
  the calls in `options.c`, and are marked spec-modelled.

The module has no variables. Its check is the `ASSUME`
`OccAgreesWithRules`. `ssl.c` compares the options string the peer sends
(`options_string(b, FALSE)`) with the one the receiver expects of its
peer (`options_string(a, TRUE)`). The check requires them to agree exactly
when the two option sets match by the rules in the comment above
`options_string`:
- `--proto tcp-client` is matched with `tcp-server`;
- `--tls-client` is matched with `--tls-server`;
- `--ifconfig x y` is matched with `--ifconfig y x` on a TUN device;
- key directions 0 and 1 are matched with each other;
- everything else must be equal.

The check runs over every pair of option sets that `options_postprocess`
accepts, in three groups varied from `init_options`:
- tunnel options (132 sets, 720 compatible pairs);
- protocol features (32 sets);
- crypto options (80 sets, 92 compatible pairs).

`ForwardP2P` extends `Options`, so the `p2p` run evaluates these
`ASSUME`s. They hold. Swapping `tcp-client` for `tcp-server` in
`proto_remote`'s answer makes the `ASSUME` false. The module has no variables
and no run of its own, so the `ASSUME`s have no mutant entries.

### MultiTcp (`mtcp.c`, `multi.h`, composing `Mbuf`)

`MultiTcp` models the single-threaded TCP server, `tunnel_server_tcp`, and
`MC_MultiTcp` instantiates it with two clients. The loop has four phases
(`phase`):
- `wait`: `multi_tcp_wait`; `Wait` returns the ready events in any order,
  and `Timeout` fires when nothing is ready;
- `io`: `multi_tcp_process_io`, one entry of `esr` per `ProcessEvent`;
- `action`: one iteration of `multi_tcp_action`'s do-while loop per
  `Iterate`, which runs the whole iteration:
  - the lite wait when polling;
  - `multi_tcp_dispatch`, with every `multi_process_post` it makes;
  - the close of a touched instance that has a signal;
  - the switch to `m->pending`;
  - `multi_tcp_post`;
  - the switch to a TUN read that the lite wait noticed;
- `drain`: the `m->mbuf` loop at `mtcp.c:605-611` (`DrainNext`,
  `DrainDone`).

The server state:

| Variable | Code |
|---|---|
| `st`, `rw` | an instance's life, its registered `tcp_rwflags` |
| `dq`, `gm` | `tcp_link_out_deferred` and `m->mbuf`, as `Mbuf` sets |
| `rc`, `bp` | `mbuf_buffer` refcounts and the packet each holds |
| `tl`, `tt` | `to_link` (a packet number, 0 if empty) and `to_tun` |
| `resid`, `inq` | packets in the stream buffer and in the kernel socket |
| `sent` | bytes in the kernel send buffer, bounded by `SockBuf` |
| `sig`, `pending` | the instance's signal, and `m->pending` |
| `act`, `mi`, `poll`, `tip` | `multi_tcp_action`'s locals |

The environment moves clients and packets:
- clients connect (`Connect`, queued on `backlog`), send segments of one or
  two packets, close, and read from their socket;
- packets arrive on the TUN device (`TunInput`).

The functions `mtcp.c` calls in the server's `multi.c` are not in `src/`
(the `multi.c` there is the older prototype), so they are modelled from
spec.md §4.J and marked spec-modelled: `multi_process_post`,
`multi_close_instance`, `multi_bcast`, `multi_get_queue` and
`multi_process_incoming_tun/link/timeout`. The `multi.h` inlines they use
are translated from the code. What the spec leaves open (whether
pre_select generates a TLS or ping packet, a post error, a packet's
destination, the instance the timer wakes) is chosen in `Outcomes`.

Runs. The constants are 2 clients, `Size = 1` (capacity 1),
`QueueLimit = 1`, `SockBuf = 1`, 1 TUN packet, 1 client segment and 2
generated packets per behaviour.
- `multi_tcp` (pass; 218k states, about 100 s with coverage) checks:
  - `RefcountExact`: every buffer's refcount equals the number of items of
    the deferred queues and of `m->mbuf` holding it. This holds across
    broadcasts, drops, dereference on close and `mbuf_free`;
  - `RwFlagsInSync`: when the loop blocks, each socket is registered for
    `EVENT_WRITE` exactly while its deferred queue is non-empty;
  - `NoStrandedOutput`: when the loop blocks, `m->pending` is NULL and no
    instance holds `to_link`, `to_tun` or a residual packet;
  - `NoPacketLost`: nothing writes into a full socket or overwrites
    `to_link` or `to_tun`;
  - `HandlerAssertsHold`: the `ASSERT (!m->pending)` of the TUN path and
    the `ASSERT (mi)` of the TUN write hold;
  - `WritesInOrder`: each client receives its packets in encryption order;
  - `DeferredDrains`: every deferred queue empties, or its instance
    closes.
- `multi_tcp_mbuf` (violation, `NoMbufAbort`, with 2 TUN packets). A
  broadcast is queued on `m->mbuf` for `c1`. Then `c1`'s close
  dereferences the item before the drain, and `mbuf_peek` skips the
  dereferenced item, so it stays queued. The second broadcast meets the
  full set and aborts in `mbuf_add_item`.
- `multi_tcp_stale` (violation, `NoStaleEvent`, both clients share a real
  address). `c2`'s connection preempts `c1` in the same batch that holds a
  read event for `c1`, and that event is dispatched on the closed
  instance.

Why the bounds are enough:
- The socket buffer of one packet and a queue capacity of one make every
  deferred write, overflow and drop happen within two or three packets
  per client.
- A segment of two packets is what makes a residual.
- Two generated packets, with the TUN packet, give three packets for one
  client. That is the least for a packet to overtake a deferred one, which
  `WritesInOrder` must be able to see.
- `MaxBufs` covers every buffer alive at once. `mbuf_alloc_buf` reuses the
  lowest free one, as malloc reuses memory.

Fairness. `ServerFair` asks the server to keep taking steps while nothing
has crashed. The loop is a single thread that only blocks in `event_wait`,
and `Wait` or `Timeout` is always enabled there. `WF(ClientRecv(c))` says
clients keep reading their sockets. Nothing forces clients to send or
close.

Not modelled here:
- the TUN write timeout (`M_FATAL`);
- client-to-client routing;
- top-level signals and `MTCP_SIG`;
- `multi_process_per_second_timers`.

The broadcast stall after a `TA_TIMEOUT` (hazard at `mtcp.c:659`) is
reachable, but it ends at the next I/O event.

### TapQueue (`tap-win32/tapdrvr.c`)

The TAP-Win32 driver passes Ethernet frames between NDIS and the user-mode
process. NDIS calls `AdapterTransmit`, which queues a frame on
`m_PacketQueue`. The process reads with `IRP_MJ_READ`. An IRP that finds no
frame waits on `m_IrpQueue`. `CompleteIRP` copies the head frame into an IRP.
A waiting IRP can be cancelled, and then `CancelIRP` runs under the system
cancel spin lock. No lock protects the two queues. The handlers raise the
IRQL to DISPATCH_LEVEL around their queue work, and that excludes the other
handlers only on one processor.

`MC_TapQueue` instantiates the module with three frames and two read IRPs
as model values. The driver tells frames apart only by their queue
positions, and IRPs likewise, so the `tap` run declares both sets
symmetric.

| Variable | Code |
|---|---|
| `pktq`, `irpq` | `m_PacketQueue`, `m_IrpQueue` (`Queue` lists with `m_Limit`) |
| `ctx[x]` | the program counter of the handler working on frame or IRP `x`, the IRP `CompleteIRP` was given, the frame its `QueuePeek` returned, and where it returns |
| `cx[r]` | whether `CancelIRP` for `r` is running |
| `size`, `len` | the frame's `p_PacketSize`, the IRP's read length |
| `cancel_rtn`, `cancel_lock` | the IRP's cancel routine, and the owner of the cancel spin lock |
| `opens`, `sessions`, `running`, `power` | `m_TapOpens`, the handles opened so far, `m_InterfaceIsRunning`, the power changes so far |
| `completed`, `freed`, `pushed`, `delivered`, `leaked`, `spoiled` | history: completions per IRP, frees per frame, the frames queued and delivered in order, the frames `CLOSE` pops without freeing, and the frames `CompleteIRP` popped and freed after `NdisMoveMemory` raised |

Each handler is a sequence of steps, one per call of a `Queue*` routine or of
an I/O manager routine on the IRP. The `Queue*` routines are taken as atomic.
The steps are:

- `TransmitStart`, `TransmitPush`, `TransmitLoop`, `TransmitPop`:
  `AdapterTransmit`;
- `Read`, `ReadCheck`, `ReadPush`, `ReadPend`: `IRP_MJ_READ`;
- `CompletePeek`, `CompleteCheck`, `CompletePop`, `CompleteDeliver`:
  `CompleteIRP`, called from either handler. `CompleteDeliver` has two
  outcomes. The copy succeeds and the frame is delivered, or
  `NdisMoveMemory` raises and the `__except` sets `STATUS_UNSUCCESSFUL`
  (`tapdrvr.c:1422-1426`). The frame is freed and the IRP completed on
  both;
- `Cancel`: the I/O manager's `IoCancelIrp`;
- `CancelIRP`: the driver's cancel routine;
- `Write`, `DeviceControl`: `IRP_MJ_WRITE` and `IRP_MJ_DEVICE_CONTROL`.
  Each is a single step that completes its IRP in the dispatch. What the
  write sends up the stack and what the ioctl copies are left out, because
  neither touches a queue;
- `Create`, `Close` and `SetPower`: `IRP_MJ_CREATE`, `IRP_MJ_CLOSE` and
  `OID_PNP_SET_POWER`;
- `Shutdown`: `AdapterStop`, the shutdown handler, which clears
  `m_InterfaceIsRunning` between any two steps of the other handlers.

`MemAlloc` is the set of outcomes of the driver's allocator: it succeeds,
or it fails, including by a caught exception. `ListAdd` uses it for the
node of each queued frame or IRP.

`Quiescent` is the stop state, in which everything has been sent and read.

Scheduling is set by the constant `SMP`:

- `SMP = FALSE` (one processor): a handler at DISPATCH_LEVEL, or a
  `CancelIRP` holding the cancel spin lock, runs until it lowers the IRQL.
  No other handler takes a step meanwhile (`Alone`, `CancelAlone`,
  `Passive`).
- `SMP = TRUE`: the adapter is deserialized (`NDIS_ATTRIBUTE_DESERIALIZE`),
  so every step interleaves with every other.

Runs:

- `tap` (`TapQueue.cfg`, pass, one processor, about 442k distinct states
  under symmetry, 20 s). It checks:
  - `IrpCompletedOnce`: an IRP is completed at most once, never while it is
    queued and never before its dispatch has pended it;
  - `IrpAccountedFor`: a pended IRP is queued, being completed, or
    completed;
  - `CancelSpinLockReleased`: the cancel spin lock is held only while a
    `CancelIRP` runs.

  On one processor each handler's queue work is atomic, so the frame
  order and the refinement hold there by the shape of the schedule. They
  are checked where they can fail, on several processors (`tap_smp_channel`).
- `tap_smp` (`TapQueue_smp.cfg`, violation of `CancelSpinLockReleased`).
  The read dispatch pushes the IRP on `m_IrpQueue` before
  `IoSetCancelRoutine`. On another processor `AdapterTransmit` then pops and
  completes the IRP. The process cancels it, and `CancelIRP` does not find
  it on the queue. It returns without `IoReleaseCancelSpinLock`
  (`tapdrvr.c:1462`), and the system's cancel spin lock stays held.
- `tap_smp_channel` (`TapQueue_smp_channel.cfg`, violation of
  `ImplementsTapChannel`, 16 states deep). Two read IRPs are dispatched on
  two processors while frames are queued, and both are served at once by
  `CompleteIRP`. Both `QueuePeek` the same head frame (`tapdrvr.c:1398`),
  and each `QueuePop` (`tapdrvr.c:1415`) removes one frame. The peeked
  frame is copied to both readers and freed twice, and the frame behind it
  is freed unread. `TapChannel` delivers each frame at most once and in
  order.

The abstract specification is `TapChannel`, which states what the driver
promises the reader about frames:

- `Accept(p)`: a frame never seen before joins the tail;
- `Deliver`: the oldest frame goes to the reader;
- `Discard`: the oldest frame is dropped, when the handle closes or when
  its copy to the reader fails.

Nothing else removes a frame, and the spec has no queue bound and no IRPs.
`TapQueue` instantiates it with a refinement mapping:

- `accepted` is the set of `pushed`;
- `out` is `delivered`;
- `lost` is `leaked` together with `spoiled`;
- `queued` is the frame a `CompleteIRP` has popped and not yet copied (at
  `ci_deliver`), followed by `pktq`.

With that mapping:

- `TransmitPush` is `Accept`;
- `CompleteDeliver` is `Deliver` when the copy succeeds and `Discard` when
  it raises;
- the frame-popping step of `Close` is `Discard`;
- every other step stutters.

`Chan!ChanSpec` is the property `ImplementsTapChannel`. On one processor it
holds. On several it fails (`tap_smp_channel`): a `CompleteIRP` pops a frame
it did not peek, so the frame it peeked stays the abstract head and is
delivered a second time.

Bounds:

- The packet queue holds 2 frames (`PACKET_QUEUE_SIZE`). With 3 frames it
  both orders two queued frames and refuses a third.
- The IRP queue holds 1 IRP (`IRP_QUEUE_SIZE`). With 2 IRPs the read IRP
  overrun is reached.
- `tap_smp` and `tap_smp_channel` keep 2 frames and a packet queue of 1,
  which is enough for their races and keeps the unsymmetric search small. Frame sizes and read lengths are drawn from {1, 2}, so that an IRP can
be too small for a frame (`STATUS_BUFFER_OVERFLOW`). There are 2 handle
opens and 1 power change.

No fairness is assumed, and no liveness property is checked. An IRP
completed with overflow leaves its frame at the queue head. Whether a later
read is served depends on the process issuing a large enough buffer, which
the driver does not control.

Not modelled: `AdapterDestroy` and `DestroyTapDevice`, the other OIDs, and
the list internals. `DestroyTapDevice`
frees queued IRPs without completing them, a hazard with no property yet.
`CLOSE` pops queued frames without freeing them; that leak is recorded in
`leaked` but no property is stated over it.

## 4. Runs, mutants and findings

Each property of a passing run has a mutant in `PROJECT.json`: a variant of a
mapped definition, modelling a plausible slip in the code, under which TLC
reports the property violated with the run's own configuration.

| Run | Expect | Properties |
|---|---|---|
| p2p | pass | TypeOK, NoAssertionFailure, NoFragmentLoss, LinkDrains, ResidualDelivered |
| mbuf | pass | TypeOK, RefcountExact, QueueOrdered |
| mroute_tun | violation | TunExtractsIPv4 |
| tls_rekey | pass | TypeOK, DataDecryptsWithItsKey |
| tls_peer | pass | ActiveKeyFromItsPeer, NoAssertionFailure |
| tls_keyid | violation | DataDecryptsWithItsKey |
| multi_tcp | pass | TypeOK, RefcountExact, RwFlagsInSync, NoStrandedOutput, NoPacketLost, HandlerAssertsHold, WritesInOrder, DeferredDrains |
| multi_tcp_mbuf | violation | NoMbufAbort |
| multi_tcp_stale | violation | NoStaleEvent |
| tap | pass | TypeOK, IrpCompletedOnce, IrpAccountedFor, CancelSpinLockReleased |
| tap_smp | violation | CancelSpinLockReleased |
| tap_smp_channel | violation | ImplementsTapChannel |

## 5. Hazards

`PROJECT.json` lists the hazards of this code at the line where each one
bites, with the properties that catch it. A hazard that no run covers has
a note saying why. An example is the TAP `CLOSE` leak, which has no
property yet.

## 6. Not modelled

- `options.c` outside `Options`: the text parsing of `parse_line`,
  `read_config_file` and `add_option` (beyond the key direction), the usage
  text, `show_settings`, the pushed-option save and restore
  (`pre_pull_save`/`pre_pull_restore`), and the checks on fields that no
  model tells apart (file names, scripts, hash sizes, pools). They are string
  handling with no protocol state.
- `win32.c`, `win32.h`, `misc.h`, `tun.h`, `openvpn-plugin.h`: OS wrappers
  and declarations. Their effect on the loop is the signal source, which is
  modelled as a nondeterministic signal.
  - One part of `win32.c` has state that several processes share: the
    named `openvpn_netcmd` semaphore (`semaphore_open`, `semaphore_lock`
    with its 600 s timeout and `M_FATAL`, `semaphore_release`), which
    serialises net shell commands across OpenVPN processes. A
    `semaphore_open` that fails leaves `hand` NULL, and `semaphore_lock`
    then returns true without locking. A process killed while holding the
    semaphore is never undone, since a semaphore has no owner. Those
    commands run in code that is not in `src/` (`route.c`, `tun.c`).
    Checking this would need a run of its own, and every run slot of the
    project is already spent on a component or a finding.
  - The `net_event_win32_*` helpers serve `socket.c`, which is not in
    `src/`.
- Packet contents, cryptography, compression, `--mssfix`, ping and
  status output, and the OCC exchange itself (its string comparison is in
  `Options`). No property distinguishes them. The control flow they
  trigger (drop, ACK needed, fatal error) is kept.
- `tapdrvr.c` teardown: `AdapterDestroy` runs `AdapterStop`, then
  `DestroyTapDevice`. That routine pops every queued read IRP and calls
  `CancelIRP` on it, whose `QueueExtract` no longer finds the IRP, so the IRP
  is never completed. `TapQueue` with a destroy step would violate
  `IrpAccountedFor` in the passing `tap` run. The hazard is listed, but no
  run checks it. The OID handlers of `AdapterQuery`/`AdapterModify` other
  than power only return or store constants.
- `ssl.c` outside the key-state machine: OpenSSL setup, certificate
  verification (`verify_callback`), key derivation (`openvpn_PRF`,
  `generate_key_expansion`), the tls-auth HMAC layout (`swap_hmac`,
  `read_control_auth`), the push payload calls (`tls_send_payload`,
  `tls_rec_payload`, called by `send_control_channel_string` and
  `check_incoming_control_channel_dowork` in `forward.c` for the push
  messages of `push.c`, which is not in `src/`) and
  `tls_pre_decrypt_dynamic` (no caller in `src/`). They are data
  transformations with no state that the properties tell apart.
- The sources not in `src/` (`reliable.c`, `packet_id.c`, `socket.c`,
  `fragment.c`, `forward-inline.h`). Where the loop depends on them they are
  modelled from spec.md and marked spec-modelled.
