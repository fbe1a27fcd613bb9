-------------------------------- MODULE Mbuf --------------------------------
(***************************************************************************)
(* The packet queue of mbuf.c: a ring of mbuf_items {buffer, arg} whose    *)
(* capacity is a power of two, over refcounted mbuf_buffers shared by the  *)
(* items of one broadcast.  The callers' pattern is modelled as actions:   *)
(* a producer allocates a buffer, adds one item per target and drops its   *)
(* own reference (mtcp.c:280-288); a consumer extracts an item, sends it   *)
(* and frees its reference (mtcp.c:252-261); closing an instance           *)
(* dereferences its items; mbuf_free releases the whole set.               *)
(***************************************************************************)
EXTENDS Naturals, Sequences, FiniteSets, Bitwise, SequencesExt

CONSTANTS
    Args,       \* the instances an item may be queued for (item->arg)
    NULL,       \* the null arg of a dereferenced item
    Size,       \* the size passed to mbuf_init
    MaxBufs,    \* buffers allocated in a behaviour
    MaxTargets  \* most items one buffer is queued as

ASSUME /\ NULL \notin Args
       /\ Size \in Nat \ {0}
       /\ MaxBufs \in Nat /\ MaxTargets \in Nat \ {0}

\* adjust_power_of_2: the least power of two not below u.
RECURSIVE PowerOf2From(_, _)
PowerOf2From(u, ret) == IF ret < u THEN PowerOf2From(u, 2 * ret) ELSE ret
AdjustPowerOf2(u) == PowerOf2From(u, 1)

\* The definition it is checked against.
ASSUME \A u \in 1..64 :
         AdjustPowerOf2(u) = CHOOSE p \in {2^k : k \in 0..6} :
                               p >= u /\ (p = 1 \/ p \div 2 < u)

Capacity == AdjustPowerOf2(Size)
Slots    == 0..(Capacity - 1)
Bufs     == 1..MaxBufs
NoItem   == [buffer |-> 0, arg |-> NULL]

\* MBUF_INDEX(head, offset, size)
MBUF_INDEX(h, off) == (h + off) & (Capacity - 1)

VARIABLES
    ms,       \* the mbuf_set: [array, head, len]
    refcount, \* refcount[b] of each allocated mbuf_buffer
    nalloc,   \* buffers allocated so far; buffer b was the b-th
    last_out, \* the buffer of the last item the consumer sent
    phase     \* "open", "freed" (mbuf_free) or "aborted" (failed ASSERT)

vars == <<ms, refcount, nalloc, last_out, phase>>

\* The items from the head, in queue order.
Queued(s) == [i \in 1..s.len |-> s.array[MBUF_INDEX(s.head, i - 1)]]

-----------------------------------------------------------------------------
(* The functions of mbuf.c over a state record st = [ms, rc, ok], where ok *)
(* turns FALSE when an ASSERT fails.                                       *)

\* mbuf_free_buf: drop one reference; at zero the buffer is freed.
mbuf_free_buf(st, b) ==
    IF b = 0 THEN st ELSE [st EXCEPT !.rc[b] = @ - 1]

\* A variant of mbuf_extract_item that pops from the tail.
RECURSIVE mbuf_extract_item_tail(_)
mbuf_extract_item_tail(st) ==
    IF st.ms.len = 0 THEN [st |-> st, found |-> FALSE, item |-> NoItem]
    ELSE LET item == st.ms.array[MBUF_INDEX(st.ms.head, st.ms.len - 1)]
             st1  == [st EXCEPT !.ms.len = @ - 1]
         IN IF item.arg # NULL THEN [st |-> st1, found |-> TRUE, item |-> item]
            ELSE mbuf_extract_item_tail(st1)

\* mbuf_extract_item: pop from the head, skipping dereferenced items,
\* until a live one is found; it reports whether it found one.
RECURSIVE mbuf_extract_item(_)
mbuf_extract_item(st) ==
    IF st.ms.len = 0 THEN [st |-> st, found |-> FALSE, item |-> NoItem]
    ELSE LET item == st.ms.array[st.ms.head]
             st1  == [st EXCEPT !.ms.head = MBUF_INDEX(@, 1),
                                !.ms.len = @ - 1]
         IN IF item.arg # NULL THEN [st |-> st1, found |-> TRUE, item |-> item]
            ELSE mbuf_extract_item(st1)

\* Variants of the definitions below, each a plausible slip in the code
\* it models.
mbuf_add_item_no_drop(st, item) ==  \* no check for a full set
    [st EXCEPT !.ms.array[MBUF_INDEX(st.ms.head, st.ms.len)] = item,
               !.ms.len = @ + 1,
               !.rc[item.buffer] = @ + 1]
mbuf_dereference_no_free(st, a) ==   \* items cleared, buffers kept
    [st EXCEPT !.ms.array = [j \in Slots |->
        IF /\ \E i \in 0..(st.ms.len - 1) : j = MBUF_INDEX(st.ms.head, i)
           /\ @[j].arg = a
        THEN NoItem ELSE @[j]]]

\* mbuf_add_item: when the set is full, ASSERT that an item can be
\* extracted and free it (the oldest live item is dropped); then store the
\* new item at the tail and take a reference to its buffer.
mbuf_add_item(st, item) ==
    LET full == st.ms.len = Capacity
        r    == mbuf_extract_item(st)
        st1  == IF full THEN mbuf_free_buf(r.st, r.item.buffer) ELSE st
    IN IF full /\ ~r.found THEN [st EXCEPT !.ok = FALSE]
       ELSE [st1 EXCEPT !.ms.array[MBUF_INDEX(st1.ms.head, st1.ms.len)] = item,
                        !.ms.len = @ + 1,
                        !.rc[item.buffer] = @ + 1]

\* mbuf_dereference: every queued item of arg a loses its buffer and arg.
mbuf_dereference(st, a) ==
    LET hit == {j \in Slots : /\ \E i \in 0..(st.ms.len - 1) :
                                   j = MBUF_INDEX(st.ms.head, i)
                              /\ st.ms.array[j].arg = a}
    IN [st EXCEPT
          !.ms.array = [j \in Slots |-> IF j \in hit THEN NoItem ELSE @[j]],
          !.rc = [b \in Bufs |->
                    @[b] - Cardinality({j \in hit : st.ms.array[j].buffer = b})]]

\* The state of the module as a record, and back.
Cur == [ms |-> ms, rc |-> refcount, ok |-> TRUE]
Store(st) ==
    /\ ms' = st.ms
    /\ refcount' = st.rc
    /\ phase' = IF st.ok THEN "open" ELSE "aborted"

\* mbuf_peek_dowork: the arg of the first live item, or NULL.
mbuf_peek(s) ==
    LET live == {i \in 1..s.len : Queued(s)[i].arg # NULL}
    IN IF live = {} THEN NULL ELSE Queued(s)[CHOOSE i \in live : \A j \in live : i <= j].arg

-----------------------------------------------------------------------------
Init ==
    /\ ms = [array |-> [j \in Slots |-> NoItem], head |-> 0, len |-> 0]
    /\ refcount = [b \in Bufs |-> 0]
    /\ nalloc = 0
    /\ last_out = 0
    /\ phase = "open"

\* The target lists of one buffer: distinct instances, in the order the
\* items are added.
Targets == UNION {{t \in [1..n -> Args] : IsInjective(t)} : n \in 1..MaxTargets}

\* mbuf_alloc_buf (refcount 1), mbuf_add_item for each target, then the
\* producer's own mbuf_free_buf (mtcp.c:280-288 for one target).
Enqueue(targets) ==
    /\ phase = "open"
    /\ nalloc < MaxBufs
    /\ LET b    == nalloc + 1
           add(st, a) == IF st.ok THEN mbuf_add_item(st, [buffer |-> b, arg |-> a])
                         ELSE st
           done == FoldLeft(add, [Cur EXCEPT !.rc[b] = 1], targets)
       IN Store(IF done.ok THEN mbuf_free_buf(done, b) ELSE done)
    /\ nalloc' = nalloc + 1
    /\ UNCHANGED last_out

\* A variant of Send that pops the newest item instead of the oldest.
SendNewest ==
    /\ phase = "open"
    /\ ms.len > 0
    /\ LET r == mbuf_extract_item_tail(Cur)
       IN /\ Store(IF r.found THEN mbuf_free_buf(r.st, r.item.buffer) ELSE r.st)
          /\ last_out' = IF r.found THEN r.item.buffer ELSE last_out
    /\ UNCHANGED nalloc

\* multi_tcp_process_outgoing_link_ready: mbuf_extract_item, send the
\* buffer, mbuf_free_buf (mtcp.c:252-261), when the queue is defined.
Send ==
    /\ phase = "open"
    /\ ms.len > 0
    /\ LET r == mbuf_extract_item(Cur)
       IN /\ Store(IF r.found THEN mbuf_free_buf(r.st, r.item.buffer) ELSE r.st)
          /\ last_out' = IF r.found THEN r.item.buffer ELSE last_out
    /\ UNCHANGED nalloc

\* Closing instance a: mbuf_dereference (ms, a).
Close(a) ==
    /\ phase = "open"
    /\ Store(mbuf_dereference(Cur, a))
    /\ UNCHANGED <<nalloc, last_out>>

\* mbuf_free: release the buffer of every queued item, then the set.
MbufFree ==
    /\ phase = "open"
    /\ refcount' = [b \in Bufs |->
                      refcount[b] - Cardinality({i \in 1..ms.len :
                                                   Queued(ms)[i].buffer = b})]
    /\ ms' = [ms EXCEPT !.len = 0]
    /\ phase' = "freed"
    /\ UNCHANGED <<nalloc, last_out>>

\* The set was freed, or the process aborted.
Terminated == phase # "open" /\ UNCHANGED vars

Next ==
    \/ \E t \in Targets : Enqueue(t)
    \/ Send
    \/ \E a \in Args : Close(a)
    \/ MbufFree
    \/ Terminated

Spec == Init /\ [][Next]_vars

-----------------------------------------------------------------------------
TypeOK ==
    /\ ms.head \in Slots /\ ms.len \in 0..Capacity
    /\ ms.array \in [Slots -> [buffer : 0..MaxBufs, arg : Args \cup {NULL}]]
    /\ refcount \in [Bufs -> Int]
    /\ nalloc \in 0..MaxBufs /\ last_out \in 0..MaxBufs
    /\ phase \in {"open", "freed", "aborted"}

\* Between calls, each buffer's refcount equals the number of queued items
\* holding it: a buffer is freed exactly when its last item is sent,
\* dropped, dereferenced or released by mbuf_free, never while an item
\* still points to it, and none is leaked.  This spans mbuf_alloc_buf,
\* mbuf_add_item's drop of the oldest item, mbuf_dereference and the
\* producer's and consumer's mbuf_free_buf.
RefcountExact ==
    phase # "aborted" =>
        \A b \in 1..nalloc :
            refcount[b] = Cardinality({i \in 1..ms.len : Queued(ms)[i].buffer = b})

\* The live items, from the head, are in the order their buffers were
\* allocated, and none is older than the last item sent: the ring index
\* arithmetic and the drop of the oldest item on overflow keep FIFO order.
QueueOrdered ==
    LET live == SelectSeq(Queued(ms), LAMBDA it : it.arg # NULL)
    IN \A i \in 1..Len(live) :
          /\ live[i].buffer >= last_out
          /\ i > 1 => live[i - 1].buffer <= live[i].buffer

\* The ASSERT in mbuf_add_item never fails: a full set always holds an
\* item mbuf_extract_item can drop.
NoAssertionFailure == phase # "aborted"
=============================================================================
