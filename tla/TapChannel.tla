----------------------------- MODULE TapChannel -----------------------------
(***************************************************************************)
(* What the TAP-Win32 driver promises the user-mode reader about the      *)
(* Ethernet frames NDIS sends it: a frame the driver accepts is either    *)
(* handed to exactly one read IRP, in the order frames were accepted, or  *)
(* discarded from the head of the queue (the handle is closed, or the     *)
(* copy into the IRP fails).  No frame is accepted twice, and none leaves *)
(* the channel any other way.                                              *)
(* The queue bound and the read IRPs are the implementation's business    *)
(* and do not appear here.                                                 *)
(***************************************************************************)
EXTENDS Sequences, SequencesExt

CONSTANT Pkts            \* the frames

VARIABLES
    accepted,  \* frames ever accepted
    queued,    \* accepted frames not yet delivered nor discarded, in order
    out,       \* frames handed to the reader, in order
    lost       \* frames discarded by a close

chan_vars == <<accepted, queued, out, lost>>

ChanInit ==
    /\ accepted = {} /\ queued = <<>> /\ out = <<>> /\ lost = {}

\* A frame not seen before joins the tail.
Accept(p) ==
    /\ p \notin accepted
    /\ accepted' = accepted \cup {p}
    /\ queued' = Append(queued, p)
    /\ UNCHANGED <<out, lost>>

\* The oldest frame goes to the reader.
Deliver ==
    /\ queued # <<>>
    /\ out' = Append(out, Head(queued))
    /\ queued' = Tail(queued)
    /\ UNCHANGED <<accepted, lost>>

\* The oldest frame is dropped: the handle closes, or its copy fails.
Discard ==
    /\ queued # <<>>
    /\ lost' = lost \cup {Head(queued)}
    /\ queued' = Tail(queued)
    /\ UNCHANGED <<accepted, out>>

ChanNext == (\E p \in Pkts : Accept(p)) \/ Deliver \/ Discard

ChanSpec == ChanInit /\ [][ChanNext]_chan_vars
====
