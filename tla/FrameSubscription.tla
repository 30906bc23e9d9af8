-------------------------- MODULE FrameSubscription ---------------------------
(***************************************************************************)
(* The frames of the streaming plane (rpc-transport-nats/src/frames.ts)    *)
(* and the per-call inbox subscription that queues them for one iterator   *)
(* (subscribeFrames of streaming.ts).                                      *)
(*                                                                         *)
(* A frame is a discriminant, a sequence number and a payload; fields a    *)
(* frame does not have in the code are 0.  "bad" stands for wire bytes     *)
(* decodeFrame rejects: the subscription queues the FrameDecodeError in    *)
(* the same FIFO as the values.                                            *)
(***************************************************************************)
EXTENDS Naturals, Sequences, FiniteSets

FrameTag == {"d", "e", "x", "c", "a", "bad"}

Frame == [t : FrameTag, seq : Nat, data : Nat]

DataFrame(seq, data) == [t |-> "d", seq |-> seq, data |-> data]
EndFrame(seq)        == [t |-> "e", seq |-> seq, data |-> 0]
ErrorFrame           == [t |-> "x", seq |-> 0,   data |-> 0]
CreditFrame(n)       == [t |-> "c", seq |-> 0,   data |-> n]
CancelFrame          == [t |-> "a", seq |-> 0,   data |-> 0]
Undecodable          == [t |-> "bad", seq |-> 0, data |-> 0]

\* Frames of one kind in a sequence of frames.
Count(frames, tag) == Cardinality({i \in 1..Len(frames) : frames[i].t = tag})

-------------------------------------------------------------------------------
(* subscribeFrames: a closed flag and the FIFO between the NATS callback   *)
(* and the iterator.  next() takes the head of the queue, open or closed;  *)
(* it completes only when the queue is empty and the inbox is closed.      *)

Subscription == [open : BOOLEAN, queue : Seq(Frame)]

NotSubscribed   == [open |-> FALSE, queue |-> <<>>]
Subscribed      == [open |-> TRUE,  queue |-> <<>>]
Receive(sub, f) == IF sub.open THEN [sub EXCEPT !.queue = Append(@, f)] ELSE sub
Unsubscribe(sub) == [sub EXCEPT !.open = FALSE]

HasFrame(sub)  == sub.queue # <<>>
NextFrame(sub) == Head(sub.queue)
Taken(sub)     == [sub EXCEPT !.queue = Tail(@)]
Exhausted(sub) == sub.queue = <<>> /\ ~sub.open
===============================================================================
