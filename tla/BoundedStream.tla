---------------------------- MODULE BoundedStream -----------------------------
(***************************************************************************)
(* What a metered stream promises its application: outputs 1, 2, 3, ... of *)
(* the producer arrive in order, never more than Window of them are sent   *)
(* and undelivered while the consumer is listening, and the consumer is    *)
(* told "complete" only when the producer ended and everything arrived.    *)
(* A stream may fail at any time; nothing is delivered afterwards.         *)
(***************************************************************************)
EXTENDS Naturals, Sequences

CONSTANT Window

VARIABLES
  sent,       \* outputs the producer has sent
  delivered,  \* the outputs the consumer has received
  ended,      \* how the producer ended: "none", "e" (end) or "x" (error)
  phase       \* what the consumer knows: "open", "complete" or "failed"

vars == <<sent, delivered, ended, phase>>

Init == sent = 0 /\ delivered = <<>> /\ ended = "none" /\ phase = "open"

Send ==
  /\ ended = "none"
  /\ phase = "open" => sent - Len(delivered) < Window
  /\ sent' = sent + 1
  /\ UNCHANGED <<delivered, ended, phase>>

ProducerEnds ==
  /\ ended = "none"
  /\ ended' \in {"e", "x"}
  /\ UNCHANGED <<sent, delivered, phase>>

Deliver ==
  /\ phase = "open" /\ Len(delivered) < sent
  /\ delivered' = Append(delivered, Len(delivered) + 1)
  /\ UNCHANGED <<sent, ended, phase>>

Complete ==
  /\ phase = "open" /\ ended = "e" /\ Len(delivered) = sent
  /\ phase' = "complete"
  /\ UNCHANGED <<sent, delivered, ended>>

Fail ==
  /\ phase = "open"
  /\ phase' = "failed"
  /\ UNCHANGED <<sent, delivered, ended>>

Next == Send \/ ProducerEnds \/ Deliver \/ Complete \/ Fail

Spec == Init /\ [][Next]_vars
===============================================================================
