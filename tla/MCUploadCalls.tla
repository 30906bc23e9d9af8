---------------------------- MODULE MCUploadCalls -----------------------------
(* Small calls of both kinds.  Timers that may fire at any moment multiply   *)
(* the states of a duplex call, so its timed instances are split: one fault  *)
(* of any sort without outputs, and outputs without a fault.                 *)
EXTENDS UploadCalls

MCCall(kind, timed, window, inputs, outputs, faults, events) ==
  [kind |-> kind, timed |-> timed, window |-> window, inputs |-> inputs,
   outputs |-> outputs, faults |-> faults, events |-> events]

Closings == {"clientClose", "hostClose", "unregister"}
Leavings == {"abandon", "fail"}

MCCalls ==
  {MCCall("clientStream", t, 1, 2, 0, 1, Events) : t \in BOOLEAN} \cup
  {MCCall("clientStream", FALSE, 2, 2, 0, 1, {"fail", "swallow"}),
   MCCall("duplex", FALSE, 1, 2, 2, 0, Leavings),
   MCCall("duplex", FALSE, 2, 2, 1, 0, {"swallow"}),
   MCCall("duplex", FALSE, 1, 2, 1, 1, {"fail", "swallow"}),
   MCCall("duplex", TRUE,  1, 1, 1, 0, {"abandon", "inputThrows"}),
   MCCall("duplex", TRUE,  1, 1, 0, 1, Closings)}
===============================================================================
