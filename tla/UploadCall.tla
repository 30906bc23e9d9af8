------------------------------ MODULE UploadCall ------------------------------
(***************************************************************************)
(* What the clientStream and the duplex call over NATS have in common: the *)
(* input pump of client-transport.ts (written twice there, word for word), *)
(* the host-ready handshake, the two inboxes and the core NATS network.    *)
(* ClientStreamCall and DuplexCall add the two ends of each kind.          *)
(*                                                                         *)
(* client.pc  "idle" before the call, "pulling" on `down`, "yielded" and   *)
(*            "failed" suspended at a yield (duplex only), "closing" in    *)
(*            the finally at `await pumpInput`, "done"                     *)
(* pump.pc    "off", "gate" at `await hostReady`, "input" at the           *)
(*            application's iterable, "acquiring" a credit, "done"         *)
(* host.pc    "idle", "handler" running, "reading" the next input,         *)
(*            "acquiring" a credit (duplex only), "closing", "done"        *)
(*                                                                         *)
(* As in ServerStreamCall an action is the code between two awaits, an     *)
(* armed timer may fire at any moment, and call.faults budgets what goes   *)
(* wrong: a frame lost, a frame the decoder rejects, a connection closed,  *)
(* a host that unregisters.                                                *)
(***************************************************************************)
EXTENDS Naturals, Sequences, FiniteSets, FrameSubscription, CreditController

CONSTANT
  Calls    \* the calls to consider; each with its kind, whether idleTimeout or
           \* deadline is enabled, OpenRequest.credit (the initial window of
           \* both directions), and the bounds of its behaviour: inputs and
           \* outputs of the application and the handler, faults, and which of
           \* the environment's events may happen

Events == {"abandon", "clientClose", "hostClose", "unregister", "fail",
           "inputThrows", "swallow"}

Call == [kind : {"clientStream", "duplex"}, timed : BOOLEAN, window : Nat,
         inputs : Nat, outputs : Nat, faults : Nat, events : SUBSET Events]

ASSUME UploadAssumption == Calls \subseteq Call

VARIABLES
  call,    \* the one call
  client,  \* the promise or generator of the client transport
  pump,    \* its concurrent input pump
  host,    \* the serving task of the host transport
  net      \* frames and the open request in flight, faults so far

vars == <<call, client, pump, host, net>>

Init ==
  /\ call \in Calls
  /\ client = [pc |-> "idle", sub |-> NotSubscribed, timer |-> FALSE,
               terminated |-> FALSE, expired |-> FALSE, hostDone |-> FALSE,
               connected |-> TRUE, seq |-> 0, got |-> <<>>, outcome |-> "none"]
  /\ pump = [pc |-> "off", ready |-> FALSE, credit |-> NewController(0),
             taken |-> 0, seq |-> 0, ended |-> FALSE, threw |-> FALSE]
  /\ host = [pc |-> "idle", sub |-> NotSubscribed, timer |-> FALSE, seq |-> 0,
             got |-> <<>>, input |-> "open", upError |-> "none",
             callError |-> "none", ended |-> "none", recorded |-> "none",
             credit |-> NewController(0), terminated |-> FALSE,
             drain |-> "off", expected |-> 0, queue |-> <<>>, produced |-> 0,
             registered |-> TRUE, connected |-> TRUE]
  /\ net = [open |-> FALSE, down |-> <<>>, up |-> <<>>, faults |-> 0]

Window == call.window

PublishUp(f)   == net' = [net EXCEPT !.up = Append(@, f)]
PublishDown(f) == net' = [net EXCEPT !.down = Append(@, f)]

\* One more of the disturbances that call.faults bounds.
Fault(n) == net.faults < call.faults /\ net' = [n EXCEPT !.faults = @ + 1]

-------------------------------------------------------------------------------
(* The input pump. *)

PumpReturns == pump' = [pump EXCEPT !.pc = "done"] /\ UNCHANGED net

\* Nothing may be published any more: the call is over, or the connection is
\* closed, in which case the publish throws and the pump's catch swallows it.
PumpStopped == client.terminated \/ ~client.connected

\* `await hostReady` resolves.
PumpBegins ==
  /\ pump.pc = "gate" /\ pump.ready
  /\ pump' = [pump EXCEPT !.pc = IF client.terminated THEN "done" ELSE "input"]
  /\ UNCHANGED <<call, client, host, net>>

\* The application's iterable yields an input: reserve a credit for it.
PumpTakesInput ==
  /\ pump.pc = "input" /\ pump.taken < call.inputs
  /\ pump' = IF client.terminated THEN [pump EXCEPT !.pc = "done"]
             ELSE [pump EXCEPT !.pc = "acquiring", !.taken = @ + 1,
                               !.credit = Acquire(@)]
  /\ UNCHANGED <<call, client, host, net>>

\* acquire() resolved, possibly because the call ended.
PumpPublishes ==
  /\ pump.pc = "acquiring" /\ ~Parked(pump.credit)
  /\ IF PumpStopped THEN PumpReturns
     ELSE /\ PublishUp(DataFrame(pump.seq, pump.taken))
          /\ pump' = [pump EXCEPT !.pc = "input", !.seq = @ + 1]
  /\ UNCHANGED <<call, client, host>>

\* The iterable is finished: half-close `up`.
PumpEnds ==
  /\ pump.pc = "input"
  /\ IF PumpStopped THEN PumpReturns
     ELSE /\ PublishUp(EndFrame(pump.seq))
          /\ pump' = [pump EXCEPT !.pc = "done", !.ended = TRUE, !.seq = @ + 1]
  /\ UNCHANGED <<call, client, host>>

\* The iterable throws: the pump stops and tells nobody.
PumpInputThrows ==
  /\ "inputThrows" \in call.events
  /\ pump.pc = "input"
  /\ pump' = [pump EXCEPT !.pc = "done", !.threw = TRUE]
  /\ UNCHANGED <<call, client, host, net>>

\* Mutant of ReleasePump: a pump parked at credit 0 is not woken.
ReleasePumpAtGate == pump' = [pump EXCEPT !.ready = TRUE]

\* resolveHostReady and upCredit.cancel: no pump may hang on an ended call.
ReleasePump == pump' = [pump EXCEPT !.ready = TRUE, !.credit = Cancel(@)]

-------------------------------------------------------------------------------
(* The client, as far as both kinds agree. *)

\* Subscribe `down`, start the pump at its gate and the timers, publish the open
\* request, wait for the first frame.
ClientOpens ==
  /\ client.pc = "idle" /\ client.connected
  /\ client' = [client EXCEPT !.pc = "pulling", !.sub = Subscribed, !.timer = call.timed]
  /\ pump' = [pump EXCEPT !.pc = "gate"]
  /\ net' = [net EXCEPT !.open = TRUE]
  /\ UNCHANGED <<call, host>>

Pulling == client.pc = "pulling" /\ HasFrame(client.sub)

ClientFrame == NextFrame(client.sub)

\* Mutant of TakesGrant: the first grant does not open the gate.
TakesGrantUngated ==
  pump' = [pump EXCEPT !.credit = Grant(@, ClientFrame.data)]

TakesGrant ==
  pump' = [pump EXCEPT !.ready = TRUE, !.credit = Grant(@, ClientFrame.data)]

\* A CreditFrame of the host: it is listening, and grants `up` credit.
ClientTakesGrant ==
  /\ Pulling /\ ClientFrame.t = "c"
  /\ client' = [client EXCEPT !.sub = Taken(@)]
  /\ TakesGrant
  /\ UNCHANGED <<call, host, net>>

\* The finally up to `await pumpInput`: stop the timers, release the pump, cancel
\* the host if it has not ended the call itself, unsubscribe `down`.
ClientFinally(c, cancels) ==
  /\ client' = [c EXCEPT !.pc = "closing", !.terminated = TRUE, !.timer = FALSE,
                         !.sub = Unsubscribe(@)]
  /\ ReleasePump
  /\ IF cancels /\ client.connected THEN PublishUp(CancelFrame) ELSE UNCHANGED net
  /\ UNCHANGED <<call, host>>

ClientReturns ==
  /\ client.pc = "closing" /\ pump.pc = "done"
  /\ client' = [client EXCEPT !.pc = "done"]
  /\ UNCHANGED <<call, pump, host, net>>

\* The idle or deadline timer fires; frames already queued were handled before.
ClientExpires ==
  /\ client.timer /\ ~Pulling
  /\ client' = [client EXCEPT !.timer = FALSE, !.expired = TRUE,
                              !.terminated = TRUE, !.sub = Unsubscribe(@)]
  /\ ReleasePump
  /\ UNCHANGED <<call, host, net>>

\* connection.closed() resolves: `terminated` stays as it is.
ClientConnectionCloses ==
  /\ "clientClose" \in call.events
  /\ client.connected /\ client.pc # "idle"
  /\ client' = [client EXCEPT !.connected = FALSE, !.sub = Unsubscribe(@)]
  /\ ReleasePump
  /\ Fault(net)
  /\ UNCHANGED <<call, host>>

-------------------------------------------------------------------------------
(* The host, as far as both kinds agree. *)

\* Mutant of Consecutive: a DataFrame is taken whatever its number.
ConsecutiveUnchecked(f) == TRUE

\* The DataFrame is the one after the last: no frame-seq gap.
Consecutive(f) == f.seq = host.expected

\* The handler is given an input.  Its credit is granted first; on a closed
\* connection that publish throws into the handler instead.
InputTaken(h, data) ==
  IF host.connected
  THEN /\ host' = [h EXCEPT !.pc = "handler", !.got = Append(@, data)]
       /\ PublishDown(CreditFrame(1))
  ELSE /\ host' = [h EXCEPT !.pc = "handler", !.input = "failed"]
       /\ UNCHANGED net

\* The input iterable ends, or throws into the handler.
InputOver(h, how) ==
  host' = [h EXCEPT !.pc = "handler", !.input = how] /\ UNCHANGED net

\* The handler pulls its next input.
HostPulls ==
  /\ host.pc = "handler" /\ host.input = "open"
  /\ host' = [host EXCEPT !.pc = "reading"]
  /\ UNCHANGED <<call, client, pump, net>>

\* A handler fails on its own, or because its input threw; it may also swallow
\* what its input threw and go on.
HandlerMayFail == host.input = "failed" \/ "fail" \in call.events
HandlerMayGoOn == host.input = "failed" => "swallow" \in call.events

\* Publish terminal frames on `down`; on a closed connection that throws, and the
\* catch block's own ErrorFrame is swallowed.
HostPublishes(frames) ==
  IF host.connected THEN net' = [net EXCEPT !.down = @ \o frames] ELSE UNCHANGED net

\* unregister() closes `up`; nothing else of the call is told.
HostUnregisters ==
  /\ "unregister" \in call.events
  /\ host.registered
  /\ host' = [host EXCEPT !.registered = FALSE, !.sub = Unsubscribe(@)]
  /\ Fault(net)
  /\ UNCHANGED <<call, client, pump>>

HostConnectionCloses ==
  /\ "hostClose" \in call.events
  /\ host.connected
  /\ host' = [host EXCEPT !.connected = FALSE]
  /\ Fault(net)
  /\ UNCHANGED <<call, client, pump>>

-------------------------------------------------------------------------------
(* The network. *)

NobodyServes == ~host.registered \/ ~host.connected

\* The open request is lost, or the host's subscription or connection closed
\* after NATS had passed it on: then it is dropped and nobody answers.
LoseOpen ==
  /\ net.open
  /\ LET n == [net EXCEPT !.open = FALSE]
     IN (NobodyServes /\ net' = n) \/ Fault(n)
  /\ UNCHANGED <<call, client, pump, host>>

\* NATS finds no subscriber for the open request and says so to its reply subject,
\* which is `down`: an empty message with a status, which is not a Frame.
NoResponders ==
  /\ net.open /\ NobodyServes
  /\ net' = [net EXCEPT !.open = FALSE, !.down = Append(@, Undecodable)]
  /\ UNCHANGED <<call, client, pump, host>>

\* What becomes of the frame at the head of a direction: it arrives, it arrives
\* garbled, or it is lost; the last two are faults.
Arrivals(sub, f) ==
  {<<Receive(sub, f), 0>>} \cup
  (IF net.faults < call.faults THEN {<<Receive(sub, Undecodable), 1>>, <<sub, 1>>}
   ELSE {})

DeliverDown ==
  /\ net.down # <<>>
  /\ \E a \in Arrivals(client.sub, Head(net.down)) :
       /\ client' = [client EXCEPT !.sub = a[1]]
       /\ net' = [net EXCEPT !.down = Tail(@), !.faults = @ + a[2]]
  /\ UNCHANGED <<call, pump, host>>

DeliverUp ==
  /\ net.up # <<>>
  /\ \E a \in Arrivals(host.sub, Head(net.up)) :
       /\ host' = [host EXCEPT !.sub = IF host.connected THEN a[1] ELSE @]
       /\ net' = [net EXCEPT !.up = Tail(@), !.faults = @ + a[2]]
  /\ UNCHANGED <<call, client, pump>>

PumpNext == PumpBegins \/ PumpTakesInput \/ PumpPublishes \/ PumpEnds
            \/ PumpInputThrows
===============================================================================
