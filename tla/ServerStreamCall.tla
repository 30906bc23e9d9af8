--------------------------- MODULE ServerStreamCall ---------------------------
(***************************************************************************)
(* One serverStream call over NATS: the generator invokeServerStream of    *)
(* client-transport.ts, the host arm serveServerStreamCall of              *)
(* host-transport.ts, and the inboxes between them.                        *)
(*                                                                         *)
(* Client.  cpc is where the generator stands: "idle" before the first     *)
(* next(), "pulling" while a next() of the application is outstanding,     *)
(* "yielded" / "failed" suspended at the yield of an output / of an error, *)
(* "done" after its finally.  outcome is what the application has learned. *)
(*                                                                         *)
(* Host.  hpc is where the async function stands: "idle" before the open   *)
(* request, "handler" awaiting the handler's next response, "acquiring"    *)
(* awaiting downCredit.acquire(), "closing" in the finally awaiting        *)
(* drainUp, "done" after recordCall.  drainUp runs concurrently (drain).   *)
(*                                                                         *)
(* Network.  One FIFO per inbox, plus the open request on the method       *)
(* subject.  Core NATS is at-most-once: a frame may be lost, and the       *)
(* decoder may reject one; both are budgeted by MaxFaults.                 *)
(*                                                                         *)
(* JavaScript runs a callback or the code between two awaits without       *)
(* interruption, which is what one action of this module is.  Time is      *)
(* abstracted: an armed liveness timer may fire at any moment.             *)
(***************************************************************************)
EXTENDS Naturals, Sequences, FiniteSets, FrameSubscription, CreditController

CONSTANTS
  Window,       \* OpenRequest.credit: the initial window of `down`
  MaxOutputs,   \* bound: responses the handler may yield in a behaviour
  MaxFaults,    \* bound: frames the network may lose or garble
  Timers,       \* is idleTimeout or deadline enabled?
  Events        \* which of the environment's events may happen

AllEvents == {"abandon", "clientClose", "hostClose", "unregister", "fail", "throw"}

ASSUME WindowAssumption     == Window \in Nat
ASSUME MaxOutputsAssumption == MaxOutputs \in Nat
ASSUME MaxFaultsAssumption  == MaxFaults \in Nat
ASSUME TimersAssumption     == Timers \in BOOLEAN
ASSUME EventsAssumption     == Events \subseteq AllEvents

VARIABLES
  \* the client's generator
  cpc, downSub, cTimer, terminated, expired, clientUp, expectedSeq, got,
  outcome,
  \* the host's call
  hpc, upSub, hTimer, downCredit, aborted, callError, produced, seq, ended,
  drain, recorded, registered, hostUp,
  \* the network
  openNet, downNet, upNet, faults

clientVars == <<cpc, downSub, cTimer, terminated, expired, clientUp,
                expectedSeq, got, outcome>>
hostVars   == <<hpc, upSub, hTimer, downCredit, aborted, callError, produced,
                seq, ended, drain, recorded, registered, hostUp>>
netVars    == <<openNet, downNet, upNet, faults>>
vars       == <<clientVars, hostVars, netVars>>

Outcome == {"none", "ok", "remote", "abandoned",
            "__transport__", "__serde__", "__timeout__"}
CallError == {"none", "timeout", "cancelled", "channel", "handler"}

ClientTypeOK ==
  /\ cpc \in {"idle", "pulling", "yielded", "failed", "done"}
  /\ downSub \in Subscription
  /\ cTimer \in BOOLEAN /\ terminated \in BOOLEAN /\ expired \in BOOLEAN
  /\ clientUp \in BOOLEAN
  /\ expectedSeq \in Nat
  /\ got \in Seq(Nat)
  /\ outcome \in Outcome

HostTypeOK ==
  /\ hpc \in {"idle", "handler", "acquiring", "closing", "done"}
  /\ upSub \in Subscription
  /\ downCredit \in Controller
  /\ hTimer \in BOOLEAN /\ aborted \in BOOLEAN
  /\ registered \in BOOLEAN /\ hostUp \in BOOLEAN
  /\ callError \in CallError
  /\ produced \in Nat /\ seq \in Nat
  /\ ended \in {"none", "e", "x"}
  /\ drain \in {"off", "reading", "done"}
  /\ recorded \in {"none", "ok", "error"}

NetTypeOK ==
  /\ openNet \in BOOLEAN
  /\ downNet \in Seq(Frame) /\ upNet \in Seq(Frame)
  /\ faults \in Nat

TypeOK == ClientTypeOK /\ HostTypeOK /\ NetTypeOK

Init ==
  /\ cpc = "idle" /\ downSub = NotSubscribed /\ cTimer = FALSE
  /\ terminated = FALSE /\ expired = FALSE /\ clientUp = TRUE
  /\ expectedSeq = 0 /\ got = <<>> /\ outcome = "none"
  /\ hpc = "idle" /\ upSub = NotSubscribed /\ hTimer = FALSE
  /\ downCredit = NewController(0) /\ aborted = FALSE /\ callError = "none"
  /\ produced = 0 /\ seq = 0 /\ ended = "none"
  /\ drain = "off" /\ recorded = "none" /\ registered = TRUE /\ hostUp = TRUE
  /\ openNet = FALSE /\ downNet = <<>> /\ upNet = <<>> /\ faults = 0

-------------------------------------------------------------------------------
(* The client's generator. *)

\* First next(): subscribe `down`, start the liveness monitor, publish the open
\* request, and pull the first frame.
ClientOpen ==
  /\ cpc = "idle" /\ clientUp
  /\ cpc' = "pulling"
  /\ downSub' = Subscribed
  /\ cTimer' = Timers
  /\ openNet' = TRUE
  /\ UNCHANGED <<terminated, expired, clientUp, expectedSeq, got, outcome,
                 hostVars, downNet, upNet, faults>>

\* A CancelFrame on `up` unless the call is terminated; the publish on a closed
\* connection throws and is swallowed.
CancelHost(term) ==
  IF ~term /\ clientUp THEN upNet' = Append(upNet, CancelFrame) ELSE UNCHANGED upNet

\* The generator's finally: stop the timers, cancel, unsubscribe `down`.
ClientFinally(term, sub) ==
  /\ cpc' = "done"
  /\ cTimer' = FALSE
  /\ downSub' = Unsubscribe(sub)
  /\ CancelHost(term)

Pulling == cpc = "pulling" /\ HasFrame(downSub)

\* Mutant of InSequence: gaps go unnoticed.
AnySequence == TRUE

InSequence == NextFrame(downSub).seq = expectedSeq

\* Mutant of GrantOne: consumption does not replenish the window.
GrantNothing == UNCHANGED upNet

GrantOne == upNet' = Append(upNet, CreditFrame(1))

\* A DataFrame in sequence: grant one credit, then yield it.
ClientTakeData ==
  /\ Pulling /\ NextFrame(downSub).t = "d" /\ clientUp
  /\ InSequence
  /\ downSub' = Taken(downSub)
  /\ GrantOne
  /\ expectedSeq' = expectedSeq + 1
  /\ got' = Append(got, NextFrame(downSub).data)
  /\ cpc' = "yielded"
  /\ UNCHANGED <<cTimer, terminated, expired, clientUp, outcome,
                 hostVars, openNet, downNet, faults>>

\* A gap in `seq` on a DataFrame (its credit is granted first) or an EndFrame.
ClientTakeGap ==
  /\ Pulling /\ NextFrame(downSub).t \in {"d", "e"}
  /\ ~InSequence
  /\ NextFrame(downSub).t = "d" => clientUp
  /\ downSub' = Taken(downSub)
  /\ IF NextFrame(downSub).t = "d" THEN GrantOne ELSE UNCHANGED upNet
  /\ terminated' = TRUE
  /\ outcome' = "__transport__"
  /\ cpc' = "failed"
  /\ UNCHANGED <<cTimer, expired, clientUp, expectedSeq, got,
                 hostVars, openNet, downNet, faults>>

\* A DataFrame after the connection closed: publishing its credit throws.
ClientGrantThrows ==
  /\ Pulling /\ NextFrame(downSub).t = "d" /\ ~clientUp
  /\ downSub' = Taken(downSub)
  /\ terminated' = TRUE
  /\ outcome' = "__transport__"
  /\ cpc' = "failed"
  /\ UNCHANGED <<cTimer, expired, clientUp, expectedSeq, got,
                 hostVars, netVars>>

\* The EndFrame in sequence completes the call.
ClientTakeEnd ==
  /\ Pulling /\ NextFrame(downSub).t = "e"
  /\ InSequence
  /\ ClientFinally(TRUE, Taken(downSub))
  /\ terminated' = TRUE
  /\ outcome' = "ok"
  /\ UNCHANGED <<expired, clientUp, expectedSeq, got, hostVars, openNet,
                 downNet, faults>>

\* An ErrorFrame, or a frame that does not decode: yield the error.
ClientTakeError ==
  /\ Pulling /\ NextFrame(downSub).t \in {"x", "bad"}
  /\ downSub' = Taken(downSub)
  /\ terminated' = TRUE
  /\ outcome' = IF NextFrame(downSub).t = "x" THEN "remote" ELSE "__serde__"
  /\ cpc' = "failed"
  /\ UNCHANGED <<cTimer, expired, clientUp, expectedSeq, got,
                 hostVars, netVars>>

\* `down` was torn down without a terminal frame: a timeout or a fault.
ClientDownClosed ==
  /\ cpc = "pulling" /\ Exhausted(downSub)
  /\ outcome' = IF expired THEN "__timeout__" ELSE "__transport__"
  /\ cpc' = "failed"
  /\ UNCHANGED <<downSub, cTimer, terminated, expired, clientUp, expectedSeq,
                 got, hostVars, netVars>>

\* The application handles an output and asks for the next one.
ConsumerPull ==
  /\ cpc = "yielded"
  /\ cpc' = "pulling"
  /\ UNCHANGED <<downSub, cTimer, terminated, expired, clientUp, expectedSeq,
                 got, outcome, hostVars, netVars>>

\* The application leaves its loop at an output: return() runs the finally.
ConsumerAbandon ==
  /\ "abandon" \in Events
  /\ cpc = "yielded"
  /\ outcome' = "abandoned"
  /\ ClientFinally(terminated, downSub)
  /\ UNCHANGED <<terminated, expired, clientUp, expectedSeq, got,
                 hostVars, openNet, downNet, faults>>

\* The application has seen the error; pulling again or returning ends the call.
ConsumerSeesError ==
  /\ cpc = "failed"
  /\ ClientFinally(terminated, downSub)
  /\ UNCHANGED <<terminated, expired, clientUp, expectedSeq, got, outcome,
                 hostVars, openNet, downNet, faults>>

\* The client's idle or deadline timer fires.  A timer is a macrotask: a frame
\* that woke a pending next() has been handled before.
ClientExpire ==
  /\ cTimer /\ ~Pulling
  /\ cTimer' = FALSE
  /\ expired' = TRUE
  /\ terminated' = TRUE
  /\ downSub' = Unsubscribe(downSub)
  /\ UNCHANGED <<cpc, clientUp, expectedSeq, got, outcome,
                 hostVars, netVars>>

\* connection.closed() resolves on the client.
ClientConnectionCloses ==
  /\ "clientClose" \in Events
  /\ clientUp /\ cpc # "idle"
  /\ clientUp' = FALSE
  /\ downSub' = Unsubscribe(downSub)
  /\ UNCHANGED <<cpc, cTimer, terminated, expired, expectedSeq, got, outcome,
                 hostVars, netVars>>

-------------------------------------------------------------------------------
(* The host's call. *)

\* The open request selects this instance: subscribe `up`, start the monitor and
\* drainUp, and pull the handler's first response.
HostAccept ==
  /\ openNet /\ registered /\ hostUp
  /\ openNet' = FALSE
  /\ hpc' = "handler"
  /\ upSub' = Subscribed
  /\ hTimer' = Timers
  /\ downCredit' = NewController(Window)
  /\ drain' = "reading"
  /\ UNCHANGED <<clientVars, aborted, callError, produced, seq, ended, recorded,
                 registered, hostUp, downNet, upNet, faults>>

\* The finally up to its await: stop the timers, cancel the window, close `up`.
HostFinally ==
  /\ hpc' = "closing"
  /\ hTimer' = FALSE
  /\ downCredit' = Cancel(downCredit)
  /\ upSub' = Unsubscribe(upSub)

\* The handler yields a response without error: reserve a credit for it.
HostYield ==
  /\ hpc = "handler" /\ ~aborted /\ produced < MaxOutputs
  /\ produced' = produced + 1
  /\ downCredit' = Acquire(downCredit)
  /\ hpc' = "acquiring"
  /\ UNCHANGED <<clientVars, upSub, hTimer, aborted, callError, seq, ended,
                 drain, recorded, registered, hostUp, netVars>>

HoldsCredit == hpc = "acquiring" /\ ~Parked(downCredit)

\* Mutant of MayPublish: `aborted` is not checked again after acquire().
MayPublishUnchecked == HoldsCredit

\* acquire() resolved, possibly because the call was aborted.
MayPublish == HoldsCredit /\ ~aborted

\* Publish the response as a DataFrame, pull the handler.
HostPublish ==
  /\ MayPublish /\ hostUp
  /\ downNet' = Append(downNet, DataFrame(seq, produced))
  /\ seq' = seq + 1
  /\ hpc' = "handler"
  /\ UNCHANGED <<clientVars, upSub, hTimer, downCredit, aborted, callError,
                 produced, ended, drain, recorded, registered, hostUp, openNet,
                 upNet, faults>>

\* The handler is finished: one EndFrame.
HostEnd ==
  /\ hpc = "handler" /\ ~aborted /\ hostUp
  /\ downNet' = Append(downNet, EndFrame(seq))
  /\ seq' = seq + 1
  /\ ended' = "e"
  /\ HostFinally
  /\ UNCHANGED <<clientVars, aborted, callError, produced, drain, recorded,
                 registered, hostUp, openNet, upNet, faults>>

\* The handler yields an error response (a declared error, a failed validation,
\* a throw the wrapper caught), or throws below the wrapper: one ErrorFrame.
\* Only the second publishes even when the call is aborted.
HostFail ==
  /\ hpc = "handler"
  /\ \/ "fail" \in Events /\ ~aborted
     \/ "throw" \in Events
  /\ callError' = "handler"
  /\ IF hostUp THEN downNet' = Append(downNet, ErrorFrame) /\ ended' = "x"
     ELSE UNCHANGED <<downNet, ended>>
  /\ HostFinally
  /\ UNCHANGED <<clientVars, aborted, produced, seq, drain, recorded, registered,
                 hostUp, openNet, upNet, faults>>

\* Publishing a DataFrame or an EndFrame on a closed connection throws; so does
\* the ErrorFrame of the catch block, which is swallowed.  (The sequence number
\* taken for the frame is never used again.)
HostPublishThrows ==
  /\ hpc = "handler" \/ HoldsCredit
  /\ ~aborted /\ ~hostUp
  /\ callError' = "handler"
  /\ HostFinally
  /\ UNCHANGED <<clientVars, aborted, produced, seq, ended, drain, recorded,
                 registered, hostUp, netVars>>

\* The loop finds the call aborted: on the handler's next response, when its
\* acquire() resolves, or when the handler is finished.
HostStop ==
  /\ hpc = "handler" \/ HoldsCredit
  /\ aborted
  /\ HostFinally
  /\ UNCHANGED <<clientVars, aborted, callError, produced, seq, ended, drain,
                 recorded, registered, hostUp, netVars>>

\* Mutant of Abort: the stats do not learn why the call ended.
AbortUnexplained(error) ==
  /\ aborted' = TRUE
  /\ downCredit' = Cancel(downCredit)
  /\ UNCHANGED callError

\* Stop producing: release a producer parked at credit 0.
Abort(error) ==
  /\ aborted' = TRUE
  /\ callError' = error
  /\ downCredit' = Cancel(downCredit)

\* drainUp takes a CreditFrame.
HostTakeCredit ==
  /\ drain = "reading" /\ HasFrame(upSub) /\ NextFrame(upSub).t = "c"
  /\ upSub' = Taken(upSub)
  /\ downCredit' = Grant(downCredit, NextFrame(upSub).data)
  /\ UNCHANGED <<clientVars, hpc, hTimer, aborted, callError, produced, seq,
                 ended, drain, recorded, registered, hostUp, netVars>>

\* drainUp takes the client's CancelFrame, or the error of a frame that does not
\* decode, and returns.
HostTakeAbort ==
  /\ drain = "reading" /\ HasFrame(upSub) /\ NextFrame(upSub).t \in {"a", "bad"}
  /\ upSub' = Taken(upSub)
  /\ drain' = "done"
  /\ Abort(CASE NextFrame(upSub).t = "a" -> "cancelled"
             [] callError = "none"       -> "channel"
             [] OTHER                    -> callError)
  /\ UNCHANGED <<clientVars, hpc, hTimer, produced, seq, ended, recorded,
                 registered, hostUp, netVars>>

\* Mutant of HostDrainEnds: the end of `up` counts as a channel error.
HostDrainEndsInError ==
  /\ drain = "reading" /\ Exhausted(upSub)
  /\ drain' = "done"
  /\ callError' = "channel"
  /\ UNCHANGED <<clientVars, hpc, upSub, hTimer, downCredit, aborted, produced,
                 seq, ended, recorded, registered, hostUp, netVars>>

\* `up` is closed and drained: drainUp ends without aborting the call.
HostDrainEnds ==
  /\ drain = "reading" /\ Exhausted(upSub)
  /\ drain' = "done"
  /\ UNCHANGED <<clientVars, hpc, upSub, hTimer, downCredit, aborted, callError,
                 produced, seq, ended, recorded, registered, hostUp, netVars>>

\* The rest of the finally, after `await drainUp`: recordCall(callError).
HostRecord ==
  /\ hpc = "closing" /\ drain = "done"
  /\ hpc' = "done"
  /\ recorded' = IF callError = "none" THEN "ok" ELSE "error"
  /\ UNCHANGED <<clientVars, upSub, hTimer, downCredit, aborted, callError,
                 produced, seq, ended, drain, registered, hostUp, netVars>>

\* The host's idle or deadline timer fires.
HostExpire ==
  /\ hTimer
  /\ hTimer' = FALSE
  /\ Abort("timeout")
  /\ upSub' = Unsubscribe(upSub)
  /\ UNCHANGED <<clientVars, hpc, produced, seq, ended, drain, recorded,
                 registered, hostUp, netVars>>

\* unregister(): stop serving the method, close the `up` of the call in flight.
HostUnregister ==
  /\ "unregister" \in Events
  /\ registered
  /\ registered' = FALSE
  /\ upSub' = Unsubscribe(upSub)
  /\ UNCHANGED <<clientVars, hpc, hTimer, downCredit, aborted, callError,
                 produced, seq, ended, drain, recorded, hostUp, netVars>>

HostConnectionCloses ==
  /\ "hostClose" \in Events
  /\ hostUp
  /\ hostUp' = FALSE
  /\ UNCHANGED <<clientVars, hpc, upSub, hTimer, downCredit, aborted, callError,
                 produced, seq, ended, drain, recorded, registered, netVars>>

-------------------------------------------------------------------------------
(* The network: core NATS.  A frame is delivered to an inbox that is         *)
(* subscribed, and dropped otherwise.                                        *)

NobodyServes == ~registered \/ ~hostUp

\* The open request is lost, or the host's subscription or connection closed
\* after NATS had passed it on: then it is dropped and nobody answers.
LoseOpen ==
  /\ openNet
  /\ \/ NobodyServes /\ UNCHANGED faults
     \/ faults < MaxFaults /\ faults' = faults + 1
  /\ openNet' = FALSE
  /\ UNCHANGED <<clientVars, hostVars, downNet, upNet>>

\* NATS finds no subscriber for the open request and says so to its reply subject,
\* which is `down`: an empty message with a status, which is not a Frame.
NoResponders ==
  /\ openNet /\ NobodyServes
  /\ openNet' = FALSE
  /\ downNet' = Append(downNet, Undecodable)
  /\ UNCHANGED <<clientVars, hostVars, upNet, faults>>

DeliverDown ==
  /\ downNet # <<>>
  /\ downNet' = Tail(downNet)
  /\ \/ /\ downSub' = Receive(downSub, Head(downNet))
        /\ UNCHANGED faults
     \/ /\ downSub' = Receive(downSub, Undecodable)
        /\ faults < MaxFaults /\ faults' = faults + 1
  /\ UNCHANGED <<cpc, cTimer, terminated, expired, clientUp, expectedSeq, got,
                 outcome, hostVars, openNet, upNet>>

LoseDown ==
  /\ downNet # <<>> /\ faults < MaxFaults
  /\ downNet' = Tail(downNet)
  /\ faults' = faults + 1
  /\ UNCHANGED <<clientVars, hostVars, openNet, upNet>>

ReceiveUp(f) == upSub' = IF hostUp THEN Receive(upSub, f) ELSE upSub

DeliverUp ==
  /\ upNet # <<>>
  /\ upNet' = Tail(upNet)
  /\ \/ ReceiveUp(Head(upNet)) /\ UNCHANGED faults
     \/ ReceiveUp(Undecodable) /\ faults < MaxFaults /\ faults' = faults + 1
  /\ UNCHANGED <<clientVars, hpc, hTimer, downCredit, aborted, callError,
                 produced, seq, ended, drain, recorded, registered, hostUp,
                 openNet, downNet>>

LoseUp ==
  /\ upNet # <<>> /\ faults < MaxFaults
  /\ upNet' = Tail(upNet)
  /\ faults' = faults + 1
  /\ UNCHANGED <<clientVars, hostVars, openNet, downNet>>

-------------------------------------------------------------------------------
(* The specification. *)

ConsumerNext == ConsumerPull \/ ConsumerAbandon \/ ConsumerSeesError

ClientTake ==
  \/ ClientTakeData \/ ClientTakeGap \/ ClientGrantThrows
  \/ ClientTakeEnd  \/ ClientTakeError \/ ClientDownClosed

HandlerNext == HostYield \/ HostEnd \/ HostFail

HostLoop == HostPublish \/ HostPublishThrows \/ HostStop \/ HostRecord

HostDrain == HostTakeCredit \/ HostTakeAbort \/ HostDrainEnds

Timeouts == ClientExpire \/ HostExpire

Environment == ClientConnectionCloses \/ HostConnectionCloses \/ HostUnregister

Network == HostAccept \/ LoseOpen \/ NoResponders
           \/ DeliverDown \/ LoseDown \/ DeliverUp \/ LoseUp

\* Both sides are done (the host never started if nobody got the open request).
Terminated ==
  /\ cpc = "done" /\ hpc \in {"idle", "done"}
  /\ UNCHANGED vars

Next ==
  \/ ClientOpen \/ ClientTake \/ ConsumerNext
  \/ HandlerNext \/ HostLoop \/ HostDrain
  \/ Timeouts \/ Environment \/ Network
  \/ Terminated

Spec == Init /\ [][Next]_vars

\* Code that is running keeps running; NATS delivers what it accepted; an armed
\* timer fires; the application keeps pulling (or leaves) and the handler keeps
\* producing (or finishes).  Nothing makes the environment's events happen.
Fairness ==
  /\ WF_vars(ClientOpen) /\ WF_vars(ClientTake) /\ WF_vars(ConsumerNext)
  /\ WF_vars(HandlerNext) /\ WF_vars(HostLoop) /\ WF_vars(HostDrain)
  /\ WF_vars(ClientExpire) /\ WF_vars(HostExpire)
  /\ WF_vars(HostAccept) /\ WF_vars(LoseOpen \/ NoResponders)
  /\ WF_vars(DeliverDown) /\ WF_vars(DeliverUp)

FairSpec == Spec /\ Fairness

-------------------------------------------------------------------------------
(* Safety. *)

\* The guarantee of flow control: at most Window DataFrames are published and
\* not yet consumed, wherever they are between the host and the application.
InFlightBound == Count(downNet, "d") + Count(downSub.queue, "d") <= Window

\* Credits are conserved: each of the Window tokens is in the host's window, held
\* by the response it is about to publish, riding `down` as a DataFrame or `up`
\* as a CreditFrame; tokens can be lost with a frame, never made.
Held == IF HoldsCredit /\ ~downCredit.cancelled THEN 1 ELSE 0

CreditConservation ==
  downCredit.credit + Held + Count(downNet, "d") + Count(downSub.queue, "d")
    + Count(upNet, "c") + Count(upSub.queue, "c") <= Window

\* The application sees the handler's outputs in order, without gap or repeat,
\* whatever frames the network lost.
DeliveredInOrder == got = [i \in 1..Len(got) |-> i]

\* A stream that ends without an error was complete: the handler finished and
\* every output it produced was delivered.
NoSilentTruncation == outcome = "ok" => ended = "e" /\ Len(got) = produced

\* Stats: a call is recorded as a success only if its EndFrame was published.
RecordedHonestly == recorded = "ok" => ended = "e"

\* Nobody has taken the call, nor will: its host has gone.
Unserved == hpc = "idle" /\ got = <<>> /\ NobodyServes

\* Without network faults the host's stats agree with the client on success, and
\* no interleaving of credits and teardown looks to the client like a lost or a
\* garbled frame: a transport error needs a closed connection, and `__serde__` is
\* what a call that nobody serves is told, never one that has begun.
AgreeOnSuccess ==
  /\ outcome = "ok" => recorded # "error" \/ faults > 0
  /\ outcome = "__transport__" => faults > 0 \/ ~clientUp
  /\ outcome = "__serde__" => faults > 0 \/ Unserved

\* Once the host knows the call is aborted (cancel, timeout, `up` fault) it
\* publishes no further DataFrame and no EndFrame.
NoOutputAfterAbort == [][aborted => seq' = seq]_vars

-------------------------------------------------------------------------------
(* Liveness. *)

\* Credit flow control never stalls a healthy call, and an application that
\* leaves its loop stops the host, with no timer to help: the call ends on both
\* sides, and what has completed for the application is a success in the stats.
CallCompletes ==
  <>(/\ cpc = "done" /\ hpc = "done"
     /\ outcome \in {"ok", "remote", "abandoned"}
     /\ outcome = "ok" => recorded = "ok")

\* With a timer enabled, whatever is lost, closed or unregistered, both sides
\* of a call that started are torn down.
TornDown == /\ cpc # "idle" ~> cpc = "done"
            /\ hpc # "idle" ~> hpc = "done"

-------------------------------------------------------------------------------
(* The call implements a bounded, ordered, honestly terminated stream. *)

Stream == INSTANCE BoundedStream WITH
  sent      <- IF ended = "e" THEN seq - 1 ELSE seq,
  delivered <- got,
  phase     <- CASE outcome = "none" -> "open"
                 [] outcome = "ok"   -> "complete"
                 [] OTHER            -> "failed"

ImplementsStream == Stream!Spec
===============================================================================
