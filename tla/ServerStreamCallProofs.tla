------------------------ MODULE ServerStreamCallProofs ------------------------
(***************************************************************************)
(* What is proved of one serverStream call, for every window, number of    *)
(* outputs, budget of faults, choice of timers and set of events: what its *)
(* application may believe.  Outputs arrive in order and without gaps, a   *)
(* normal end means that none is missing, the host's stats never call a    *)
(* failed stream a success, an aborted call publishes nothing more, client *)
(* and host agree on a success, and altogether the call implements a       *)
(* bounded, ordered, honestly terminated stream (BoundedStream).           *)
(*                                                                         *)
(* The inductive invariants, each building on the ones before:             *)
(*   TypeOK      every variable stays in its type;                         *)
(*   CreditInv   no credit is made, so InFlightBound and                   *)
(*               CreditConservation hold;                                  *)
(*   OrderInv    frames are numbered as they were produced, so             *)
(*               DeliveredInOrder, NoSilentTruncation, RecordedHonestly    *)
(*               and NoOutputAfterAbort hold;                              *)
(*   StreamInv   OrderInv and who may still speak, so ImplementsStream     *)
(*               holds;                                                    *)
(*   AgreeInv    without faults nothing is out of turn and only a client   *)
(*               that gives up cancels, so AgreeOnSuccess holds.           *)
(***************************************************************************)
EXTENDS ServerStreamCall, StreamLemmas

-------------------------------------------------------------------------------
(* Type correctness. *)

\* What a step leaves alone keeps its type.
LEMMA TypesUnchanged ==
  /\ ClientTypeOK /\ UNCHANGED clientVars => ClientTypeOK'
  /\ HostTypeOK /\ UNCHANGED hostVars => HostTypeOK'
  /\ NetTypeOK /\ UNCHANGED netVars => NetTypeOK'
<1>1. ClientTypeOK /\ UNCHANGED clientVars => ClientTypeOK'
  BY DEF ClientTypeOK, clientVars
<1>2. HostTypeOK /\ UNCHANGED hostVars => HostTypeOK'
  BY DEF HostTypeOK, hostVars
<1>3. NetTypeOK /\ UNCHANGED netVars => NetTypeOK'
  BY DEF NetTypeOK, netVars
<1> QED
  BY <1>1, <1>2, <1>3

\* Any frame the two sides build may be sent.
LEMMA SendTypes ==
  ASSUME TypeOK
  PROVE  /\ Append(upNet, CancelFrame) \in Seq(Frame)
         /\ Append(upNet, CreditFrame(1)) \in Seq(Frame)
         /\ Append(downNet, DataFrame(seq, produced)) \in Seq(Frame)
         /\ Append(downNet, EndFrame(seq)) \in Seq(Frame)
         /\ Append(downNet, ErrorFrame) \in Seq(Frame)
         /\ Append(downNet, Undecodable) \in Seq(Frame)
<1>1. /\ upNet \in Seq(Frame) /\ downNet \in Seq(Frame)
      /\ seq \in Nat /\ produced \in Nat
  BY DEF TypeOK, NetTypeOK, HostTypeOK
<1> QED
  BY <1>1, FrameTypes, AppendProperties

\* A generator's finally leaves `down` closed and may send one CancelFrame.
LEMMA ClientFinallyType ==
  ASSUME TypeOK, NEW sub \in Subscription, NEW term \in BOOLEAN,
         ClientFinally(term, sub)
  PROVE  /\ cpc' = "done" /\ cTimer' = FALSE
         /\ downSub' \in Subscription /\ downSub'.queue = sub.queue
         /\ ~downSub'.open
         /\ upNet' \in {upNet, Append(upNet, CancelFrame)}
         /\ upNet' \in Seq(Frame)
<1>1. /\ cpc' = "done" /\ cTimer' = FALSE /\ downSub' = Unsubscribe(sub)
      /\ upNet' \in {upNet, Append(upNet, CancelFrame)}
  BY DEF ClientFinally, CancelHost
<1>2. upNet \in Seq(Frame)
  BY DEF TypeOK, ClientTypeOK, NetTypeOK
<1> QED
  BY <1>1, <1>2, SendTypes, UnsubscribeLemma

\* The host's finally closes `up` and cancels the window.
LEMMA HostFinallyType ==
  ASSUME TypeOK, HostFinally
  PROVE  /\ hpc' = "closing" /\ hTimer' = FALSE
         /\ upSub' \in Subscription /\ upSub'.queue = upSub.queue
         /\ ~upSub'.open
         /\ downCredit' \in Controller /\ downCredit'.credit = downCredit.credit
         /\ downCredit'.waiters = 0 /\ downCredit'.cancelled
<1>1. upSub \in Subscription /\ downCredit \in Controller
  BY DEF TypeOK, HostTypeOK
<1> QED
  BY <1>1, UnsubscribeLemma, CancelLemma DEF HostFinally

LEMMA TypeInit == Init => TypeOK
<1> SUFFICES ASSUME Init PROVE TypeOK
  OBVIOUS
<1>1. ClientTypeOK
  BY SubscriptionStart, EmptySeq DEF Init, ClientTypeOK, Outcome
<1>2. HostTypeOK
  BY SubscriptionStart, NewControllerLemma DEF Init, HostTypeOK, CallError
<1>3. NetTypeOK
  BY EmptySeq DEF Init, NetTypeOK
<1> QED
  BY <1>1, <1>2, <1>3 DEF TypeOK

LEMMA ClientTypeStep ==
  ASSUME TypeOK, [Next]_vars
  PROVE  ClientTypeOK'
<1> USE DEF TypeOK
<1>1. CASE UNCHANGED clientVars
  BY <1>1, TypesUnchanged
<1>2. CASE ClientOpen
  BY <1>2, SubscriptionStart, TimersAssumption DEF ClientOpen, ClientTypeOK
<1>3. CASE Pulling /\ (ClientTakeData \/ ClientTakeGap \/ ClientGrantThrows
                      \/ ClientTakeEnd \/ ClientTakeError)
  <2>1. /\ Taken(downSub) \in Subscription
        /\ NextFrame(downSub).data \in Nat
    BY <1>3, TakenLemma DEF Pulling, ClientTypeOK, Frame
  <2>2. CASE ClientTakeData
    <3>1. Append(got, NextFrame(downSub).data) \in Seq(Nat)
      BY <2>1, AppendProperties DEF ClientTypeOK
    <3>2. /\ cpc' = "yielded" /\ downSub' = Taken(downSub)
          /\ expectedSeq' = expectedSeq + 1
          /\ got' = Append(got, NextFrame(downSub).data)
          /\ UNCHANGED <<cTimer, terminated, expired, clientUp, outcome>>
      BY <2>2 DEF ClientTakeData
    <3>3. expectedSeq' \in Nat
      BY <3>2 DEF ClientTypeOK
    <3> QED
      BY <2>1, <3>1, <3>2, <3>3 DEF ClientTypeOK
  <2>3. CASE ClientTakeGap
    BY <2>1, <2>3 DEF ClientTakeGap, ClientTypeOK, Outcome
  <2>4. CASE ClientGrantThrows
    BY <2>1, <2>4 DEF ClientGrantThrows, ClientTypeOK, Outcome
  <2>5. CASE ClientTakeEnd
    <3>1. /\ cpc' = "done" /\ cTimer' = FALSE /\ downSub' \in Subscription
      BY <2>1, <2>5, ClientFinallyType DEF ClientTakeEnd
    <3> QED
      BY <2>5, <3>1 DEF ClientTakeEnd, ClientTypeOK, Outcome
  <2>6. CASE ClientTakeError
    BY <2>1, <2>6 DEF ClientTakeError, ClientTypeOK, Outcome
  <2> QED
    BY <1>3, <2>2, <2>3, <2>4, <2>5, <2>6
<1>4. CASE ClientDownClosed
  BY <1>4 DEF ClientDownClosed, ClientTypeOK, Outcome
<1>5. CASE ConsumerPull
  BY <1>5 DEF ConsumerPull, ClientTypeOK
<1>6. CASE ConsumerAbandon \/ ConsumerSeesError
  <2>1. ClientFinally(terminated, downSub)
    BY <1>6 DEF ConsumerAbandon, ConsumerSeesError
  <2>2. /\ cpc' = "done" /\ cTimer' = FALSE /\ downSub' \in Subscription
    BY <2>1, ClientFinallyType DEF ClientTypeOK
  <2> QED
    BY <1>6, <2>2 DEF ConsumerAbandon, ConsumerSeesError, ClientTypeOK, Outcome
<1>7. CASE ClientExpire
  <2>1. Unsubscribe(downSub) \in Subscription
    BY UnsubscribeLemma DEF ClientTypeOK
  <2> QED
    BY <1>7, <2>1 DEF ClientExpire, ClientTypeOK
<1>8. CASE ClientConnectionCloses
  <2>1. Unsubscribe(downSub) \in Subscription
    BY UnsubscribeLemma DEF ClientTypeOK
  <2> QED
    BY <1>8, <2>1 DEF ClientConnectionCloses, ClientTypeOK
<1>9. CASE DeliverDown
  <2>1. Head(downNet) \in Frame
    BY <1>9, HeadTailProperties DEF DeliverDown, NetTypeOK
  <2>2. downSub' \in Subscription
    BY <1>9, <2>1, ReceiveLemma, FrameTypes DEF DeliverDown, ClientTypeOK
  <2> QED
    BY <1>9, <2>2 DEF DeliverDown, ClientTypeOK
<1> QED
  BY <1>1, <1>2, <1>3, <1>4, <1>5, <1>6, <1>7, <1>8, <1>9
     DEF Next, ClientTake, ConsumerNext, HandlerNext, HostLoop, HostDrain,
         Timeouts, Environment, Network, Terminated, vars,
         ClientTakeData, ClientTakeGap, ClientGrantThrows, ClientTakeEnd,
         ClientTakeError, HostYield, HostEnd, HostFail, HostPublish,
         HostPublishThrows, HostStop, HostRecord, HostTakeCredit, HostTakeAbort,
         HostDrainEnds, HostExpire, HostConnectionCloses, HostUnregister,
         HostAccept, LoseOpen, NoResponders, LoseDown, DeliverUp, LoseUp

LEMMA HostTypeStep ==
  ASSUME TypeOK, [Next]_vars
  PROVE  HostTypeOK'
<1> USE DEF TypeOK
<1>1. CASE UNCHANGED hostVars
  BY <1>1, TypesUnchanged
<1>2. CASE HostAccept
  <2>1. NewController(Window) \in Controller
    BY WindowAssumption, NewControllerLemma
  <2> QED
    BY <1>2, <2>1, SubscriptionStart, TimersAssumption DEF HostAccept, HostTypeOK
<1>3. CASE HostYield
  <2>1. Acquire(downCredit) \in Controller
    BY AcquireLemma DEF HostTypeOK
  <2> QED
    BY <1>3, <2>1 DEF HostYield, HostTypeOK
<1>4. CASE HostPublish
  BY <1>4 DEF HostPublish, HostTypeOK
<1>5. CASE HostEnd
  <2>1. /\ hpc' = "closing" /\ hTimer' = FALSE
        /\ upSub' \in Subscription /\ downCredit' \in Controller
    BY <1>5, HostFinallyType DEF HostEnd
  <2>2. /\ seq' = seq + 1 /\ ended' = "e"
        /\ UNCHANGED <<aborted, callError, produced, drain, recorded, registered, hostUp>>
    BY <1>5 DEF HostEnd
  <2>3. seq' \in Nat
    BY <2>2 DEF HostTypeOK
  <2> QED
    BY <2>1, <2>2, <2>3 DEF HostTypeOK
<1>6. CASE HostFail
  BY <1>6, HostFinallyType DEF HostFail, HostTypeOK, CallError
<1>7. CASE HostPublishThrows
  BY <1>7, HostFinallyType DEF HostPublishThrows, HostTypeOK, CallError
<1>8. CASE HostStop
  BY <1>8, HostFinallyType DEF HostStop, HostTypeOK
<1>9. CASE HostRecord
  BY <1>9 DEF HostRecord, HostTypeOK
<1>10. CASE HostTakeCredit
  <2>1. Taken(upSub) \in Subscription /\ NextFrame(upSub).data \in Nat
    BY <1>10, TakenLemma DEF HostTakeCredit, HostTypeOK, Frame
  <2>2. Grant(downCredit, NextFrame(upSub).data) \in Controller
    BY <2>1, GrantLemma DEF HostTypeOK
  <2> QED
    BY <1>10, <2>1, <2>2 DEF HostTakeCredit, HostTypeOK
<1>11. CASE HostTakeAbort
  <2>1. Taken(upSub) \in Subscription
    BY <1>11, TakenLemma DEF HostTakeAbort, HostTypeOK
  <2>2. Cancel(downCredit) \in Controller
    BY CancelLemma DEF HostTypeOK
  <2>3. callError' \in CallError
    BY <1>11 DEF HostTakeAbort, Abort, HostTypeOK, CallError
  <2> QED
    BY <1>11, <2>1, <2>2, <2>3 DEF HostTakeAbort, Abort, HostTypeOK
<1>12. CASE HostDrainEnds
  BY <1>12 DEF HostDrainEnds, HostTypeOK
<1>13. CASE HostExpire
  <2>1. Unsubscribe(upSub) \in Subscription /\ Cancel(downCredit) \in Controller
    BY UnsubscribeLemma, CancelLemma DEF HostTypeOK
  <2> QED
    BY <1>13, <2>1 DEF HostExpire, Abort, HostTypeOK, CallError
<1>14. CASE HostUnregister
  <2>1. Unsubscribe(upSub) \in Subscription
    BY UnsubscribeLemma DEF HostTypeOK
  <2> QED
    BY <1>14, <2>1 DEF HostUnregister, HostTypeOK
<1>15. CASE HostConnectionCloses
  BY <1>15 DEF HostConnectionCloses, HostTypeOK
<1>16. CASE DeliverUp
  <2>1. Head(upNet) \in Frame
    BY <1>16, HeadTailProperties DEF DeliverUp, NetTypeOK
  <2>2. upSub' \in Subscription
    BY <1>16, <2>1, ReceiveLemma, FrameTypes DEF DeliverUp, ReceiveUp, HostTypeOK
  <2> QED
    BY <1>16, <2>2 DEF DeliverUp, HostTypeOK
<1> QED
  BY <1>1, <1>2, <1>3, <1>4, <1>5, <1>6, <1>7, <1>8, <1>9, <1>10, <1>11, <1>12,
     <1>13, <1>14, <1>15, <1>16
     DEF Next, ClientTake, ConsumerNext, HandlerNext, HostLoop, HostDrain,
         Timeouts, Environment, Network, Terminated, vars, ClientOpen,
         ClientTakeData, ClientTakeGap, ClientGrantThrows, ClientTakeEnd,
         ClientTakeError, ClientDownClosed, ConsumerPull, ConsumerAbandon,
         ConsumerSeesError, ClientExpire, ClientConnectionCloses, LoseOpen, NoResponders,
         DeliverDown, LoseDown, LoseUp

LEMMA NetTypeStep ==
  ASSUME TypeOK, [Next]_vars
  PROVE  NetTypeOK'
<1> USE DEF TypeOK
<1>1. CASE UNCHANGED netVars
  BY <1>1, TypesUnchanged
<1>2. CASE ClientOpen \/ HostAccept \/ LoseOpen
  <2>1. openNet' \in BOOLEAN /\ UNCHANGED <<downNet, upNet>>
    BY <1>2 DEF ClientOpen, HostAccept, LoseOpen
  <2>2. faults' \in Nat
    BY <1>2 DEF ClientOpen, HostAccept, LoseOpen, NoResponders, NetTypeOK
  <2> QED
    BY <2>1, <2>2 DEF NetTypeOK
<1>3. CASE ClientTakeData \/ ClientTakeGap
  BY <1>3, SendTypes DEF ClientTakeData, ClientTakeGap, GrantOne, NetTypeOK
<1>4. CASE ClientTakeEnd \/ ConsumerAbandon \/ ConsumerSeesError
  <2>1. \E sub, term : ClientFinally(term, sub)
    BY <1>4 DEF ClientTakeEnd, ConsumerAbandon, ConsumerSeesError
  <2>2. upNet' \in Seq(Frame)
    BY <2>1, SendTypes DEF ClientFinally, CancelHost, NetTypeOK
  <2> QED
    BY <1>4, <2>2 DEF ClientTakeEnd, ConsumerAbandon, ConsumerSeesError, NetTypeOK
<1>5. CASE HostPublish \/ HostEnd \/ HostFail \/ NoResponders
  BY <1>5, SendTypes DEF HostPublish, HostEnd, HostFail, NoResponders, NetTypeOK
<1>6. CASE DeliverDown \/ LoseDown
  <2>1. downNet # <<>> /\ downNet' = Tail(downNet) /\ UNCHANGED <<openNet, upNet>>
    BY <1>6 DEF DeliverDown, LoseDown
  <2>2. faults' \in Nat
    BY <1>6 DEF DeliverDown, LoseDown, NetTypeOK
  <2>3. downNet' \in Seq(Frame)
    BY <2>1, HeadTailProperties DEF NetTypeOK
  <2> QED
    BY <2>1, <2>2, <2>3 DEF NetTypeOK
<1>7. CASE DeliverUp \/ LoseUp
  <2>1. upNet # <<>> /\ upNet' = Tail(upNet) /\ UNCHANGED <<openNet, downNet>>
    BY <1>7 DEF DeliverUp, LoseUp
  <2>2. faults' \in Nat
    BY <1>7 DEF DeliverUp, LoseUp, NetTypeOK
  <2>3. upNet' \in Seq(Frame)
    BY <2>1, HeadTailProperties DEF NetTypeOK
  <2> QED
    BY <2>1, <2>2, <2>3 DEF NetTypeOK
<1> QED
  BY <1>1, <1>2, <1>3, <1>4, <1>5, <1>6, <1>7
     DEF Next, ClientTake, ConsumerNext, HandlerNext, HostLoop, HostDrain,
         Timeouts, Environment, Network, Terminated, vars, netVars,
         ClientGrantThrows, ClientTakeError, ClientDownClosed, ConsumerPull,
         HostYield, HostPublishThrows, HostStop, HostRecord, HostTakeCredit,
         HostTakeAbort, HostDrainEnds, ClientExpire, HostExpire,
         ClientConnectionCloses, HostConnectionCloses, HostUnregister

LEMMA TypeStep == TypeOK /\ [Next]_vars => TypeOK'
BY ClientTypeStep, HostTypeStep, NetTypeStep DEF TypeOK

\* The state of a call always has its type: in particular the window never goes
\* negative, however credits, timers, cancels and lost frames interleave.
THEOREM TypeCorrect == Spec => []TypeOK
BY TypeInit, TypeStep, PTL DEF Spec

-------------------------------------------------------------------------------
(* Flow control.  CreditConservation is not inductive by itself: accepting   *)
(* the call fills the window, so nothing may be in flight before it; a grant *)
(* may wake one sender, so only the producer that is acquiring may be        *)
(* parked; and a cancelled window lets senders through without a credit, so  *)
(* it must be cancelled only where nothing is published any more.            *)

\* Nothing is on its way to the client.
Silent == downNet = <<>> /\ downSub.queue = <<>>

\* The host has not started: nothing of the call is under way on its side, and
\* all that the client may get to read is that nobody serves it.
Untouched ==
  /\ \A f \in Members(downNet) \cup Members(downSub.queue) : f = Undecodable
  /\ upSub.queue = <<>> /\ upSub.open = FALSE
  /\ Count(upNet, "c") = 0
  /\ drain = "off" /\ hTimer = FALSE

CallControl ==
  /\ cpc = "idle" => hpc = "idle" /\ openNet = FALSE /\ Silent
  /\ openNet = TRUE => hpc = "idle" /\ Silent
  /\ hpc = "idle" => Untouched

WindowControl ==
  /\ downCredit.waiters <= 1
  /\ hpc # "acquiring" => downCredit.waiters = 0
  /\ downCredit.cancelled = TRUE => aborted = TRUE \/ hpc \in {"closing", "done"}

\* Every CreditFrame grants exactly one credit.
UpFrame == {f \in Frame : f.t = "c" => f.data = 1}

UpFrames == upNet \in Seq(UpFrame) /\ upSub.queue \in Seq(UpFrame)

\* What the host has not published yet, and what is under way in each direction.
AtHost == downCredit.credit + Held
OnDown == Count(downNet, "d") + Count(downSub.queue, "d")
OnUp   == Count(upNet, "c") + Count(upSub.queue, "c")

\* CreditConservation, with its six terms grouped by where the token is.
TokenBound == AtHost + OnDown + OnUp <= Window

CreditInv == CallControl /\ WindowControl /\ UpFrames /\ TokenBound

\* The terms of CreditConservation are natural numbers.
LEMMA CountTypes ==
  ASSUME TypeOK
  PROVE  /\ downNet \in Seq(Frame) /\ downSub.queue \in Seq(Frame)
         /\ upNet \in Seq(Frame) /\ upSub.queue \in Seq(Frame)
         /\ Count(downNet, "d") \in Nat /\ Count(downSub.queue, "d") \in Nat
         /\ Count(upNet, "c") \in Nat /\ Count(upSub.queue, "c") \in Nat
         /\ downCredit.credit \in Nat /\ downCredit.waiters \in Nat
         /\ downCredit.cancelled \in BOOLEAN
         /\ Held \in {0, 1}
<1>1. /\ downNet \in Seq(Frame) /\ downSub.queue \in Seq(Frame)
      /\ upNet \in Seq(Frame) /\ upSub.queue \in Seq(Frame)
  BY DEF TypeOK, ClientTypeOK, HostTypeOK, NetTypeOK, Subscription
<1>2. /\ downCredit.credit \in Nat /\ downCredit.waiters \in Nat
      /\ downCredit.cancelled \in BOOLEAN
  BY DEF TypeOK, HostTypeOK, Controller
<1>3. Held \in {0, 1}
  BY DEF Held
<1> QED
  BY <1>1, <1>2, <1>3, CountType

LEMMA CreditInit == Init => CreditInv
<1> SUFFICES ASSUME Init PROVE CreditInv
  OBVIOUS
<1>1. CallControl
  <2>1. Members(downNet) = {} /\ Members(downSub.queue) = {}
    BY SubscriptionStart DEF Init, Members
  <2> QED
    BY <2>1, SubscriptionStart, CountEmpty DEF Init, CallControl, Untouched, Silent
<1>2. WindowControl
  <2>1. downCredit.waiters = 0 /\ downCredit.cancelled = FALSE
    BY NewControllerLemma DEF Init
  <2> QED
    BY <2>1 DEF WindowControl
<1>3. UpFrames
  BY SubscriptionStart, EmptySeq DEF Init, UpFrames
<1>4. TokenBound
  <2>1. Held = 0 /\ downCredit.credit = 0
    BY NewControllerLemma DEF Init, Held, HoldsCredit
  <2>2. /\ downNet = <<>> /\ upNet = <<>>
        /\ downSub.queue = <<>> /\ upSub.queue = <<>>
    BY SubscriptionStart DEF Init
  <2>3. AtHost = 0 /\ OnDown = 0 /\ OnUp = 0
    BY <2>1, <2>2, CountEmpty DEF AtHost, OnDown, OnUp
  <2> QED
    BY <2>3, WindowAssumption DEF TokenBound
<1> QED
  BY <1>1, <1>2, <1>3, <1>4 DEF CreditInv

\* Accepting the open request is the only way out of Untouched; until then no
\* frame of the host exists, so the client has nothing to grant.
LEMMA CallControlStep ==
  ASSUME TypeOK, CallControl, [Next]_vars
  PROVE  CallControl'
<1>1. /\ upNet \in Seq(Frame) /\ upSub \in Subscription /\ downSub \in Subscription
      /\ openNet \in BOOLEAN /\ downNet \in Seq(Frame) /\ downSub.queue \in Seq(Frame)
  BY DEF TypeOK, ClientTypeOK, HostTypeOK, NetTypeOK, Subscription
<1>2. CASE ClientOpen
  <2>1. /\ downNet' = <<>> /\ downSub'.queue = <<>> /\ cpc' = "pulling" /\ hpc = "idle"
        /\ UNCHANGED hostVars /\ UNCHANGED upNet
    BY <1>2, SubscriptionStart DEF ClientOpen, CallControl, Silent
  <2>2. Members(downNet') = {} /\ Members(downSub'.queue) = {}
    BY <2>1 DEF Members
  <2> QED
    BY <2>1, <2>2 DEF CallControl, Untouched, Silent, hostVars
<1>3. CASE Pulling /\ (ClientTakeData \/ ClientTakeGap \/ ClientGrantThrows
                      \/ ClientTakeEnd \/ ClientTakeError)
  <2>1. cpc' # "idle" /\ openNet = FALSE /\ downSub.queue # <<>>
    BY <1>1, <1>3 DEF Pulling, HasFrame, CallControl, Silent, ClientTakeData,
       ClientTakeGap, ClientGrantThrows, ClientTakeEnd, ClientTakeError, ClientFinally
  <2>2. hpc' = hpc /\ openNet' = openNet
    BY <1>3 DEF ClientTakeData, ClientTakeGap, ClientGrantThrows, ClientTakeEnd,
       ClientTakeError, hostVars, netVars
  <2>3. CASE hpc # "idle"
    BY <2>1, <2>2, <2>3 DEF CallControl
  <2>4. CASE hpc = "idle"
    <3>1. NextFrame(downSub) \in Members(downSub.queue)
      BY <1>1, <2>1, MembersMove DEF NextFrame
    <3>2. NextFrame(downSub).t = "bad"
      BY <2>4, <3>1 DEF CallControl, Untouched, Undecodable
    <3>3. ClientTakeError
      BY <1>3, <3>2 DEF ClientTakeData, ClientTakeGap, ClientGrantThrows, ClientTakeEnd
    <3>4. /\ downSub'.queue = Tail(downSub.queue)
          /\ UNCHANGED hostVars /\ UNCHANGED netVars
      BY <1>1, <1>3, <3>3, TakenLemma DEF ClientTakeError, Pulling
    <3>5. Members(downSub'.queue) \subseteq Members(downSub.queue)
      BY <1>1, <2>1, <3>4, MembersMove
    <3> QED
      BY <2>1, <2>2, <2>4, <3>4, <3>5 DEF CallControl, Untouched, hostVars, netVars
  <2> QED
    BY <2>3, <2>4
<1>4. CASE ClientDownClosed \/ ConsumerPull \/ ClientExpire \/ ClientConnectionCloses
  <2>1. cpc # "idle" => cpc' # "idle"
    BY <1>4 DEF ClientDownClosed, ConsumerPull, ClientExpire, ClientConnectionCloses
  <2>2. downSub'.queue = downSub.queue
    BY <1>1, <1>4, UnsubscribeLemma
       DEF ClientDownClosed, ConsumerPull, ClientExpire, ClientConnectionCloses
  <2>3. UNCHANGED <<hostVars, netVars>>
    BY <1>4 DEF ClientDownClosed, ConsumerPull, ClientExpire, ClientConnectionCloses
  <2>4. cpc' = "idle" => cpc = "idle"
    BY <2>1
  <2> QED
    BY <2>2, <2>3, <2>4 DEF CallControl, Untouched, Silent, hostVars, netVars
<1>5. CASE ConsumerAbandon \/ ConsumerSeesError
  <2>1. ClientFinally(terminated, downSub) /\ UNCHANGED <<hostVars, openNet, downNet>>
    BY <1>5 DEF ConsumerAbandon, ConsumerSeesError
  <2>2. cpc' = "done" /\ downSub'.queue = downSub.queue
    BY <1>1, <2>1, UnsubscribeLemma DEF ClientFinally
  <2>3. Count(upNet', "c") = Count(upNet, "c")
    <3>1. upNet' \in {upNet, Append(upNet, CancelFrame)}
      BY <2>1 DEF ClientFinally, CancelHost
    <3>2. Count(Append(upNet, CancelFrame), "c") = Count(upNet, "c") + 0
      BY <1>1, FrameTypes, CountAppend DEF CancelFrame
    <3>3. Count(upNet, "c") \in Nat
      BY <1>1, CountType
    <3>4. Count(upNet, "c") + 0 = Count(upNet, "c")
      BY <3>3
    <3> QED
      BY <3>1, <3>2, <3>4, Zenon
  <2> QED
    BY <2>1, <2>2, <2>3 DEF CallControl, Untouched, Silent, hostVars
<1>6. CASE HostAccept
  BY <1>1, <1>6 DEF HostAccept, CallControl, clientVars
<1>7. CASE HandlerNext \/ HostLoop \/ HostDrain
  <2>1. hpc # "idle" /\ hpc' # "idle"
    BY <1>7 DEF HandlerNext, HostYield, HostEnd, HostFail, HostLoop, HostPublish,
       HostPublishThrows, HostStop, HostRecord, MayPublish, HoldsCredit, HostFinally,
       HostDrain, HostTakeCredit, HostTakeAbort, HostDrainEnds, CallControl, Untouched
  <2>2. cpc' = cpc /\ openNet' = openNet
    BY <1>7 DEF HandlerNext, HostYield, HostEnd, HostFail, HostLoop, HostPublish,
       HostPublishThrows, HostStop, HostRecord,
       HostDrain, HostTakeCredit, HostTakeAbort, HostDrainEnds, clientVars, netVars
  <2> QED
    BY <2>1, <2>2 DEF CallControl
<1>8. CASE HostExpire \/ HostUnregister \/ HostConnectionCloses
  <2>1. /\ UNCHANGED <<hpc, drain>> /\ UNCHANGED clientVars /\ UNCHANGED netVars
        /\ hTimer' \in {hTimer, FALSE}
        /\ upSub' \in {upSub, Unsubscribe(upSub)}
    BY <1>8 DEF HostExpire, HostUnregister, HostConnectionCloses
  <2>2. upSub'.queue = upSub.queue /\ (upSub.open = FALSE => upSub'.open = FALSE)
    BY <1>1, <2>1, UnsubscribeLemma
  <2> QED
    BY <2>1, <2>2 DEF CallControl, Untouched, Silent, clientVars, netVars
<1>9. CASE LoseOpen \/ NoResponders
  <2>1. /\ hpc = "idle" /\ cpc # "idle" /\ Silent /\ openNet' = FALSE
        /\ UNCHANGED clientVars /\ UNCHANGED hostVars /\ UNCHANGED upNet
        /\ downNet' \in {downNet, Append(downNet, Undecodable)}
    BY <1>1, <1>9 DEF LoseOpen, NoResponders, CallControl
  <2>2. Members(downNet') \subseteq Members(downNet) \cup {Undecodable}
    BY <1>1, <2>1, FrameTypes, MembersMove
  <2> QED
    BY <2>1, <2>2 DEF CallControl, Untouched, clientVars, hostVars
<1>10. CASE DeliverDown \/ LoseDown
  <2>1. /\ cpc # "idle" /\ openNet = FALSE /\ cpc' = cpc /\ openNet' = openNet
        /\ UNCHANGED hostVars /\ UNCHANGED upNet
        /\ downNet # <<>> /\ downNet' = Tail(downNet)
        /\ downSub' \in {downSub, Receive(downSub, Head(downNet)),
                         Receive(downSub, Undecodable)}
    BY <1>1, <1>10 DEF DeliverDown, LoseDown, CallControl, Silent, clientVars
  <2>2. /\ Head(downNet) \in Frame /\ Undecodable \in Frame
        /\ Head(downNet) \in Members(downNet)
        /\ Members(Tail(downNet)) \subseteq Members(downNet)
    BY <1>1, <2>1, FrameTypes, HeadTailProperties, MembersMove
  <2>3. ASSUME NEW f \in Frame
        PROVE  Members(Receive(downSub, f).queue) \subseteq Members(downSub.queue) \cup {f}
    <3>1. Members(Append(downSub.queue, f)) = Members(downSub.queue) \cup {f}
      BY <1>1, MembersMove
    <3>2. Receive(downSub, f).queue \in {downSub.queue, Append(downSub.queue, f)}
      BY <1>1, ReceiveLemma
    <3> QED
      BY <3>1, <3>2
  <2>4. Members(downNet') \cup Members(downSub'.queue)
          \subseteq Members(downNet) \cup Members(downSub.queue) \cup {Undecodable}
    BY <2>1, <2>2, <2>3
  <2> QED
    BY <2>1, <2>4 DEF CallControl, Untouched, hostVars
<1>11. CASE DeliverUp \/ LoseUp
  <2>1. /\ upNet # <<>> /\ upNet' = Tail(upNet)
        /\ UNCHANGED <<hpc, drain, hTimer, openNet, downNet>> /\ UNCHANGED clientVars
    BY <1>11 DEF DeliverUp, LoseUp, hostVars
  <2>2. Count(upNet, "c") = 0 => Count(upNet', "c") = 0
    <3>1. upNet' \in Seq(Frame)
      BY <1>1, <2>1, HeadTailProperties
    <3>2. Count(upNet', "c") \in Nat /\ Count(upNet, "c") \in Nat
      BY <1>1, <3>1, CountType
    <3> QED
      BY <1>1, <2>1, <3>2, CountTail
  <2>3. \A f : upSub.open = FALSE => Receive(upSub, f) = upSub
    BY DEF Receive
  <2>4. upSub.open = FALSE => upSub' = upSub
    BY <1>11, <2>3 DEF DeliverUp, LoseUp, ReceiveUp, hostVars
  <2> QED
    BY <2>1, <2>2, <2>4 DEF CallControl, Untouched, Silent, clientVars
<1>12. CASE UNCHANGED vars
  BY <1>12 DEF vars, clientVars, hostVars, netVars, CallControl, Untouched, Silent
<1> QED
  BY <1>2, <1>3, <1>4, <1>5, <1>6, <1>7, <1>8, <1>9, <1>10, <1>11, <1>12
     DEF Next, ClientTake, ConsumerNext, Timeouts, Environment, Network,
         Terminated, ClientTakeData, ClientTakeGap, ClientGrantThrows,
         ClientTakeEnd, ClientTakeError

\* The producer parks one acquire() at a time, and whoever cancels the window has
\* aborted the call or left its loop.
LEMMA WindowControlStep ==
  ASSUME TypeOK, CallControl, WindowControl, [Next]_vars
  PROVE  WindowControl'
<1>1. /\ downCredit \in Controller
      /\ downCredit.waiters \in Nat /\ downCredit.credit \in Nat
  BY CountTypes DEF TypeOK, HostTypeOK
<1>2. CASE UNCHANGED <<downCredit, hpc, aborted>>
  BY <1>2 DEF WindowControl
<1>3. CASE HostAccept
  <2>1. downCredit'.waiters = 0 /\ downCredit'.cancelled = FALSE
    BY <1>3, NewControllerLemma, WindowAssumption DEF HostAccept
  <2> QED
    BY <2>1 DEF WindowControl
<1>4. CASE HostYield
  <2>1. /\ hpc = "handler" /\ hpc' = "acquiring" /\ aborted' = aborted
        /\ downCredit' = Acquire(downCredit)
    BY <1>4 DEF HostYield
  <2>2. downCredit.waiters = 0 /\ (downCredit.cancelled = TRUE => aborted = TRUE)
    BY <2>1 DEF WindowControl
  <2>3. downCredit'.cancelled = downCredit.cancelled
    BY <1>1, <2>1, AcquireLemma
  <2>4. downCredit'.waiters \in {0, 1}
    <3>1. CASE downCredit.cancelled
      BY <1>1, <2>1, <2>2, <3>1, AcquireLemma
    <3>2. CASE ~downCredit.cancelled /\ downCredit.credit > 0
      BY <1>1, <2>1, <2>2, <3>2, AcquireLemma
    <3>3. CASE ~downCredit.cancelled /\ downCredit.credit = 0
      BY <1>1, <2>1, <2>2, <3>3, AcquireLemma
    <3> QED
      BY <1>1, <3>1, <3>2, <3>3
  <2>5. downCredit'.waiters <= 1
    BY <2>4
  <2> QED
    BY <2>1, <2>2, <2>3, <2>5 DEF WindowControl
<1>5. CASE HostPublish
  <2>1. /\ downCredit' = downCredit /\ aborted' = aborted /\ aborted = FALSE
        /\ hpc = "acquiring" /\ hpc' = "handler" /\ ~(downCredit.waiters > 0)
    BY <1>5 DEF HostPublish, MayPublish, HoldsCredit, Parked, TypeOK, HostTypeOK
  <2>2. downCredit'.waiters = 0
    BY <1>1, <2>1
  <2> QED
    BY <2>1, <2>2 DEF WindowControl
<1>6. CASE HostEnd \/ HostFail \/ HostPublishThrows \/ HostStop
  <2>1. HostFinally
    BY <1>6 DEF HostEnd, HostFail, HostPublishThrows, HostStop
  <2>2. hpc' = "closing" /\ downCredit'.waiters = 0
    BY <2>1, HostFinallyType
  <2> QED
    BY <2>2 DEF WindowControl
<1>7. CASE HostRecord
  BY <1>7 DEF HostRecord, WindowControl
<1>8. CASE HostTakeCredit
  <2>1. /\ downCredit' = Grant(downCredit, NextFrame(upSub).data)
        /\ hpc' = hpc /\ aborted' = aborted
    BY <1>8 DEF HostTakeCredit
  <2>2. NextFrame(upSub).data \in Nat
    BY <1>8, TakenLemma DEF HostTakeCredit, TypeOK, HostTypeOK, Frame
  <2>3. /\ downCredit'.cancelled = downCredit.cancelled
        /\ downCredit'.waiters <= downCredit.waiters /\ downCredit'.waiters \in Nat
    BY <1>1, <2>1, <2>2, GrantLemma DEF Controller
  <2>4. /\ downCredit.waiters <= 1 => downCredit'.waiters <= 1
        /\ downCredit.waiters = 0 => downCredit'.waiters = 0
    BY <1>1, <2>3
  <2> QED
    BY <2>1, <2>3, <2>4 DEF WindowControl
<1>9. CASE HostTakeAbort \/ HostExpire
  <2>1. hpc' = hpc /\ aborted' = TRUE /\ downCredit' = Cancel(downCredit)
    BY <1>9 DEF HostTakeAbort, HostExpire, Abort
  <2>2. downCredit'.waiters = 0
    BY <1>1, <2>1, CancelLemma
  <2> QED
    BY <2>1, <2>2 DEF WindowControl
<1> QED
  BY <1>2, <1>3, <1>4, <1>5, <1>6, <1>7, <1>8, <1>9
     DEF Next, ClientTake, ConsumerNext, HandlerNext, HostLoop, HostDrain,
         Timeouts, Environment, Network, Terminated, vars, hostVars, ClientOpen,
         ClientTakeData, ClientTakeGap, ClientGrantThrows, ClientTakeEnd,
         ClientTakeError, ClientDownClosed, ConsumerPull, ConsumerAbandon,
         ConsumerSeesError, ClientExpire, ClientConnectionCloses, HostDrainEnds,
         HostUnregister, HostConnectionCloses, LoseOpen, NoResponders, DeliverDown, LoseDown,
         DeliverUp, LoseUp

\* The client grants one credit at a time, and the network only drops or garbles.
LEMMA UpFramesStep ==
  ASSUME TypeOK, UpFrames, [Next]_vars
  PROVE  UpFrames'
<1>1. /\ upNet \in Seq(UpFrame) /\ upSub.queue \in Seq(UpFrame)
      /\ upSub \in Subscription
  BY DEF UpFrames, TypeOK, HostTypeOK
<1>2. /\ CreditFrame(1) \in UpFrame /\ CancelFrame \in UpFrame
      /\ Undecodable \in UpFrame
  BY FrameTypes DEF UpFrame, CreditFrame, CancelFrame, Undecodable
<1>3. /\ Append(upNet, CreditFrame(1)) \in Seq(UpFrame)
      /\ Append(upNet, CancelFrame) \in Seq(UpFrame)
  BY <1>1, <1>2, AppendProperties
<1>4. CASE UNCHANGED <<upNet, upSub>>
  BY <1>1, <1>4 DEF UpFrames
<1>5. CASE ClientTakeData \/ ClientTakeGap
  <2>1. upNet' \in {upNet, Append(upNet, CreditFrame(1))} /\ upSub' = upSub
    BY <1>5 DEF ClientTakeData, ClientTakeGap, GrantOne, hostVars
  <2> QED
    BY <1>1, <1>3, <2>1 DEF UpFrames
<1>6. CASE ClientTakeEnd \/ ConsumerAbandon \/ ConsumerSeesError
  <2>1. upNet' \in {upNet, Append(upNet, CancelFrame)} /\ upSub' = upSub
    BY <1>6 DEF ClientTakeEnd, ConsumerAbandon, ConsumerSeesError, ClientFinally,
       CancelHost, hostVars
  <2> QED
    BY <1>1, <1>3, <2>1 DEF UpFrames
<1>7. CASE HostAccept
  <2>1. upNet' = upNet /\ upSub' = Subscribed
    BY <1>7 DEF HostAccept
  <2> QED
    BY <1>1, <2>1, SubscriptionStart, EmptySeq DEF UpFrames
<1>8. CASE HostEnd \/ HostFail \/ HostPublishThrows \/ HostStop
           \/ HostExpire \/ HostUnregister
  <2>1. upNet' = upNet /\ upSub' \in {upSub, Unsubscribe(upSub)}
    BY <1>8 DEF HostEnd, HostFail, HostPublishThrows, HostStop, HostExpire,
       HostUnregister, HostFinally, netVars
  <2> QED
    BY <1>1, <2>1, UnsubscribeLemma DEF UpFrames
<1>9. CASE HostTakeCredit \/ HostTakeAbort
  <2>1. upNet' = upNet /\ upSub' = Taken(upSub) /\ HasFrame(upSub)
    BY <1>9 DEF HostTakeCredit, HostTakeAbort, netVars
  <2>2. upSub.queue # <<>> /\ upSub'.queue = Tail(upSub.queue)
    BY <1>1, <2>1, TakenLemma
  <2> QED
    BY <1>1, <2>1, <2>2, HeadTailProperties DEF UpFrames
<1>10. CASE DeliverUp \/ LoseUp
  <2>1. /\ upNet # <<>> /\ upNet' = Tail(upNet)
        /\ upSub' \in {upSub, Receive(upSub, Head(upNet)), Receive(upSub, Undecodable)}
    BY <1>10 DEF DeliverUp, LoseUp, ReceiveUp, hostVars
  <2>2. Tail(upNet) \in Seq(UpFrame) /\ Head(upNet) \in UpFrame
    BY <1>1, <2>1, HeadTailProperties
  <2>3. \A f \in UpFrame : Receive(upSub, f).queue \in Seq(UpFrame)
    <3> TAKE f \in UpFrame
    <3>1. f \in Frame
      BY DEF UpFrame
    <3>2. Append(upSub.queue, f) \in Seq(UpFrame)
      BY <1>1, AppendProperties
    <3> QED
      BY <1>1, <3>1, <3>2, ReceiveLemma
  <2> QED
    BY <1>1, <1>2, <2>1, <2>2, <2>3 DEF UpFrames
<1> QED
  BY <1>4, <1>5, <1>6, <1>7, <1>8, <1>9, <1>10
     DEF Next, ClientTake, ConsumerNext, HandlerNext, HostLoop, HostDrain,
         Timeouts, Environment, Network, Terminated, vars, hostVars, netVars,
         ClientOpen, ClientGrantThrows, ClientTakeError, ClientDownClosed,
         ConsumerPull, HostYield, HostPublish, HostRecord, HostDrainEnds,
         ClientExpire, ClientConnectionCloses, HostConnectionCloses, LoseOpen, NoResponders,
         DeliverDown, LoseDown

LEMMA CreditTotals ==
  ASSUME TypeOK
  PROVE  /\ AtHost \in Nat /\ OnDown \in Nat /\ OnUp \in Nat
         /\ AtHost + OnDown + OnUp
              = downCredit.credit + Held + Count(downNet, "d")
                  + Count(downSub.queue, "d") + Count(upNet, "c")
                  + Count(upSub.queue, "c")
<1>1. /\ Held \in Nat /\ downCredit.credit \in Nat
      /\ Count(downNet, "d") \in Nat /\ Count(downSub.queue, "d") \in Nat
      /\ Count(upNet, "c") \in Nat /\ Count(upSub.queue, "c") \in Nat
  BY CountTypes
<1>2. AtHost \in Nat /\ OnDown \in Nat /\ OnUp \in Nat
  BY <1>1 DEF AtHost, OnDown, OnUp
<1> QED
  BY <1>1, <1>2 DEF AtHost, OnDown, OnUp

\* Taking a frame from `down` removes its token from that direction.
LEMMA TakeDown ==
  ASSUME TypeOK, HasFrame(downSub), downSub'.queue = Tail(downSub.queue),
         UNCHANGED downNet
  PROVE  OnDown' = OnDown - (IF NextFrame(downSub).t = "d" THEN 1 ELSE 0)
<1>1. downSub.queue # <<>> /\ downSub.queue \in Seq(Frame)
  BY CountTypes DEF HasFrame
<1>2. Count(downSub.queue', "d")
        = Count(downSub.queue, "d") - (IF NextFrame(downSub).t = "d" THEN 1 ELSE 0)
  BY <1>1, CountTail DEF NextFrame
<1> QED
  BY <1>2, CountTypes DEF OnDown

\* A frame published on `up` carries a token only if it is a CreditFrame.
LEMMA SendUp ==
  ASSUME TypeOK, NEW f \in Frame, upNet' = Append(upNet, f), UNCHANGED upSub
  PROVE  OnUp' = OnUp + (IF f.t = "c" THEN 1 ELSE 0)
<1>1. Count(upNet', "c") = Count(upNet, "c") + (IF f.t = "c" THEN 1 ELSE 0)
  BY CountTypes, CountAppend
<1> QED
  BY <1>1, CountTypes DEF OnUp

\* A client that leaves publishes no CreditFrame.
LEMMA LeaveUp ==
  ASSUME TypeOK, NEW sub \in Subscription, NEW term \in BOOLEAN,
         ClientFinally(term, sub), UNCHANGED upSub
  PROVE  OnUp' = OnUp
<1>1. upNet' \in {upNet, Append(upNet, CancelFrame)}
  BY ClientFinallyType
<1>2. CASE upNet' = upNet
  BY <1>2 DEF OnUp
<1>3. CASE upNet' = Append(upNet, CancelFrame)
  <2>1. OnUp' = OnUp + (IF CancelFrame.t = "c" THEN 1 ELSE 0)
    BY <1>3, FrameTypes, SendUp
  <2>2. CancelFrame.t # "c"
    BY DEF CancelFrame
  <2>3. OnUp \in Nat
    BY CreditTotals
  <2> QED
    BY <2>1, <2>2, <2>3
<1> QED
  BY <1>1, <1>2, <1>3

\* The host's finally gives up the credit it may hold.
LEMMA FinallyAtHost ==
  ASSUME TypeOK, HostFinally
  PROVE  AtHost' <= AtHost
<1>1. /\ downCredit'.credit = downCredit.credit /\ downCredit'.cancelled
      /\ upSub'.queue = upSub.queue
  BY HostFinallyType
<1>2. Held' = 0
  BY <1>1 DEF Held
<1> QED
  BY <1>1, <1>2, CountTypes DEF AtHost

\* A frame published on `down` carries a token only if it is a DataFrame.
LEMMA SendDown ==
  ASSUME TypeOK, NEW f \in Frame, downNet' = Append(downNet, f), UNCHANGED downSub
  PROVE  OnDown' = OnDown + (IF f.t = "d" THEN 1 ELSE 0)
<1>1. Count(downNet', "d") = Count(downNet, "d") + (IF f.t = "d" THEN 1 ELSE 0)
  BY CountTypes, CountAppend
<1> QED
  BY <1>1, CountTypes DEF OnDown

\* Delivery moves a frame from the wire to the queue, or loses it.
LEMMA CountDeliver ==
  ASSUME NEW net \in Seq(Frame), net # <<>>, NEW sub \in Subscription, NEW tag \in {"d", "c"},
         NEW subNew \in {sub, Receive(sub, Head(net)), Receive(sub, Undecodable)}
  PROVE  Count(Tail(net), tag) + Count(subNew.queue, tag)
           <= Count(net, tag) + Count(sub.queue, tag)
<1>1. /\ Head(net) \in Frame /\ Tail(net) \in Seq(Frame)
      /\ sub.queue \in Seq(Frame) /\ Undecodable \in Frame
  BY HeadTailProperties, FrameTypes DEF Subscription
<1> DEFINE h == IF Head(net).t = tag THEN 1 ELSE 0
<1>2. /\ Count(net, tag) \in Nat /\ Count(sub.queue, tag) \in Nat
  BY <1>1, CountType
<1>3. Count(Tail(net), tag) = Count(net, tag) - h
  BY CountTail
<1>4. Count(Append(sub.queue, Head(net)), tag) = Count(sub.queue, tag) + h
  BY <1>1, CountAppend
<1>5. Count(Append(sub.queue, Undecodable), tag) = Count(sub.queue, tag) + 0
  <2>1. Undecodable.t # tag
    BY DEF Undecodable
  <2> QED
    BY <1>1, <2>1, CountAppend
<1>6. subNew.queue \in {sub.queue, Append(sub.queue, Head(net)),
                        Append(sub.queue, Undecodable)}
  BY <1>1, ReceiveLemma
<1>7. h \in {0, 1}
  OBVIOUS
<1> HIDE DEF h
<1>8. CASE subNew.queue = sub.queue
  BY <1>2, <1>3, <1>7, <1>8
<1>9. CASE subNew.queue = Append(sub.queue, Head(net))
  BY <1>2, <1>3, <1>4, <1>7, <1>9
<1>10. CASE subNew.queue = Append(sub.queue, Undecodable)
  BY <1>2, <1>3, <1>5, <1>7, <1>10
<1> QED
  BY <1>6, <1>8, <1>9, <1>10

\* How a step moves the tokens: accepting the call fills the window, publishing
\* spends a credit, consuming sends one back, drainUp returns it, and any other
\* step at most loses some.
Accepted  == AtHost' = Window /\ OnDown' = 0 /\ OnUp' = 0
Published == AtHost' = AtHost - 1 /\ OnDown' = OnDown + 1 /\ OnUp' = OnUp
Consumed  == AtHost' = AtHost /\ OnDown' = OnDown - 1 /\ OnUp' = OnUp + 1
Returned  == AtHost' <= AtHost + 1 /\ OnDown' = OnDown /\ OnUp' = OnUp - 1
NoneMade  == AtHost' <= AtHost /\ OnDown' <= OnDown /\ OnUp' <= OnUp

\* The published response held a credit.
LEMMA PublishMoves ==
  ASSUME TypeOK, CreditInv, HostPublish
  PROVE  Held = 1 /\ Published
<1>1. /\ HoldsCredit /\ ~aborted /\ hpc = "acquiring" /\ hpc' = "handler"
      /\ downCredit' = downCredit /\ UNCHANGED <<downSub, upNet, upSub>>
      /\ downNet' = Append(downNet, DataFrame(seq, produced))
  BY DEF HostPublish, MayPublish, HoldsCredit, clientVars
<1>2. aborted \in BOOLEAN /\ ~downCredit.cancelled
  BY <1>1, CountTypes DEF CreditInv, WindowControl, TypeOK, HostTypeOK
<1>3. Held = 1 /\ Held' = 0
  BY <1>1, <1>2 DEF Held, HoldsCredit
<1>4. OnDown' = OnDown + 1
  <2>1. DataFrame(seq, produced) \in Frame /\ DataFrame(seq, produced).t = "d"
    BY FrameTypes DEF TypeOK, HostTypeOK, DataFrame
  <2> QED
    BY <1>1, <2>1, SendDown
<1>5. AtHost' = AtHost - 1
  BY <1>1, <1>3, CountTypes DEF AtHost
<1>6. OnUp' = OnUp
  BY <1>1 DEF OnUp
<1> QED
  BY <1>3, <1>4, <1>5, <1>6 DEF Published

\* An output taken from `down` is granted at once, in sequence or not.
LEMMA ConsumeMoves ==
  ASSUME TypeOK, ClientTakeData \/ ClientTakeGap, NextFrame(downSub).t = "d"
  PROVE  Consumed
<1>1. downSub \in Subscription
  BY DEF TypeOK, ClientTypeOK
<1>2. /\ HasFrame(downSub) /\ downSub' = Taken(downSub) /\ UNCHANGED downNet
      /\ UNCHANGED hostVars /\ upNet' = Append(upNet, CreditFrame(1))
  BY DEF ClientTakeData, ClientTakeGap, Pulling, GrantOne
<1>3. OnDown' = OnDown - 1
  BY <1>1, <1>2, TakenLemma, TakeDown
<1>4. OnUp' = OnUp + 1
  <2>1. upSub' = upSub
    BY <1>2 DEF hostVars
  <2>2. OnUp' = OnUp + (IF CreditFrame(1).t = "c" THEN 1 ELSE 0)
    BY <1>2, <2>1, FrameTypes, SendUp
  <2> QED
    BY <2>2 DEF CreditFrame
<1>5. AtHost' = AtHost
  BY <1>2 DEF hostVars, AtHost, Held, HoldsCredit
<1> QED
  BY <1>3, <1>4, <1>5 DEF Consumed

\* The other steps: drainUp may return one token, and a frame of `down` or `up` may
\* be lost or dropped with its token.
LEMMA OtherMoves ==
  ASSUME TypeOK, CreditInv, [Next]_vars, ~HostPublish, ~ClientTakeData
  PROVE  \/ HostAccept /\ Accepted
         \/ ClientTakeGap /\ Consumed
         \/ Returned
         \/ NoneMade
<1>1. AtHost \in Nat /\ OnDown \in Nat /\ OnUp \in Nat /\ Window \in Nat
  BY CreditTotals, WindowAssumption
<1>2. /\ downSub \in Subscription /\ upSub \in Subscription
      /\ downCredit \in Controller /\ aborted \in BOOLEAN /\ terminated \in BOOLEAN
  BY DEF TypeOK, ClientTypeOK, HostTypeOK
<1>3. ASSUME AtHost' <= AtHost, OnDown' <= OnDown, OnUp' <= OnUp
      PROVE  NoneMade
  BY <1>3 DEF NoneMade
<1>4. /\ UNCHANGED hostVars => AtHost' = AtHost
      /\ UNCHANGED <<downNet, downSub>> => OnDown' = OnDown
      /\ UNCHANGED <<upNet, upSub>> => OnUp' = OnUp
  BY DEF hostVars, AtHost, Held, HoldsCredit, OnDown, OnUp
<1>5. CASE ClientOpen
  <2>1. AtHost' = AtHost /\ OnUp' = OnUp
    BY <1>4, <1>5 DEF ClientOpen, hostVars
  <2>2. downNet' = downNet /\ downSub'.queue = <<>>
    BY <1>5, SubscriptionStart DEF ClientOpen
  <2>3. OnDown' <= OnDown
    BY <2>2, CountTypes, CountEmpty DEF OnDown
  <2> QED
    BY <1>1, <1>3, <2>1, <2>3
<1>6. CASE ClientTakeGap
  <2>1. CASE NextFrame(downSub).t = "d"
    BY <1>6, <2>1, ConsumeMoves
  <2>2. CASE NextFrame(downSub).t # "d"
    <3>1. /\ HasFrame(downSub) /\ downSub' = Taken(downSub) /\ UNCHANGED downNet
          /\ UNCHANGED hostVars /\ UNCHANGED upNet
      BY <1>6, <2>2 DEF ClientTakeGap, Pulling
    <3>2. OnDown' = OnDown
      BY <1>1, <1>2, <2>2, <3>1, TakenLemma, TakeDown
    <3>3. upSub' = upSub
      BY <3>1 DEF hostVars
    <3> QED
      BY <1>1, <1>3, <1>4, <3>1, <3>2, <3>3
  <2> QED
    BY <2>1, <2>2
<1>7. CASE ClientGrantThrows \/ ClientTakeError \/ ClientTakeEnd
  <2>1. /\ HasFrame(downSub) /\ UNCHANGED downNet /\ UNCHANGED hostVars
        /\ \/ downSub' = Taken(downSub) /\ upNet' = upNet
           \/ ClientFinally(TRUE, Taken(downSub))
    BY <1>7 DEF ClientGrantThrows, ClientTakeError, ClientTakeEnd, Pulling, netVars
  <2>2. /\ Taken(downSub) \in Subscription
        /\ Taken(downSub).queue = Tail(downSub.queue)
    BY <1>2, <2>1, TakenLemma
  <2>3. downSub'.queue = Tail(downSub.queue)
    BY <2>1, <2>2, ClientFinallyType
  <2>4. OnDown' = OnDown - (IF NextFrame(downSub).t = "d" THEN 1 ELSE 0)
    BY <2>1, <2>3, TakeDown
  <2>5. upSub' = upSub
    BY <2>1 DEF hostVars
  <2>6. OnUp' = OnUp
    BY <1>4, <2>1, <2>2, <2>5, LeaveUp
  <2>7. OnDown' <= OnDown
    BY <1>1, <2>4
  <2> QED
    BY <1>1, <1>3, <1>4, <2>1, <2>6, <2>7
<1>8. CASE ClientDownClosed \/ ConsumerPull \/ ConsumerAbandon \/ ConsumerSeesError
           \/ ClientExpire \/ ClientConnectionCloses
  <2>1. /\ UNCHANGED downNet /\ UNCHANGED hostVars
        /\ \/ downSub' \in {downSub, Unsubscribe(downSub)} /\ upNet' = upNet
           \/ ClientFinally(terminated, downSub)
    BY <1>8 DEF ClientDownClosed, ConsumerPull, ConsumerAbandon, ConsumerSeesError,
       ClientExpire, ClientConnectionCloses, netVars
  <2>2. downSub'.queue = downSub.queue
    BY <1>2, <2>1, UnsubscribeLemma, ClientFinallyType
  <2>3. OnDown' = OnDown
    BY <2>1, <2>2 DEF OnDown
  <2>4. upSub' = upSub
    BY <2>1 DEF hostVars
  <2>5. OnUp' = OnUp
    BY <1>2, <1>4, <2>1, <2>4, LeaveUp
  <2> QED
    BY <1>1, <1>3, <1>4, <2>1, <2>3, <2>5
<1>9. CASE HostAccept
  <2>1. Untouched /\ Silent
    BY <1>2, <1>9 DEF HostAccept, CreditInv, CallControl
  <2>2. /\ downCredit' = NewController(Window) /\ upSub'.queue = <<>>
        /\ hpc' = "handler" /\ UNCHANGED <<downNet, downSub, upNet>>
    BY <1>9, SubscriptionStart DEF HostAccept, clientVars
  <2>3. AtHost' = Window
    <3>1. downCredit'.credit = Window
      BY <1>1, <2>2, NewControllerLemma
    <3>2. Held' = 0
      BY <2>2 DEF Held, HoldsCredit
    <3> QED
      BY <1>1, <3>1, <3>2 DEF AtHost
  <2>4. OnDown' = 0 /\ OnUp' = 0
    BY <2>1, <2>2, CountEmpty DEF OnDown, OnUp, Untouched, Silent
  <2> QED
    BY <1>9, <2>3, <2>4 DEF Accepted
<1>10. CASE HostYield
  <2>1. /\ hpc = "handler" /\ hpc' = "acquiring"
        /\ downCredit' = Acquire(downCredit)
        /\ UNCHANGED <<downNet, downSub, upNet, upSub>>
    BY <1>10 DEF HostYield, clientVars, netVars
  <2>2. downCredit.waiters = 0 /\ Held = 0
    BY <2>1 DEF CreditInv, WindowControl, Held, HoldsCredit
  <2>3. AtHost' <= AtHost
    <3>1. CASE downCredit.cancelled
      <4>1. downCredit' = downCredit
        BY <1>2, <2>1, <3>1, AcquireLemma
      <4>2. Held' = 0
        BY <3>1, <4>1 DEF Held
      <4> QED
        BY <4>1, <4>2, <2>2, CountTypes DEF AtHost
    <3>2. CASE ~downCredit.cancelled /\ downCredit.credit > 0
      <4>1. downCredit'.credit = downCredit.credit - 1
        BY <1>2, <2>1, <3>2, AcquireLemma
      <4>2. Held' \in {0, 1}
        BY DEF Held
      <4> QED
        BY <4>1, <4>2, <2>2, CountTypes DEF AtHost
    <3>3. CASE ~downCredit.cancelled /\ downCredit.credit = 0
      <4>1. downCredit'.credit = 0 /\ downCredit'.waiters = 0 + 1
        BY <1>2, <2>1, <2>2, <3>3, AcquireLemma
      <4>2. Held' = 0
        BY <4>1 DEF Held, HoldsCredit, Parked
      <4> QED
        BY <4>1, <4>2, <2>2, <3>3, CountTypes DEF AtHost
    <3> QED
      BY <3>1, <3>2, <3>3, CountTypes
  <2> QED
    BY <1>1, <1>3, <1>4, <2>1, <2>3
<1>11. CASE HostEnd \/ HostFail \/ HostPublishThrows \/ HostStop
  <2>1. /\ HostFinally /\ UNCHANGED <<downSub, upNet>>
        /\ downNet' \in {downNet, Append(downNet, EndFrame(seq)),
                         Append(downNet, ErrorFrame)}
    BY <1>11 DEF HostEnd, HostFail, HostPublishThrows, HostStop, clientVars, netVars
  <2>2. AtHost' <= AtHost
    <3>1. downCredit'.credit = downCredit.credit
      BY <2>1, HostFinallyType
    <3>2. Held' \in {0, 1}
      BY DEF Held
    <3> QED
      BY <2>1, <3>1, <3>2, FinallyAtHost, CountTypes DEF AtHost
  <2>3. OnDown' = OnDown
    <3>1. /\ EndFrame(seq) \in Frame /\ EndFrame(seq).t # "d"
          /\ ErrorFrame \in Frame /\ ErrorFrame.t # "d"
      BY FrameTypes DEF TypeOK, HostTypeOK, EndFrame, ErrorFrame
    <3>2. OnDown + 0 = OnDown
      BY <1>1
    <3> QED
      BY <1>4, <2>1, <3>1, <3>2, SendDown
  <2>4. upSub'.queue = upSub.queue
    BY <2>1, HostFinallyType
  <2>5. OnUp' = OnUp
    BY <2>1, <2>4 DEF OnUp
  <2> QED
    BY <1>1, <1>3, <2>2, <2>3, <2>5
<1>12. CASE HostRecord \/ HostDrainEnds \/ HostConnectionCloses
  <2>1. /\ hpc' = "acquiring" <=> hpc = "acquiring"
        /\ UNCHANGED <<downCredit, downNet, downSub, upNet, upSub>>
    BY <1>12 DEF HostRecord, HostDrainEnds, HostConnectionCloses, clientVars, netVars
  <2>2. AtHost' = AtHost
    BY <2>1 DEF AtHost, Held, HoldsCredit
  <2> QED
    BY <1>1, <1>3, <1>4, <2>1, <2>2
<1>13. CASE HostTakeCredit
  <2>1. /\ HasFrame(upSub) /\ NextFrame(upSub).t = "c" /\ upSub' = Taken(upSub)
        /\ downCredit' = Grant(downCredit, NextFrame(upSub).data)
        /\ hpc' = hpc /\ UNCHANGED <<downNet, downSub, upNet>>
    BY <1>13 DEF HostTakeCredit, clientVars, netVars
  <2>2. /\ upSub.queue \in Seq(Frame) /\ upSub.queue # <<>>
        /\ upSub'.queue = Tail(upSub.queue)
    BY <1>2, <2>1, TakenLemma
  <2>3. NextFrame(upSub).data = 1
    BY <2>1, <2>2, HeadTailProperties DEF CreditInv, UpFrames, UpFrame, NextFrame
  <2>4. OnUp' = OnUp - 1
    <3>1. Count(upSub'.queue, "c") = Count(upSub.queue, "c") - 1
      BY <2>1, <2>2, CountTail DEF NextFrame
    <3> QED
      BY <2>1, <3>1, CountTypes DEF OnUp
  <2>5. AtHost' <= AtHost + 1
    <3>1. CASE downCredit.cancelled
      <4>1. downCredit' = downCredit
        BY <1>2, <2>1, <2>3, <3>1, GrantLemma
      <4>2. AtHost' = AtHost
        BY <2>1, <4>1 DEF AtHost, Held, HoldsCredit
      <4> QED
        BY <1>1, <4>2
    <3>2. CASE ~downCredit.cancelled
      <4>1. /\ downCredit'.cancelled = downCredit.cancelled
            /\ downCredit' \in Controller
            /\ downCredit'.waiters <= downCredit.waiters
            /\ downCredit'.credit + (downCredit.waiters - downCredit'.waiters)
                 = downCredit.credit + 1
        BY <1>2, <2>1, <2>3, <3>2, GrantLemma
      <4>2. /\ downCredit'.waiters \in Nat /\ downCredit'.credit \in Nat
            /\ Held' \in {0, 1}
        BY <4>1 DEF Controller, Held
      <4>3. downCredit.waiters \in {0, 1} /\ downCredit.waiters \in Nat
        <5>1. downCredit.waiters \in Nat
          BY <1>2 DEF Controller
        <5>2. downCredit.waiters <= 1
          BY DEF CreditInv, WindowControl
        <5> QED
          BY <5>1, <5>2
      <4>4. CASE downCredit'.waiters = downCredit.waiters
        <5>1. Held' = Held
          BY <2>1, <4>1, <4>4 DEF Held, HoldsCredit, Parked
        <5>2. downCredit'.credit = downCredit.credit + 1
          BY <4>1, <4>2, <4>3, <4>4, CountTypes
        <5> QED
          BY <5>1, <5>2, CountTypes DEF AtHost
      <4>5. CASE downCredit'.waiters # downCredit.waiters
        <5>1. downCredit.waiters = 1 /\ downCredit'.waiters = 0
          BY <4>1, <4>2, <4>3, <4>5
        <5>2. downCredit'.credit + (1 - 0) = downCredit.credit + 1
          BY <4>1, <5>1
        <5>3. downCredit'.credit = downCredit.credit
          BY <4>2, <5>2, CountTypes
        <5> QED
          BY <5>3, <4>2, CountTypes DEF AtHost
      <4> QED
        BY <4>4, <4>5
    <3> QED
      BY <3>1, <3>2
  <2>6. OnDown' = OnDown
    BY <1>4, <2>1
  <2> QED
    BY <2>4, <2>5, <2>6 DEF Returned
<1>14. CASE HostTakeAbort \/ HostExpire \/ HostUnregister
  <2>1. /\ UNCHANGED <<downNet, downSub, upNet, hpc>>
        /\ downCredit' \in {downCredit, Cancel(downCredit)}
        /\ \/ upSub' = Unsubscribe(upSub)
           \/ HasFrame(upSub) /\ upSub' = Taken(upSub) /\ NextFrame(upSub).t # "c"
    BY <1>14 DEF HostTakeAbort, HostExpire, HostUnregister, Abort, clientVars, netVars
  <2>2. Count(upSub'.queue, "c") = Count(upSub.queue, "c")
    <3>1. CASE upSub' = Unsubscribe(upSub)
      BY <1>2, <3>1, UnsubscribeLemma
    <3>2. CASE HasFrame(upSub) /\ upSub' = Taken(upSub) /\ NextFrame(upSub).t # "c"
      <4>1. /\ upSub.queue \in Seq(Frame) /\ upSub.queue # <<>>
            /\ upSub'.queue = Tail(upSub.queue)
        BY <1>2, <3>2, TakenLemma
      <4>2. Count(upSub'.queue, "c") = Count(upSub.queue, "c") - 0
        BY <3>2, <4>1, CountTail DEF NextFrame
      <4> QED
        BY <4>2, CountTypes
    <3> QED
      BY <2>1, <3>1, <3>2
  <2>3. OnUp' = OnUp
    BY <2>1, <2>2 DEF OnUp
  <2>4. AtHost' <= AtHost
    <3>1. CASE downCredit' = downCredit
      <4>1. AtHost' = AtHost
        BY <2>1, <3>1 DEF AtHost, Held, HoldsCredit
      <4> QED
        BY <1>1, <4>1
    <3>2. CASE downCredit' = Cancel(downCredit)
      <4>1. downCredit'.credit = downCredit.credit /\ downCredit'.cancelled
        BY <1>2, <3>2, CancelLemma
      <4>2. Held' = 0
        BY <4>1 DEF Held
      <4> QED
        BY <4>1, <4>2, CountTypes DEF AtHost
    <3> QED
      BY <2>1, <3>1, <3>2
  <2> QED
    BY <1>1, <1>3, <1>4, <2>1, <2>3, <2>4
<1>15. CASE LoseOpen \/ UNCHANGED vars
  <2>1. /\ UNCHANGED hostVars /\ UNCHANGED <<downNet, downSub, upNet, upSub>>
    BY <1>15 DEF LoseOpen, NoResponders, vars, clientVars, hostVars, netVars
  <2> QED
    BY <1>1, <1>3, <1>4, <2>1
<1>16. CASE DeliverDown \/ LoseDown
  <2>1. /\ UNCHANGED hostVars /\ UNCHANGED upNet
        /\ downNet # <<>> /\ downNet' = Tail(downNet)
        /\ downSub' \in {downSub, Receive(downSub, Head(downNet)),
                         Receive(downSub, Undecodable)}
    BY <1>16 DEF DeliverDown, LoseDown, clientVars
  <2>2. OnDown' <= OnDown
    BY <1>2, <2>1, CountTypes, CountDeliver DEF OnDown
  <2>3. OnUp' = OnUp
    BY <1>4, <2>1 DEF hostVars
  <2> QED
    BY <1>1, <1>3, <1>4, <2>1, <2>2, <2>3
<1>17. CASE DeliverUp \/ LoseUp
  <2>1. /\ UNCHANGED <<downNet, downSub, hpc, downCredit>>
        /\ upNet # <<>> /\ upNet' = Tail(upNet)
        /\ upSub' \in {upSub, Receive(upSub, Head(upNet)), Receive(upSub, Undecodable)}
    BY <1>17 DEF DeliverUp, LoseUp, ReceiveUp, clientVars, hostVars
  <2>2. OnUp' <= OnUp
    BY <1>2, <2>1, CountTypes, CountDeliver DEF OnUp
  <2>3. AtHost' = AtHost
    BY <2>1 DEF AtHost, Held, HoldsCredit
  <2> QED
    BY <1>1, <1>3, <1>4, <2>1, <2>2, <2>3
<1>18. CASE NoResponders
  <2>1. /\ downNet' = Append(downNet, Undecodable) /\ UNCHANGED hostVars
        /\ UNCHANGED <<downSub, upNet, upSub>>
    BY <1>18 DEF NoResponders, clientVars, hostVars
  <2>2. OnDown' = OnDown + 0
    <3>1. Undecodable.t # "d"
      BY DEF Undecodable
    <3> QED
      BY <2>1, <3>1, FrameTypes, SendDown
  <2>3. OnDown' = OnDown
    BY <2>2, CreditTotals
  <2> QED
    BY <1>1, <1>3, <1>4, <2>1, <2>3
<1> QED
  BY <1>5, <1>6, <1>7, <1>8, <1>9, <1>10, <1>11, <1>12, <1>13, <1>14,
     <1>15, <1>16, <1>17, <1>18
     DEF Next, ClientTake, ConsumerNext, HandlerNext, HostLoop, HostDrain,
         Timeouts, Environment, Network, Terminated

\* The total stays within the bound when no term grows ...
LEMMA SumBound ==
  \A a, b, c, w, x, y, z \in Int :
     a + b + c <= w /\ x <= a /\ y <= b /\ z <= c => x + y + z <= w
OBVIOUS

\* ... and when one token moves from `up` to the host.
LEMMA MoveBound ==
  \A a, b, c, w, x \in Int :
     a + b + c <= w /\ x <= a + 1 => x + b + (c - 1) <= w
OBVIOUS

\* The three totals are natural numbers, before and after a step.
LEMMA TotalsNatural == TypeOK => AtHost \in Nat /\ OnDown \in Nat /\ OnUp \in Nat
BY CreditTotals

LEMMA TotalsStayNatural ==
  TypeOK /\ [Next]_vars => (AtHost \in Nat /\ OnDown \in Nat /\ OnUp \in Nat)'
BY TypeStep, TotalsNatural, PTL

\* No step makes a credit: every step keeps the total or lowers it, except the one
\* that accepts the call, and that one finds nothing under way.
LEMMA TokenBoundStep ==
  ASSUME TypeOK, CreditInv, [Next]_vars
  PROVE  TokenBound'
<1>1. /\ AtHost \in Nat /\ OnDown \in Nat /\ OnUp \in Nat /\ Window \in Nat
      /\ AtHost + OnDown + OnUp <= Window
  BY CreditTotals, WindowAssumption DEF CreditInv, TokenBound
<1>2. AtHost' \in Nat /\ OnDown' \in Nat /\ OnUp' \in Nat
  BY TotalsStayNatural
<1>3. Accepted \/ Published \/ Consumed \/ Returned \/ NoneMade
  <2>1. ClientTakeData => NextFrame(downSub).t = "d"
    BY DEF ClientTakeData
  <2> QED
    BY <2>1, PublishMoves, ConsumeMoves, OtherMoves
<1>4. CASE Accepted
  BY <1>1, <1>2, <1>4 DEF Accepted, TokenBound
<1>5. CASE Published
  BY <1>1, <1>2, <1>5 DEF Published, TokenBound
<1>6. CASE Consumed
  BY <1>1, <1>2, <1>6 DEF Consumed, TokenBound
<1>7. /\ AtHost \in Int /\ OnDown \in Int /\ OnUp \in Int /\ Window \in Int
      /\ AtHost' \in Int /\ OnDown' \in Int /\ OnUp' \in Int
  BY <1>1, <1>2
<1>8. CASE Returned
  <2>1. AtHost' + OnDown + (OnUp - 1) <= Window
    BY <1>1, <1>7, <1>8, MoveBound, Zenon DEF Returned
  <2> QED
    BY <1>8, <2>1, Zenon DEF Returned, TokenBound
<1>9. CASE NoneMade
  BY <1>1, <1>7, <1>9, SumBound, Zenon DEF NoneMade, TokenBound
<1> QED
  BY <1>3, <1>4, <1>5, <1>6, <1>8, <1>9

LEMMA CreditStep == TypeOK /\ CreditInv /\ [Next]_vars => CreditInv'
<1> SUFFICES ASSUME TypeOK, CreditInv, [Next]_vars PROVE CreditInv'
  OBVIOUS
<1> QED
  BY CallControlStep, WindowControlStep, UpFramesStep, TokenBoundStep DEF CreditInv

LEMMA CreditInvCorrect == Spec => [](TypeOK /\ CreditInv)
<1>1. Init => TypeOK /\ CreditInv
  BY TypeInit, CreditInit
<1>2. TypeOK /\ CreditInv /\ [Next]_vars => (TypeOK /\ CreditInv)'
  BY TypeStep, CreditStep
<1> QED
  BY <1>1, <1>2, PTL DEF Spec

\* Credits are conserved: however acquire(), grant() and cancel() interleave with
\* publishing, consuming, timeouts, teardown and lost frames, no token is made.
THEOREM CreditConserved == Spec => []CreditConservation
<1>1. TypeOK /\ CreditInv => CreditConservation
  BY CreditTotals DEF CreditInv, TokenBound, CreditConservation
<1> QED
  BY <1>1, CreditInvCorrect, PTL

\* The guarantee of flow-control.ts, for every window: at most Window DataFrames
\* are published and not yet consumed.
THEOREM FlowControlled == Spec => []InFlightBound
<1>1. TypeOK /\ CreditInv => InFlightBound
  <2> SUFFICES ASSUME TypeOK, CreditInv PROVE InFlightBound
    OBVIOUS
  <2>1. /\ AtHost \in Nat /\ OnDown \in Nat /\ OnUp \in Nat
        /\ AtHost + OnDown + OnUp <= Window
    BY CreditTotals DEF CreditInv, TokenBound
  <2>2. OnDown <= Window
    BY <2>1, WindowAssumption
  <2> QED
    BY <2>2 DEF OnDown, InFlightBound
<1> QED
  BY <1>1, CreditInvCorrect, PTL

-------------------------------------------------------------------------------
(* Order.  DeliveredInOrder needs to know what the sequence number of a      *)
(* DataFrame says of its payload, and NoSilentTruncation what the number of  *)
(* the EndFrame says of the outputs produced; both are facts about frames    *)
(* that may be anywhere between the two sides.                               *)

\* The host numbers its frames consecutively, and ends once.
Numbering ==
  /\ hpc \in {"idle", "handler"} => produced = seq
  /\ hpc = "acquiring" => produced = seq + 1
  /\ ended # "none" => hpc \in {"closing", "done"}

\* What the host puts on `down`: DataFrame k carries output k + 1, and the
\* EndFrame's number counts the outputs.
DownFrame ==
  {f \in Frame : /\ f.t = "d" => f.data = f.seq + 1
                 /\ f.t = "e" => ended = "e" /\ f.seq = produced}

DownFrames == downNet \in Seq(DownFrame) /\ downSub.queue \in Seq(DownFrame)

Received == expectedSeq = Len(got) /\ DeliveredInOrder

Completed == outcome = "ok" => cpc = "done" /\ ended = "e" /\ Len(got) = produced

OrderInv == Numbering /\ DownFrames /\ Received /\ Completed

LEMMA OrderInit == Init => OrderInv
<1> SUFFICES ASSUME Init PROVE OrderInv
  OBVIOUS
<1>1. Numbering
  BY DEF Init, Numbering
<1>2. DownFrames
  BY SubscriptionStart, EmptySeq DEF Init, DownFrames
<1>3. Received
  <2>1. got = <<>> /\ expectedSeq = 0 /\ Len(got) = 0
    BY EmptySeq DEF Init
  <2>2. [i \in 1..Len(got) |-> i] = <<>>
    BY <2>1
  <2> QED
    BY <2>1, <2>2 DEF Received, DeliveredInOrder
<1>4. Completed
  BY DEF Init, Completed
<1> QED
  BY <1>1, <1>2, <1>3, <1>4 DEF OrderInv

\* The host's loop alternates yield and publish, and leaves its loop to end.
LEMMA NumberingStep ==
  ASSUME TypeOK, CallControl, Numbering, [Next]_vars
  PROVE  Numbering'
<1>1. produced \in Nat /\ seq \in Nat /\ openNet \in BOOLEAN
  BY DEF TypeOK, HostTypeOK, NetTypeOK
<1>2. CASE UNCHANGED <<hpc, produced, seq, ended>>
  BY <1>2 DEF Numbering
<1>3. CASE HostAccept
  BY <1>1, <1>3 DEF HostAccept, Numbering, CallControl
<1>4. CASE HostYield
  BY <1>1, <1>4 DEF HostYield, Numbering
<1>5. CASE HostPublish
  BY <1>1, <1>5 DEF HostPublish, MayPublish, HoldsCredit, Numbering
<1>6. CASE HostEnd \/ HostFail \/ HostPublishThrows \/ HostStop
  <2>1. hpc' = "closing"
    BY <1>6 DEF HostEnd, HostFail, HostPublishThrows, HostStop, HostFinally
  <2> QED
    BY <2>1 DEF Numbering
<1>7. CASE HostRecord
  BY <1>7 DEF HostRecord, Numbering
<1> QED
  BY <1>2, <1>3, <1>4, <1>5, <1>6, <1>7
     DEF Next, ClientTake, ConsumerNext, HandlerNext, HostLoop, HostDrain,
         Timeouts, Environment, Network, Terminated, vars, hostVars, ClientOpen,
         ClientTakeData, ClientTakeGap, ClientGrantThrows, ClientTakeEnd,
         ClientTakeError, ClientDownClosed, ConsumerPull, ConsumerAbandon,
         ConsumerSeesError, ClientExpire, ClientConnectionCloses, HostTakeCredit,
         HostTakeAbort, HostDrainEnds, HostExpire, HostUnregister,
         HostConnectionCloses, LoseOpen, NoResponders, DeliverDown, LoseDown, DeliverUp, LoseUp

\* The handler produces nothing after its terminal frame, and ends at most once.
LEMMA EndedStays ==
  ASSUME Numbering, ended # "none", [Next]_vars
  PROVE  UNCHANGED <<ended, produced>>
<1>1. hpc \in {"closing", "done"}
  BY DEF Numbering
<1> QED
  BY <1>1
     DEF Next, ClientTake, ConsumerNext, HandlerNext, HostLoop, HostDrain,
         Timeouts, Environment, Network, Terminated, vars, hostVars, ClientOpen,
         ClientTakeData, ClientTakeGap, ClientGrantThrows, ClientTakeEnd,
         ClientTakeError, ClientDownClosed, ConsumerPull, ConsumerAbandon,
         ConsumerSeesError, ClientExpire, ClientConnectionCloses, HostAccept,
         HostYield, HostPublish, HostEnd, HostFail, HostPublishThrows, HostStop,
         HostRecord, HostTakeCredit, HostTakeAbort, HostDrainEnds, HostExpire,
         HostUnregister, HostConnectionCloses, LoseOpen, NoResponders, DeliverDown, LoseDown,
         DeliverUp, LoseUp, MayPublish, HoldsCredit

\* So what a frame on `down` says stays true.
LEMMA DownFrameGrows ==
  ASSUME Numbering, [Next]_vars
  PROVE  DownFrame \subseteq DownFrame'
<1>1. CASE ended = "none"
  BY <1>1 DEF DownFrame
<1>2. CASE ended # "none"
  BY <1>2, EndedStays DEF DownFrame
<1> QED
  BY <1>1, <1>2

\* Frames keep what they say while they travel, and new ones say the truth.
LEMMA DownFramesStep ==
  ASSUME TypeOK, CallControl, Numbering, DownFrames, [Next]_vars
  PROVE  DownFrames'
<1>1. /\ downNet \in Seq(DownFrame) /\ downSub.queue \in Seq(DownFrame)
      /\ downSub \in Subscription /\ produced \in Nat /\ seq \in Nat
  BY DEF DownFrames, TypeOK, ClientTypeOK, HostTypeOK
<1>2. downNet \in Seq(DownFrame') /\ downSub.queue \in Seq(DownFrame')
  BY <1>1, DownFrameGrows, SeqMonotonic
<1>3. CASE UNCHANGED <<downNet, downSub>>
  BY <1>2, <1>3 DEF DownFrames
<1>4. CASE ClientOpen
  <2>1. downNet' = downNet /\ downSub' = Subscribed
    BY <1>4 DEF ClientOpen
  <2> QED
    BY <1>2, <2>1, SubscriptionStart, EmptySeq DEF DownFrames
<1>5. CASE ClientTakeData \/ ClientTakeGap \/ ClientGrantThrows \/ ClientTakeEnd
           \/ ClientTakeError
  <2>1. /\ HasFrame(downSub) /\ downNet' = downNet
        /\ downSub' \in {Taken(downSub), Unsubscribe(Taken(downSub))}
    BY <1>5 DEF ClientTakeData, ClientTakeGap, ClientGrantThrows, ClientTakeEnd,
       ClientTakeError, ClientFinally, Pulling, netVars
  <2>2. /\ Taken(downSub) \in Subscription /\ downSub.queue # <<>>
        /\ Taken(downSub).queue = Tail(downSub.queue)
    BY <1>1, <2>1, TakenLemma
  <2>3. downSub'.queue = Tail(downSub.queue)
    BY <2>1, <2>2, UnsubscribeLemma
  <2> QED
    BY <1>2, <2>1, <2>2, <2>3, HeadTailProperties DEF DownFrames
<1>6. CASE ConsumerAbandon \/ ConsumerSeesError \/ ClientExpire
           \/ ClientConnectionCloses
  <2>1. downNet' = downNet /\ downSub' = Unsubscribe(downSub)
    BY <1>6 DEF ConsumerAbandon, ConsumerSeesError, ClientExpire,
       ClientConnectionCloses, ClientFinally, netVars
  <2> QED
    BY <1>1, <1>2, <2>1, UnsubscribeLemma DEF DownFrames
<1>7. CASE HostPublish
  <2>1. /\ downNet' = Append(downNet, DataFrame(seq, produced)) /\ downSub' = downSub
        /\ hpc = "acquiring"
    BY <1>7 DEF HostPublish, MayPublish, HoldsCredit, clientVars
  <2>2. DataFrame(seq, produced) \in DownFrame'
    BY <1>1, <2>1, FrameTypes DEF DownFrame, DataFrame, Numbering
  <2> QED
    BY <1>2, <2>1, <2>2, AppendProperties DEF DownFrames
<1>8. CASE HostEnd
  <2>1. /\ downNet' = Append(downNet, EndFrame(seq)) /\ downSub' = downSub
        /\ hpc = "handler" /\ ended' = "e" /\ produced' = produced
    BY <1>8 DEF HostEnd, clientVars
  <2>2. EndFrame(seq) \in DownFrame'
    BY <1>1, <2>1, FrameTypes DEF DownFrame, EndFrame, Numbering
  <2> QED
    BY <1>2, <2>1, <2>2, AppendProperties DEF DownFrames
<1>9. CASE HostFail
  <2>1. downNet' \in {downNet, Append(downNet, ErrorFrame)} /\ downSub' = downSub
    BY <1>9 DEF HostFail, clientVars
  <2>2. ErrorFrame \in DownFrame'
    BY FrameTypes DEF DownFrame, ErrorFrame
  <2> QED
    BY <1>2, <2>1, <2>2, AppendProperties DEF DownFrames
<1>10. CASE DeliverDown \/ LoseDown
  <2>1. /\ downNet # <<>> /\ downNet' = Tail(downNet)
        /\ downSub' \in {downSub, Receive(downSub, Head(downNet)),
                         Receive(downSub, Undecodable)}
    BY <1>10 DEF DeliverDown, LoseDown, clientVars
  <2>2. Tail(downNet) \in Seq(DownFrame') /\ Head(downNet) \in DownFrame'
    BY <1>2, <2>1, HeadTailProperties
  <2>3. Undecodable \in DownFrame'
    BY FrameTypes DEF DownFrame, Undecodable
  <2>4. \A f \in DownFrame' : Receive(downSub, f).queue \in Seq(DownFrame')
    <3> TAKE f \in DownFrame'
    <3>1. f \in Frame
      BY DEF DownFrame
    <3>2. Append(downSub.queue, f) \in Seq(DownFrame')
      BY <1>2, AppendProperties
    <3> QED
      BY <1>1, <1>2, <3>1, <3>2, ReceiveLemma
  <2> QED
    BY <1>2, <2>1, <2>2, <2>3, <2>4 DEF DownFrames
<1>11. CASE NoResponders
  <2>1. downNet' = Append(downNet, Undecodable) /\ downSub' = downSub
    BY <1>11 DEF NoResponders, clientVars
  <2>2. Undecodable \in DownFrame'
    BY FrameTypes DEF DownFrame, Undecodable
  <2> QED
    BY <1>2, <2>1, <2>2, AppendProperties DEF DownFrames
<1> QED
  BY <1>3, <1>4, <1>5, <1>6, <1>7, <1>8, <1>9, <1>10, <1>11
     DEF Next, ClientTake, ConsumerNext, HandlerNext, HostLoop, HostDrain,
         Timeouts, Environment, Network, Terminated, vars, clientVars, netVars,
         ClientDownClosed, ConsumerPull, HostAccept, HostYield, HostPublishThrows,
         HostStop, HostRecord, HostTakeCredit, HostTakeAbort, HostDrainEnds,
         HostExpire, HostUnregister, HostConnectionCloses, LoseOpen, NoResponders, DeliverUp,
         LoseUp

\* Whatever the client takes from its queue is a frame the host made.
LEMMA NextDownFrame ==
  ASSUME TypeOK, DownFrames, HasFrame(downSub)
  PROVE  NextFrame(downSub) \in DownFrame
BY HeadTailProperties DEF DownFrames, HasFrame, NextFrame

\* The client accepts only the frame its counter expects.
LEMMA ReceivedStep ==
  ASSUME TypeOK, DownFrames, Received, [Next]_vars
  PROVE  Received'
<1>1. got \in Seq(Nat) /\ Len(got) \in Nat /\ expectedSeq = Len(got)
  BY LenProperties DEF Received, TypeOK, ClientTypeOK
<1>2. CASE UNCHANGED <<got, expectedSeq>>
  BY <1>2 DEF Received, DeliveredInOrder
<1>3. CASE ClientTakeData
  <2>1. /\ HasFrame(downSub) /\ NextFrame(downSub).t = "d"
        /\ NextFrame(downSub).seq = expectedSeq
        /\ got' = Append(got, NextFrame(downSub).data)
        /\ expectedSeq' = expectedSeq + 1
    BY <1>3 DEF ClientTakeData, Pulling, InSequence
  <2>2. NextFrame(downSub).data = Len(got) + 1
    BY <1>1, <2>1, NextDownFrame DEF DownFrame
  <2>3. got' = Append(got, Len(got) + 1)
    BY <2>1, <2>2
  <2>4. /\ got' \in Seq(Nat) /\ Len(got') = Len(got) + 1
        /\ \A i \in 1..Len(got) : got'[i] = got[i]
        /\ got'[Len(got) + 1] = Len(got) + 1
    BY <1>1, <2>3, AppendProperties
  <2>5. \A i \in 1..Len(got) : got[i] = i
    BY DEF Received, DeliveredInOrder
  <2>6. ASSUME NEW i \in 1..Len(got') PROVE got'[i] = i
    <3>1. Len(got) \in Nat
      BY <1>1, LenProperties
    <3>2. CASE i \in 1..Len(got)
      BY <2>4, <2>5, <3>2
    <3>3. CASE i = Len(got) + 1
      BY <2>4, <3>3
    <3> QED
      BY <2>4, <3>1, <3>2, <3>3
  <2>7. got' = [i \in 1..Len(got') |-> i]
    <3>1. got' \in [1..Len(got') -> Nat]
      BY <2>4, LenProperties
    <3> QED
      BY <2>6, <3>1
  <2> QED
    BY <1>1, <2>1, <2>4, <2>7 DEF Received, DeliveredInOrder
<1> QED
  BY <1>2, <1>3
     DEF Next, ClientTake, ConsumerNext, HandlerNext, HostLoop, HostDrain,
         Timeouts, Environment, Network, Terminated, vars, clientVars, ClientOpen,
         ClientTakeGap, ClientGrantThrows, ClientTakeEnd, ClientTakeError,
         ClientDownClosed, ConsumerPull, ConsumerAbandon, ConsumerSeesError,
         ClientExpire, ClientConnectionCloses, HostAccept, HostYield, HostPublish,
         HostEnd, HostFail, HostPublishThrows, HostStop, HostRecord,
         HostTakeCredit, HostTakeAbort, HostDrainEnds, HostExpire, HostUnregister,
         HostConnectionCloses, LoseOpen, NoResponders, DeliverDown, LoseDown, DeliverUp, LoseUp

\* The EndFrame completes the call only in sequence, that is, after every output.
LEMMA CompletedStep ==
  ASSUME TypeOK, Numbering, DownFrames, Received, Completed, [Next]_vars
  PROVE  Completed'
<1>1. CASE ClientTakeEnd
  <2>1. /\ HasFrame(downSub) /\ NextFrame(downSub).t = "e"
        /\ NextFrame(downSub).seq = expectedSeq
        /\ cpc' = "done" /\ UNCHANGED got /\ UNCHANGED hostVars
    BY <1>1 DEF ClientTakeEnd, Pulling, InSequence, ClientFinally
  <2>2. ended = "e" /\ expectedSeq = produced
    BY <2>1, NextDownFrame DEF DownFrame
  <2>3. ended' = "e" /\ produced' = produced
    BY <2>1, <2>2 DEF hostVars
  <2> QED
    BY <2>1, <2>2, <2>3 DEF Completed, Received
<1>2. CASE outcome = "ok" /\ ~ClientTakeEnd
  <2>1. cpc = "done" /\ ended = "e" /\ Len(got) = produced
    BY <1>2 DEF Completed
  <2>2. ended' = ended /\ produced' = produced
    BY <2>1, EndedStays
  <2>3. UNCHANGED <<cpc, got>>
    BY <1>2, <2>1
       DEF Next, ClientTake, ConsumerNext, HandlerNext, HostLoop, HostDrain,
           Timeouts, Environment, Network, Terminated, vars, clientVars, ClientOpen,
           Pulling, ClientTakeData, ClientTakeGap, ClientGrantThrows,
           ClientTakeError, ClientDownClosed, ConsumerPull, ConsumerAbandon,
           ConsumerSeesError, ClientExpire, ClientConnectionCloses, HostAccept,
           HostYield, HostPublish, HostEnd, HostFail, HostPublishThrows, HostStop,
           HostRecord, HostTakeCredit, HostTakeAbort, HostDrainEnds, HostExpire,
           HostUnregister, HostConnectionCloses, LoseOpen, NoResponders, DeliverDown, LoseDown,
           DeliverUp, LoseUp
  <2> QED
    BY <2>1, <2>2, <2>3 DEF Completed
<1>3. CASE outcome # "ok" /\ ~ClientTakeEnd
  <2>1. outcome' # "ok"
    BY <1>3
       DEF Next, ClientTake, ConsumerNext, HandlerNext, HostLoop, HostDrain,
           Timeouts, Environment, Network, Terminated, vars, clientVars, ClientOpen,
           Pulling, ClientTakeData, ClientTakeGap, ClientGrantThrows,
           ClientTakeError, ClientDownClosed, ConsumerPull, ConsumerAbandon,
           ConsumerSeesError, ClientExpire, ClientConnectionCloses, HostAccept,
           HostYield, HostPublish, HostEnd, HostFail, HostPublishThrows, HostStop,
           HostRecord, HostTakeCredit, HostTakeAbort, HostDrainEnds, HostExpire,
           HostUnregister, HostConnectionCloses, LoseOpen, NoResponders, DeliverDown, LoseDown,
           DeliverUp, LoseUp
  <2> QED
    BY <2>1 DEF Completed
<1> QED
  BY <1>1, <1>2, <1>3

LEMMA OrderInvCorrect == Spec => [](TypeOK /\ CreditInv /\ OrderInv)
<1>1. Init => OrderInv
  BY OrderInit
<1>2. TypeOK /\ CreditInv /\ OrderInv /\ [Next]_vars => OrderInv'
  <2> SUFFICES ASSUME TypeOK, CreditInv, OrderInv, [Next]_vars PROVE OrderInv'
    OBVIOUS
  <2>1. CallControl
    BY DEF CreditInv
  <2> QED
    BY <2>1, NumberingStep, DownFramesStep, ReceivedStep, CompletedStep DEF OrderInv
<1> QED
  BY <1>1, <1>2, CreditInvCorrect, PTL DEF Spec

\* Outputs reach the application as 1, 2, 3, ...: at-most-once delivery, lost,
\* garbled and dropped frames never reorder, repeat or skip one.
THEOREM InOrder == Spec => []DeliveredInOrder
<1>1. OrderInv => DeliveredInOrder
  BY DEF OrderInv, Received
<1> QED
  BY <1>1, OrderInvCorrect, PTL

\* A stream that ends without an error was complete, for any number of outputs.
THEOREM NeverTruncated == Spec => []NoSilentTruncation
<1>1. OrderInv => NoSilentTruncation
  BY DEF OrderInv, Completed, NoSilentTruncation
<1> QED
  BY <1>1, OrderInvCorrect, PTL

-------------------------------------------------------------------------------
(* Stats.  Every way out of the host's loop other than the EndFrame leaves an  *)
(* explanation in callError, which nothing clears.                             *)

Explained ==
  /\ aborted = TRUE => callError # "none"
  /\ hpc = "closing" /\ callError = "none" => ended = "e"
  /\ recorded = "ok" => ended = "e" /\ hpc = "done"

LEMMA ExplainedStep ==
  ASSUME TypeOK, CallControl, Numbering, Explained, [Next]_vars
  PROVE  Explained'
<1>1. aborted \in BOOLEAN /\ openNet \in BOOLEAN
  BY DEF TypeOK, HostTypeOK, NetTypeOK
<1>2. CASE UNCHANGED <<hpc, aborted, callError, ended, recorded>>
  BY <1>2 DEF Explained
<1>3. CASE HostAccept \/ HostYield \/ HostPublish
  <2>1. hpc' \in {"handler", "acquiring"} /\ hpc \in {"idle", "handler", "acquiring"}
    BY <1>1, <1>3 DEF HostAccept, HostYield, HostPublish, MayPublish, HoldsCredit,
       CallControl
  <2>2. UNCHANGED <<aborted, callError, recorded>>
    BY <1>3 DEF HostAccept, HostYield, HostPublish
  <2> QED
    BY <2>1, <2>2 DEF Explained
<1>4. CASE HostEnd \/ HostFail \/ HostPublishThrows \/ HostStop
  <2>1. hpc' = "closing" /\ hpc \in {"handler", "acquiring"} /\ UNCHANGED <<aborted, recorded>>
    BY <1>4 DEF HostEnd, HostFail, HostPublishThrows, HostStop, HostFinally, HoldsCredit
  <2>2. recorded # "ok"
    BY <2>1 DEF Explained
  <2>3. aborted' = TRUE => callError' # "none"
    BY <1>4, <2>1 DEF HostEnd, HostFail, HostPublishThrows, HostStop, Explained
  <2>4. callError' = "none" => ended' = "e"
    BY <1>1, <1>4 DEF HostEnd, HostFail, HostPublishThrows, HostStop, Explained
  <2> QED
    BY <2>1, <2>2, <2>3, <2>4 DEF Explained
<1>5. CASE HostRecord
  BY <1>5 DEF HostRecord, Explained
<1>6. CASE HostTakeAbort \/ HostExpire
  <2>1. callError' # "none" /\ UNCHANGED <<hpc, ended, recorded>>
    BY <1>6 DEF HostTakeAbort, HostExpire, Abort
  <2> QED
    BY <2>1 DEF Explained
<1> QED
  BY <1>2, <1>3, <1>4, <1>5, <1>6
     DEF Next, ClientTake, ConsumerNext, HandlerNext, HostLoop, HostDrain,
         Timeouts, Environment, Network, Terminated, vars, hostVars, ClientOpen,
         ClientTakeData, ClientTakeGap, ClientGrantThrows, ClientTakeEnd,
         ClientTakeError, ClientDownClosed, ConsumerPull, ConsumerAbandon,
         ConsumerSeesError, ClientExpire, ClientConnectionCloses, HostTakeCredit,
         HostDrainEnds, HostUnregister, HostConnectionCloses, LoseOpen, NoResponders, DeliverDown,
         LoseDown, DeliverUp, LoseUp

\* The host records a call as a success only if it published its EndFrame, even
\* when drainUp or a timer rewrites callError while the call is closing.
THEOREM HonestStats == Spec => []RecordedHonestly
<1>1. Init => Explained
  BY DEF Init, Explained
<1>2. TypeOK /\ CreditInv /\ OrderInv /\ Explained /\ [Next]_vars => Explained'
  BY ExplainedStep DEF CreditInv, OrderInv
<1>3. Explained => RecordedHonestly
  BY DEF Explained, RecordedHonestly
<1> QED
  BY <1>1, <1>2, <1>3, OrderInvCorrect, PTL DEF Spec

\* An aborted call publishes no further DataFrame or EndFrame: every await of the
\* host's loop is followed by a check of `aborted` before the next publish.
THEOREM AbortSilences == Spec => NoOutputAfterAbort
<1>1. TypeOK /\ [Next]_vars => [aborted => seq' = seq]_vars
  <2> SUFFICES ASSUME TypeOK, [Next]_vars, aborted = TRUE PROVE seq' = seq
    BY DEF TypeOK, HostTypeOK
  <2> QED
    BY DEF Next, ClientTake, ConsumerNext, HandlerNext, HostLoop, HostDrain,
           Timeouts, Environment, Network, Terminated, vars, hostVars, ClientOpen,
           ClientTakeData, ClientTakeGap, ClientGrantThrows, ClientTakeEnd,
           ClientTakeError, ClientDownClosed, ConsumerPull, ConsumerAbandon,
           ConsumerSeesError, ClientExpire, ClientConnectionCloses, HostAccept,
           HostYield, HostPublish, HostEnd, HostFail, HostPublishThrows, HostStop,
           HostRecord, HostTakeCredit, HostTakeAbort, HostDrainEnds, HostExpire,
           HostUnregister, HostConnectionCloses, LoseOpen, NoResponders, DeliverDown, LoseDown,
           DeliverUp, LoseUp, MayPublish
<1> QED
  BY <1>1, TypeCorrect, PTL DEF Spec, NoOutputAfterAbort

-------------------------------------------------------------------------------
(* Refinement.  That a call is a BoundedStream needs what no single side     *)
(* knows: what is sent and not received, under way or lost, fits in the      *)
(* window together with the tokens that are not on `down`.                   *)

\* What the host has sent, as BoundedStream counts it: its EndFrame is no output.
Sent == IF ended = "e" THEN seq - 1 ELSE seq

SentCounts ==
  /\ hpc = "idle" => seq = 0
  /\ ended = "e" => seq = produced + 1

\* Until the application has learned how the call ended, its generator is running.
Listening == cpc \in {"idle", "pulling", "yielded"} => outcome = "none"

\* Every DataFrame under way is an output that was sent and is not received.
Undelivered == OnDown + Len(got) <= Sent

\* While the application listens, an output that was lost keeps its token.
WindowUsed == outcome = "none" => AtHost + OnUp + Sent <= Window + Len(got)

StreamInv == SentCounts /\ Listening /\ Undelivered /\ WindowUsed

\* The counters of the mapping are natural numbers.
LEMMA StreamNumbers ==
  ASSUME TypeOK, SentCounts
  PROVE  Sent \in Nat /\ seq \in Nat /\ produced \in Nat /\ Len(got) \in Nat
<1>1. seq \in Nat /\ produced \in Nat /\ got \in Seq(Nat)
  BY DEF TypeOK, ClientTypeOK, HostTypeOK
<1> QED
  BY <1>1, LenProperties DEF Sent, SentCounts

\* Only HostPublish sends an output.
LEMMA SentStep ==
  ASSUME TypeOK, CallControl, Numbering, SentCounts, [Next]_vars
  PROVE  /\ SentCounts'
         /\ Sent' = IF HostPublish THEN Sent + 1 ELSE Sent
<1>1. /\ produced \in Nat /\ seq \in Nat /\ openNet \in BOOLEAN
      /\ ended \in {"none", "e", "x"}
  BY DEF TypeOK, HostTypeOK, NetTypeOK
<1>2. CASE HostPublish
  <2>1. hpc = "acquiring" /\ hpc' = "handler" /\ seq' = seq + 1 /\ ended' = ended
    BY <1>2 DEF HostPublish, MayPublish, HoldsCredit
  <2>2. ended = "none"
    BY <1>1, <2>1 DEF Numbering
  <2> QED
    BY <1>1, <1>2, <2>1, <2>2 DEF SentCounts, Sent
<1>3. CASE HostEnd
  <2>1. /\ hpc = "handler" /\ hpc' = "closing" /\ seq' = seq + 1 /\ ended' = "e"
        /\ produced' = produced
    BY <1>3 DEF HostEnd, HostFinally
  <2>2. ended = "none" /\ produced = seq /\ ~HostPublish
    BY <1>1, <2>1 DEF Numbering, HostPublish, MayPublish, HoldsCredit
  <2> QED
    BY <1>1, <2>1, <2>2 DEF SentCounts, Sent
<1>4. CASE HostFail
  <2>1. /\ hpc = "handler" /\ hpc' = "closing" /\ seq' = seq
        /\ ended' \in {ended, "x"}
    BY <1>4 DEF HostFail, HostFinally
  <2>2. ended = "none" /\ ~HostPublish
    BY <1>1, <2>1 DEF Numbering, HostPublish, MayPublish, HoldsCredit
  <2> QED
    BY <1>1, <2>1, <2>2 DEF SentCounts, Sent
<1>5. CASE HostAccept \/ HostYield
  <2>1. /\ hpc \in {"idle", "handler"} /\ hpc' # "idle"
        /\ UNCHANGED <<seq, ended>>
    BY <1>1, <1>5 DEF HostAccept, HostYield, CallControl
  <2>2. ended = "none" /\ ~HostPublish
    BY <1>1, <2>1 DEF Numbering, HostPublish, MayPublish, HoldsCredit
  <2> QED
    BY <2>1, <2>2 DEF SentCounts, Sent
<1>6. CASE HostPublishThrows \/ HostStop \/ HostRecord
  <2>1. /\ hpc' \in {"closing", "done"} /\ UNCHANGED <<produced, seq, ended>>
    BY <1>6 DEF HostPublishThrows, HostStop, HostRecord, HostFinally
  <2>2. ~HostPublish
    BY <2>1 DEF HostPublish
  <2> QED
    BY <2>1, <2>2 DEF SentCounts, Sent
<1>7. CASE UNCHANGED <<hpc, produced, seq, ended>>
  <2>1. ~HostPublish
    BY <1>1, <1>7 DEF HostPublish
  <2> QED
    BY <1>7, <2>1 DEF SentCounts, Sent
<1> QED
  BY <1>2, <1>3, <1>4, <1>5, <1>6, <1>7
     DEF Next, ClientTake, ConsumerNext, HandlerNext, HostLoop, HostDrain,
         Timeouts, Environment, Network, Terminated, vars, hostVars, ClientOpen,
         ClientTakeData, ClientTakeGap, ClientGrantThrows, ClientTakeEnd,
         ClientTakeError, ClientDownClosed, ConsumerPull, ConsumerAbandon,
         ConsumerSeesError, ClientExpire, ClientConnectionCloses, HostTakeCredit,
         HostTakeAbort, HostDrainEnds, HostExpire, HostUnregister,
         HostConnectionCloses, LoseOpen, NoResponders, DeliverDown, LoseDown, DeliverUp, LoseUp

\* The steps that tell the application how the call ended.
Fails ==
  \/ ClientTakeGap \/ ClientGrantThrows \/ ClientTakeError \/ ClientDownClosed
  \/ ConsumerAbandon

\* The application learns how the call ended once, and only from these steps.
LEMMA OutcomeStep ==
  ASSUME Listening, [Next]_vars
  PROVE  /\ Listening'
         /\ Fails => outcome = "none" /\ outcome' \in Outcome \ {"none", "ok"}
         /\ ClientTakeEnd => outcome = "none" /\ outcome' = "ok"
         /\ ~(Fails \/ ClientTakeEnd) => outcome' = outcome
<1>1. CASE Fails
  <2>1. cpc \in {"pulling", "yielded"} /\ cpc' \in {"failed", "done"}
    BY <1>1 DEF Fails, ClientTakeGap, ClientGrantThrows, ClientTakeError,
       ClientDownClosed, ConsumerAbandon, ClientFinally, Pulling
  <2>2. outcome' \in Outcome \ {"none", "ok"}
    BY <1>1 DEF Fails, ClientTakeGap, ClientGrantThrows, ClientTakeError,
       ClientDownClosed, ConsumerAbandon, Outcome
  <2>3. ~ClientTakeEnd
    BY <2>2 DEF ClientTakeEnd
  <2> QED
    BY <1>1, <2>1, <2>2, <2>3 DEF Listening
<1>2. CASE ClientTakeEnd
  <2>1. cpc = "pulling" /\ cpc' = "done" /\ outcome' = "ok"
    BY <1>2 DEF ClientTakeEnd, ClientFinally, Pulling
  <2>2. ~Fails
    BY <2>1 DEF Fails, ClientTakeGap, ClientGrantThrows, ClientTakeError,
       ClientDownClosed, ConsumerAbandon
  <2> QED
    BY <1>2, <2>1, <2>2 DEF Listening
<1>3. CASE ~(Fails \/ ClientTakeEnd)
  <2>1. /\ outcome' = outcome
        /\ cpc' \in {"idle", "pulling", "yielded"} => cpc \in {"idle", "pulling", "yielded"}
    BY <1>3
       DEF Fails, Next, ClientTake, ConsumerNext, HandlerNext, HostLoop, HostDrain,
           Timeouts, Environment, Network, Terminated, vars, clientVars, ClientOpen,
           Pulling, ClientTakeData, ConsumerPull, ConsumerSeesError, ClientFinally,
           ClientExpire, ClientConnectionCloses, HostAccept, HostYield, HostPublish,
           HostEnd, HostFail, HostPublishThrows, HostStop, HostRecord,
           HostTakeCredit, HostTakeAbort, HostDrainEnds, HostExpire, HostUnregister,
           HostConnectionCloses, LoseOpen, NoResponders, DeliverDown, LoseDown, DeliverUp, LoseUp
  <2> QED
    BY <1>3, <2>1 DEF Listening
<1> QED
  BY <1>1, <1>2, <1>3

\* Only ClientTakeData hands the application an output.
LEMMA GotStep ==
  ASSUME TypeOK, [Next]_vars
  PROVE  /\ ClientTakeData => Len(got') = Len(got) + 1
         /\ ~ClientTakeData => got' = got
<1>1. got \in Seq(Nat)
  BY DEF TypeOK, ClientTypeOK
<1>2. ASSUME ClientTakeData PROVE Len(got') = Len(got) + 1
  <2>1. got' = Append(got, NextFrame(downSub).data)
    BY <1>2 DEF ClientTakeData
  <2>2. HasFrame(downSub) /\ downSub \in Subscription
    BY <1>2 DEF ClientTakeData, Pulling, TypeOK, ClientTypeOK
  <2>3. NextFrame(downSub) \in Frame
    BY <2>2, TakenLemma
  <2> QED
    BY <1>1, <2>1, <2>3, AppendProperties DEF Frame
<1>3. ASSUME ~ClientTakeData PROVE got' = got
  BY <1>3
     DEF Next, ClientTake, ConsumerNext, HandlerNext, HostLoop, HostDrain,
         Timeouts, Environment, Network, Terminated, vars, clientVars, ClientOpen,
         ClientTakeGap, ClientGrantThrows, ClientTakeEnd, ClientTakeError,
         ClientDownClosed, ConsumerPull, ConsumerAbandon, ConsumerSeesError,
         ClientExpire, ClientConnectionCloses, HostAccept, HostYield, HostPublish,
         HostEnd, HostFail, HostPublishThrows, HostStop, HostRecord,
         HostTakeCredit, HostTakeAbort, HostDrainEnds, HostExpire, HostUnregister,
         HostConnectionCloses, LoseOpen, NoResponders, DeliverDown, LoseDown, DeliverUp, LoseUp
<1> QED
  BY <1>2, <1>3

\* Sums stay within a bound when one or two terms do not grow, or a token moves.
LEMMA ShrinkTwo ==
  \A a, b, c, w, x, y \in Int :
     a + b + c <= w /\ x <= a /\ y <= b => x + y + c <= w
OBVIOUS

LEMMA MoveOne ==
  \A a, b, c, w, x \in Int :
     a + b + c <= w /\ x <= a + 1 => x + (b - 1) + c <= w
OBVIOUS

LEMMA ShrinkOne == \A a, c, w, x \in Int : a + c <= w /\ x <= a => x + c <= w
OBVIOUS

\* No output is made up, and none is delivered twice.
LEMMA UndeliveredStep ==
  ASSUME TypeOK, CreditInv, Numbering, SentCounts, Undelivered, [Next]_vars
  PROVE  Undelivered'
<1>1. /\ AtHost \in Int /\ OnDown \in Int /\ OnUp \in Int
      /\ OnDown' \in Int /\ OnDown \in Nat
  BY CreditTotals, TotalsStayNatural
<1>2. Sent \in Int /\ Len(got) \in Nat /\ CallControl
  BY StreamNumbers DEF CreditInv
<1>3. CASE HostPublish
  <2>1. OnDown' = OnDown + 1 /\ Sent' = Sent + 1
    BY <1>2, <1>3, PublishMoves, SentStep DEF Published
  <2>2. got' = got
    BY <1>3 DEF HostPublish, clientVars
  <2> QED
    BY <1>1, <1>2, <2>1, <2>2 DEF Undelivered
<1>4. CASE ClientTakeData
  <2>1. OnDown' = OnDown - 1
    BY <1>4, ConsumeMoves DEF ClientTakeData, Consumed
  <2>2. Sent' = Sent
    BY <1>4 DEF ClientTakeData, hostVars, Sent
  <2>3. Len(got') = Len(got) + 1
    BY <1>4, GotStep
  <2> QED
    BY <1>1, <1>2, <2>1, <2>2, <2>3 DEF Undelivered
<1>5. CASE ~HostPublish /\ ~ClientTakeData
  <2>1. got' = got /\ Sent' = Sent
    BY <1>2, <1>5, GotStep, SentStep
  <2>2. OnDown' <= OnDown
    BY <1>1, <1>5, OtherMoves DEF Accepted, Consumed, Returned, NoneMade
  <2>3. OnDown' + Len(got) <= Sent
    <3>1. OnDown + Len(got) <= Sent /\ Len(got) \in Int
      BY <1>2 DEF Undelivered
    <3> QED
      BY <1>1, <1>2, <2>2, <3>1, ShrinkOne, Zenon
  <2> QED
    BY <2>1, <2>3 DEF Undelivered
<1> QED
  BY <1>3, <1>4, <1>5

\* A token leaves its output only when the output is received.
LEMMA WindowUsedStep ==
  ASSUME TypeOK, CreditInv, Numbering, SentCounts, Listening, WindowUsed, [Next]_vars,
         outcome' = "none"
  PROVE  AtHost' + OnUp' + Sent' <= Window + Len(got')
<1>1. /\ AtHost \in Int /\ OnDown \in Int /\ OnUp \in Int
      /\ AtHost' \in Int /\ OnUp' \in Int
  BY CreditTotals, TotalsStayNatural
<1>2. Sent \in Int /\ Len(got) \in Nat /\ CallControl /\ Window \in Nat
  BY StreamNumbers, WindowAssumption DEF CreditInv
<1>3. ~Fails /\ outcome = "none"
  BY OutcomeStep
<1>4. AtHost + OnUp + Sent <= Window + Len(got)
  BY <1>3 DEF WindowUsed
<1>5. CASE HostPublish
  <2>1. AtHost' = AtHost - 1 /\ OnUp' = OnUp /\ Sent' = Sent + 1
    BY <1>2, <1>5, PublishMoves, SentStep DEF Published
  <2>2. got' = got
    BY <1>5 DEF HostPublish, clientVars
  <2> QED
    BY <1>1, <1>2, <1>4, <2>1, <2>2
<1>6. CASE ClientTakeData
  <2>1. AtHost' = AtHost /\ OnUp' = OnUp + 1
    BY <1>6, ConsumeMoves DEF ClientTakeData, Consumed
  <2>2. Sent' = Sent
    BY <1>6 DEF ClientTakeData, hostVars, Sent
  <2>3. Len(got') = Len(got) + 1
    BY <1>6, GotStep
  <2> QED
    BY <1>1, <1>2, <1>4, <2>1, <2>2, <2>3
<1>7. CASE ~HostPublish /\ ~ClientTakeData
  <2>1. got' = got /\ Sent' = Sent
    BY <1>2, <1>7, GotStep, SentStep
  <2>2. (HostAccept /\ Accepted) \/ Returned \/ NoneMade
    BY <1>3, <1>7, OtherMoves DEF Fails
  <2>3. CASE HostAccept /\ Accepted
    <3>1. hpc = "idle"
      BY <1>2, <2>3 DEF HostAccept, CallControl, TypeOK, NetTypeOK
    <3>2. Sent = 0
      BY <3>1, StreamNumbers DEF SentCounts, Sent
    <3> QED
      BY <1>2, <2>1, <2>3, <3>2 DEF Accepted
  <2>4. CASE Returned
    <3>1. AtHost' <= AtHost + 1 /\ OnUp' = OnUp - 1
      BY <2>4 DEF Returned
    <3>2. Window + Len(got) \in Int
      BY <1>2
    <3>3. AtHost' + (OnUp - 1) + Sent <= Window + Len(got)
      BY <1>1, <1>2, <1>4, <3>1, <3>2, MoveOne, Zenon
    <3>4. OnUp' = OnUp - 1
      BY <3>1
    <3> QED
      BY <2>1, <3>3, <3>4
  <2>5. CASE NoneMade
    <3>1. Window + Len(got) \in Int /\ AtHost' <= AtHost /\ OnUp' <= OnUp
      BY <1>2, <2>5 DEF NoneMade
    <3>2. AtHost' + OnUp' + Sent <= Window + Len(got)
      BY <1>1, <1>2, <1>4, <3>1, ShrinkTwo, Zenon
    <3> QED
      BY <2>1, <3>2
  <2> QED
    BY <2>2, <2>3, <2>4, <2>5
<1> QED
  BY <1>5, <1>6, <1>7

LEMMA StreamInit == Init => StreamInv
<1> SUFFICES ASSUME Init PROVE StreamInv
  OBVIOUS
<1>1. /\ hpc = "idle" /\ seq = 0 /\ ended = "none" /\ outcome = "none" /\ got = <<>>
  BY DEF Init
<1>2. AtHost = 0 /\ OnDown = 0 /\ OnUp = 0
  <2>1. Held = 0 /\ downCredit.credit = 0
    BY NewControllerLemma DEF Init, Held, HoldsCredit
  <2>2. /\ downNet = <<>> /\ upNet = <<>>
        /\ downSub.queue = <<>> /\ upSub.queue = <<>>
    BY SubscriptionStart DEF Init
  <2> QED
    BY <2>1, <2>2, CountEmpty DEF AtHost, OnDown, OnUp
<1>3. Sent = 0 /\ Len(got) = 0
  BY <1>1, EmptySeq DEF Sent
<1> QED
  BY <1>1, <1>2, <1>3, WindowAssumption
     DEF StreamInv, SentCounts, Listening, Undelivered, WindowUsed

LEMMA StreamInvCorrect == Spec => [](TypeOK /\ CreditInv /\ OrderInv /\ StreamInv)
<1>1. TypeOK /\ CreditInv /\ OrderInv /\ StreamInv /\ [Next]_vars => StreamInv'
  <2> SUFFICES ASSUME TypeOK, CreditInv, OrderInv, StreamInv, [Next]_vars
               PROVE  StreamInv'
    OBVIOUS
  <2>1. CallControl /\ Numbering /\ SentCounts /\ Listening /\ Undelivered /\ WindowUsed
    BY DEF CreditInv, OrderInv, StreamInv
  <2>2. SentCounts' /\ Listening' /\ Undelivered'
    BY <2>1, SentStep, OutcomeStep, UndeliveredStep
  <2>3. WindowUsed'
    BY <2>1, WindowUsedStep DEF WindowUsed
  <2> QED
    BY <2>2, <2>3 DEF StreamInv
<1> QED
  BY <1>1, StreamInit, OrderInvCorrect, PTL DEF Spec

\* What the application knows, as BoundedStream's phase.
Phase == CASE outcome = "none" -> "open"
           [] outcome = "ok"   -> "complete"
           [] OTHER            -> "failed"

\* Sending, ending, delivering, completing and failing are the abstract steps; all
\* others (credits, cancels, timers, teardown, the network) are invisible.
LEMMA StreamStep ==
  ASSUME TypeOK, CreditInv, OrderInv, StreamInv, [Next]_vars
  PROVE  [Stream!Next]_(Stream!vars)
<1>1. /\ Sent \in Nat /\ Len(got) \in Nat /\ Window \in Nat /\ OnUp \in Nat
      /\ downCredit.credit \in Nat /\ CallControl /\ Numbering /\ Received
      /\ SentCounts /\ Listening /\ Undelivered /\ WindowUsed
  BY StreamNumbers, CreditTotals, CountTypes, WindowAssumption
     DEF CreditInv, OrderInv, StreamInv
<1>2. /\ Sent' = IF HostPublish THEN Sent + 1 ELSE Sent
      /\ ~ClientTakeData => got' = got
      /\ ~(Fails \/ ClientTakeEnd) => outcome' = outcome
  BY <1>1, SentStep, OutcomeStep, GotStep
<1>3. CASE HostPublish
  <2>1. hpc = "acquiring" /\ ended' = ended /\ UNCHANGED clientVars
    BY <1>3 DEF HostPublish, MayPublish, HoldsCredit
  <2>2. ended = "none" /\ UNCHANGED <<got, outcome>> /\ Sent' = Sent + 1
    BY <1>1, <1>2, <1>3, <2>1 DEF Numbering, clientVars
  <2>3. AtHost = downCredit.credit + 1
    BY <1>3, PublishMoves DEF AtHost
  <2>4. outcome = "none" => Sent - Len(got) < Window
    BY <1>1, <2>3 DEF WindowUsed
  <2>5. Phase' = Phase /\ (Phase = "open" => outcome = "none")
    BY <2>2 DEF Phase
  <2>6. Stream!Send
    BY <2>1, <2>2, <2>4, <2>5 DEF Stream!Send, Sent, Phase
  <2> QED
    BY <2>6 DEF Stream!Next
<1>4. CASE HostEnd \/ HostFail
  <2>1. /\ hpc = "handler" /\ ended' \in {ended, "e", "x"} /\ UNCHANGED clientVars
        /\ hpc' = "closing"
    BY <1>4 DEF HostEnd, HostFail, HostFinally
  <2>2. ended = "none" /\ UNCHANGED <<got, outcome>> /\ Sent' = Sent
    BY <1>1, <1>2, <2>1 DEF Numbering, clientVars, HostPublish, MayPublish, HoldsCredit
  <2>3. Phase' = Phase
    BY <2>2 DEF Phase
  <2>4. CASE ended' = ended
    BY <2>2, <2>3, <2>4 DEF Stream!vars, Sent, Phase
  <2>5. CASE ended' # ended
    <3>1. Stream!ProducerEnds
      BY <2>1, <2>2, <2>3, <2>5 DEF Stream!ProducerEnds, Sent, Phase
    <3> QED
      BY <3>1 DEF Stream!Next
  <2> QED
    BY <2>4, <2>5
<1>5. CASE ClientTakeData
  <2>1. /\ HasFrame(downSub) /\ NextFrame(downSub).t = "d" /\ cpc = "pulling"
        /\ NextFrame(downSub).seq = expectedSeq /\ UNCHANGED outcome
        /\ got' = Append(got, NextFrame(downSub).data)
        /\ UNCHANGED hostVars
    BY <1>5 DEF ClientTakeData, Pulling, InSequence
  <2>2. got' = Append(got, Len(got) + 1)
    BY <1>1, <2>1, NextDownFrame DEF OrderInv, DownFrame, Received
  <2>3. outcome = "none" /\ Phase = "open" /\ Phase' = Phase
    BY <1>1, <2>1 DEF Listening, Phase
  <2>4. Len(got) < Sent
    <3>1. OnDown >= 1
      BY <1>5, ConsumeMoves, TotalsStayNatural, CreditTotals, <2>1 DEF Consumed
    <3> QED
      BY <1>1, <3>1, CreditTotals DEF Undelivered
  <2>5. Sent' = Sent /\ ended' = ended
    BY <2>1 DEF hostVars, Sent
  <2>6. Stream!Deliver
    BY <2>2, <2>3, <2>4, <2>5 DEF Stream!Deliver, Sent, Phase
  <2> QED
    BY <2>6 DEF Stream!Next
<1>6. CASE ClientTakeEnd
  <2>1. /\ HasFrame(downSub) /\ NextFrame(downSub).t = "e"
        /\ NextFrame(downSub).seq = expectedSeq /\ UNCHANGED got
        /\ UNCHANGED hostVars
    BY <1>6 DEF ClientTakeEnd, Pulling, InSequence
  <2>2. ended = "e" /\ Len(got) = produced
    BY <1>1, <2>1, NextDownFrame DEF OrderInv, DownFrame, Received
  <2>3. Len(got) = Sent
    BY <1>1, <2>2, StreamNumbers DEF SentCounts, Sent
  <2>4. outcome = "none" /\ Phase = "open" /\ Phase' = "complete"
    BY <1>1, <1>6, OutcomeStep DEF Phase
  <2>5. Sent' = Sent /\ ended' = ended
    BY <2>1 DEF hostVars, Sent
  <2>6. Stream!Complete
    BY <2>1, <2>2, <2>3, <2>4, <2>5 DEF Stream!Complete, Sent, Phase
  <2> QED
    BY <2>6 DEF Stream!Next
<1>7. CASE Fails
  <2>1. UNCHANGED got /\ UNCHANGED hostVars
    BY <1>7 DEF Fails, ClientTakeGap, ClientGrantThrows, ClientTakeError,
       ClientDownClosed, ConsumerAbandon
  <2>2. Sent' = Sent /\ ended' = ended
    BY <2>1 DEF hostVars, Sent
  <2>3. outcome = "none" /\ outcome' \notin {"none", "ok"}
    BY <1>1, <1>7, OutcomeStep
  <2>4. Phase = "open" /\ Phase' = "failed"
    BY <2>3 DEF Phase
  <2>5. Stream!Fail
    BY <2>1, <2>2, <2>4 DEF Stream!Fail, Sent, Phase
  <2> QED
    BY <2>5 DEF Stream!Next
<1>8. CASE ~(HostPublish \/ HostEnd \/ HostFail \/ ClientTakeData \/ ClientTakeEnd \/ Fails)
  <2>1. ended' = ended
    BY <1>8
       DEF Next, ClientTake, ConsumerNext, HandlerNext, HostLoop, HostDrain,
           Timeouts, Environment, Network, Terminated, vars, hostVars, Fails,
           ClientOpen, ConsumerPull, ConsumerSeesError, ClientExpire,
           ClientConnectionCloses, HostAccept, HostYield, HostPublishThrows,
           HostStop, HostRecord, HostTakeCredit, HostTakeAbort, HostDrainEnds,
           HostExpire, HostUnregister, HostConnectionCloses, LoseOpen, NoResponders, DeliverDown,
           LoseDown, DeliverUp, LoseUp
  <2>2. Sent' = Sent /\ got' = got /\ outcome' = outcome
    BY <1>2, <1>8
  <2>3. Phase' = Phase
    BY <2>2 DEF Phase
  <2> QED
    BY <2>1, <2>2, <2>3 DEF Stream!vars, Sent, Phase
<1> QED
  BY <1>3, <1>4, <1>5, <1>6, <1>7, <1>8

\* One call over lossy NATS inboxes, with credits, timers, cancels and teardown on
\* both sides, is a bounded, ordered, honestly terminated stream.
THEOREM CallIsBoundedStream == Spec => ImplementsStream
<1>1. Init => Stream!Init
  BY DEF Init, Stream!Init
<1>2. TypeOK /\ CreditInv /\ OrderInv /\ StreamInv /\ [Next]_vars
        => [Stream!Next]_(Stream!vars)
  BY StreamStep
<1> QED
  BY <1>1, <1>2, StreamInvCorrect, PTL DEF Spec, ImplementsStream, Stream!Spec

-------------------------------------------------------------------------------
(* Agreement.  A gap in the numbers of the frames is a lost frame and nothing  *)
(* else, and only a client that gives the call up cancels it.                  *)

\* The frames of s are numbered from n on.
Runs(s, n) == \A i \in 1..Len(s) : s[i].t \in {"d", "e"} => s[i].seq = n + (i - 1)

\* The number after those of the queue q and the FIFO n behind it.
After(q, n, e) == e + Len(q) + Len(n)

\* The call has been opened and nobody is going to serve it.
Forsaken == Unserved /\ cpc # "idle" /\ openNet = FALSE

\* What the client has not taken is numbered from the frame it expects, up to the
\* one the host sends next.
Consecutive ==
  /\ cpc = "idle" => expectedSeq = 0 /\ seq = 0 /\ ended = "none" /\ downNet = <<>>
                     /\ hpc = "idle" /\ openNet = FALSE
  /\ cpc \in {"pulling", "yielded"} =>
       /\ Runs(downSub.queue, expectedSeq)
       /\ downSub.open =>
            /\ Runs(downNet, expectedSeq + Len(downSub.queue))
            /\ ended = "none" /\ hpc # "idle" =>
                 seq = After(downSub.queue, downNet, expectedSeq)
  /\ hpc = "idle" => expectedSeq = 0 /\ seq = 0
  /\ \A f \in Members(downNet) \cup Members(downSub.queue) : f.t = "bad" => Forsaken

\* The client cancels only a call it gives up, and nothing else stops the host.
Uncancelled ==
  /\ \A f \in Members(upNet) \cup Members(upSub.queue) :
       f.t # "bad" /\ (outcome \in {"none", "ok"} => f.t # "a")
  /\ callError # "none" => aborted = TRUE \/ hpc \in {"closing", "done"}
  /\ ended = "e" /\ outcome \in {"none", "ok"} => callError = "none"
  /\ recorded = "error" => callError # "none"

\* A generator that failed has told so, a host that has ended has no timer, and
\* `down` closes under the client by its timer or its connection.
Stopped ==
  /\ cpc = "failed" => outcome \notin {"none", "ok"}
  /\ hpc \in {"closing", "done"} => hTimer = FALSE
  /\ cpc \in {"pulling", "yielded"} /\ downSub.open = FALSE => expired = TRUE \/ clientUp = FALSE

\* The errors of the transport are the transport's, or nobody serves the call.
Excused ==
  /\ outcome = "__transport__" => faults > 0 \/ clientUp = FALSE
  /\ outcome = "__serde__" => faults > 0 \/ Forsaken

AgreeInv == /\ faults = 0 => Consecutive /\ Uncancelled
            /\ Stopped /\ Excused

\* Taking the first frame leaves the others, numbered from the next one on.
LEMMA RunsTail ==
  ASSUME NEW s \in Seq(Frame), s # <<>>, NEW n \in Nat, Runs(s, n)
  PROVE  /\ Runs(Tail(s), n + 1)
         /\ Head(s).t \in {"d", "e"} => Head(s).seq = n
<1> DEFINE u == Tail(s)
<1>1. /\ Len(s) \in Nat /\ Len(s) > 0 /\ Len(u) = Len(s) - 1 /\ Head(s) = s[1]
      /\ \A i \in 1..Len(u) : u[i] = s[i + 1]
  BY HeadTailProperties, LenProperties, EmptySeq
<1> HIDE DEF u
<1>2. Head(s).t \in {"d", "e"} => Head(s).seq = n
  <2>1. 1 \in 1..Len(s) /\ n + (1 - 1) = n
    BY <1>1
  <2> QED
    BY <1>1, <2>1 DEF Runs
<1>3. ASSUME NEW i \in 1..Len(u), u[i].t \in {"d", "e"} PROVE u[i].seq = (n + 1) + (i - 1)
  <2>1. i + 1 \in 1..Len(s) /\ u[i] = s[i + 1] /\ n + ((i + 1) - 1) = (n + 1) + (i - 1)
    BY <1>1
  <2> QED
    BY <1>3, <2>1 DEF Runs
<1>4. Runs(u, n + 1)
  BY <1>3 DEF Runs
<1> QED
  BY <1>2, <1>4 DEF u

\* The next frame of a run.
LEMMA RunsAppend ==
  ASSUME NEW s \in Seq(Frame), NEW n \in Nat, Runs(s, n), NEW f \in Frame,
         f.t \in {"d", "e"} => f.seq = n + Len(s)
  PROVE  Runs(Append(s, f), n)
<1> DEFINE u == Append(s, f)
<1>1. /\ Len(s) \in Nat /\ Len(u) = Len(s) + 1 /\ u[Len(s) + 1] = f
      /\ \A i \in 1..Len(s) : u[i] = s[i]
  BY AppendProperties, LenProperties
<1> HIDE DEF u
<1>2. ASSUME NEW i \in 1..Len(u), u[i].t \in {"d", "e"} PROVE u[i].seq = n + (i - 1)
  <2>1. CASE i \in 1..Len(s)
    BY <1>1, <1>2, <2>1 DEF Runs
  <2>2. CASE i = Len(s) + 1
    <3>1. (Len(s) + 1) - 1 = Len(s)
      BY <1>1
    <3> QED
      BY <1>1, <1>2, <2>2, <3>1
  <2> QED
    BY <1>1, <2>1, <2>2
<1>3. Runs(u, n)
  BY <1>2 DEF Runs
<1> QED
  BY <1>3 DEF u

\* Nothing is on its way before the call is opened.
LEMMA AgreeInit == Init => AgreeInv
<1> SUFFICES ASSUME Init PROVE AgreeInv
  OBVIOUS
<1>1. /\ Members(downNet) = {} /\ Members(downSub.queue) = {}
      /\ Members(upNet) = {} /\ Members(upSub.queue) = {}
  BY SubscriptionStart DEF Init, Members
<1> QED
  BY <1>1 DEF Init, AgreeInv, Consecutive, Uncancelled, Stopped, Excused

\* The network's faults are counted, so that a step that adds none has lost nothing.
LEMMA FaultsGrow ==
  ASSUME TypeOK, [Next]_vars
  PROVE  faults \in Nat /\ (faults' = faults \/ faults' = faults + 1)
<1>1. faults \in Nat
  BY DEF TypeOK, NetTypeOK
<1> QED
  BY <1>1
     DEF Next, ClientTake, ConsumerNext, HandlerNext, HostLoop, HostDrain,
         Timeouts, Environment, Network, Terminated, vars, netVars, ClientOpen,
         ClientTakeData, ClientTakeGap, ClientGrantThrows, ClientTakeEnd,
         ClientTakeError, ClientDownClosed, ConsumerPull, ConsumerAbandon,
         ConsumerSeesError, ClientExpire, ClientConnectionCloses, HostAccept,
         HostYield, HostPublish, HostEnd, HostFail, HostPublishThrows, HostStop,
         HostRecord, HostTakeCredit, HostTakeAbort, HostDrainEnds, HostExpire,
         HostUnregister, HostConnectionCloses, LoseOpen, NoResponders, DeliverDown, LoseDown,
         DeliverUp, LoseUp

\* Every FIFO has frames.
LEMMA FifoTypes ==
  TypeOK => /\ downNet \in Seq(Frame) /\ upNet \in Seq(Frame)
            /\ downSub \in Subscription /\ downSub.queue \in Seq(Frame)
            /\ upSub \in Subscription /\ upSub.queue \in Seq(Frame)
            /\ expectedSeq \in Nat /\ seq \in Nat /\ faults \in Nat
            /\ Len(downNet) \in Nat /\ Len(downSub.queue) \in Nat
BY LenProperties DEF TypeOK, ClientTypeOK, HostTypeOK, NetTypeOK, Subscription

\* Taking a frame, sending one and delivering one keep the FIFOs numbered.
LEMMA RunsOn ==
  ASSUME NEW q \in Seq(Frame), NEW n \in Seq(Frame), NEW e \in Nat
  PROVE  /\ q # <<>> => /\ Runs(n, e + Len(q)) => Runs(n, (e + 1) + Len(Tail(q)))
                        /\ After(Tail(q), n, e + 1) = After(q, n, e)
         /\ \A f \in Frame : After(q, Append(n, f), e) = After(q, n, e) + 1
         /\ n # <<>> /\ Runs(q, e) /\ Runs(n, e + Len(q)) =>
              /\ Runs(Append(q, Head(n)), e)
              /\ Runs(Tail(n), e + Len(Append(q, Head(n))))
              /\ After(Append(q, Head(n)), Tail(n), e) = After(q, n, e)
<1>1. Len(q) \in Nat /\ Len(n) \in Nat
  BY LenProperties
<1>2. ASSUME q # <<>>
      PROVE  /\ Runs(n, e + Len(q)) => Runs(n, (e + 1) + Len(Tail(q)))
             /\ After(Tail(q), n, e + 1) = After(q, n, e)
  <2> DEFINE t == Tail(q)
  <2>1. Len(t) = Len(q) - 1
    BY <1>2, HeadTailProperties
  <2> HIDE DEF t
  <2>2. (e + 1) + Len(t) = e + Len(q)
    BY <1>1, <2>1
  <2>3. After(t, n, e + 1) = After(q, n, e)
    BY <1>1, <2>1 DEF After
  <2>4. Runs(n, e + Len(q)) => Runs(n, (e + 1) + Len(t))
    BY <2>2
  <2> QED
    BY <2>3, <2>4 DEF t
<1>3. ASSUME NEW f \in Frame PROVE After(q, Append(n, f), e) = After(q, n, e) + 1
  BY <1>1, AppendProperties DEF After
<1>4. ASSUME n # <<>>, Runs(q, e), Runs(n, e + Len(q))
      PROVE  /\ Runs(Append(q, Head(n)), e)
             /\ Runs(Tail(n), e + Len(Append(q, Head(n))))
             /\ After(Append(q, Head(n)), Tail(n), e) = After(q, n, e)
  <2> DEFINE u == Append(q, Head(n))
             t == Tail(n)
  <2>1. Head(n) \in Frame /\ Len(t) = Len(n) - 1
    BY <1>4, HeadTailProperties
  <2>2. Len(u) = Len(q) + 1
    BY <2>1, AppendProperties
  <2>3. e + Len(q) \in Nat
    BY <1>1
  <2>4. /\ Runs(t, (e + Len(q)) + 1)
        /\ Head(n).t \in {"d", "e"} => Head(n).seq = e + Len(q)
    BY <1>4, <2>3, RunsTail
  <2>5. Runs(u, e)
    BY <1>4, <2>1, <2>4, RunsAppend
  <2> HIDE DEF u, t
  <2>6. (e + Len(q)) + 1 = e + Len(u)
    BY <1>1, <2>2
  <2>7. After(u, t, e) = After(q, n, e)
    BY <1>1, <2>1, <2>2 DEF After
  <2>8. Runs(t, e + Len(u))
    BY <2>4, <2>6
  <2> QED
    BY <2>5, <2>7, <2>8 DEF u, t
<1> QED
  BY <1>2, <1>3, <1>4

\* Until the host starts nothing is sent, and nothing can be taken but the news
\* that nobody serves the call.
LEMMA IdleStep ==
  ASSUME TypeOK, CallControl, [Next]_vars, hpc' = "idle"
  PROVE  hpc = "idle" /\ UNCHANGED <<got, expectedSeq, seq>>
<1>t. openNet \in BOOLEAN /\ downSub.queue \in Seq(Frame)
  BY DEF TypeOK, ClientTypeOK, NetTypeOK, Subscription
<1>1. hpc = "idle" /\ seq' = seq
  BY DEF Next, ClientTake, ConsumerNext, HandlerNext, HostLoop, HostDrain,
         Timeouts, Environment, Network, Terminated, vars, clientVars, hostVars, ClientOpen, ClientTakeData,
         ClientTakeGap, ClientGrantThrows, ClientTakeEnd, ClientTakeError,
         ClientDownClosed, ConsumerPull, ConsumerAbandon, ConsumerSeesError, ClientFinally,
         ClientExpire, ClientConnectionCloses, HostAccept, HostYield, HostPublish,
         HostEnd, HostFail, HostPublishThrows, HostStop, HostRecord, HostFinally,
         HostTakeCredit, HostTakeAbort, HostDrainEnds, HostExpire, HostUnregister,
         HostConnectionCloses, LoseOpen, NoResponders, DeliverDown, LoseDown, DeliverUp,
         LoseUp, MayPublish, HoldsCredit
<1>2. ~ClientTakeData
  <2> SUFFICES ASSUME ClientTakeData PROVE FALSE
    OBVIOUS
  <2>1. downSub.queue # <<>> /\ NextFrame(downSub).t = "d"
    BY DEF ClientTakeData, Pulling, HasFrame
  <2>2. NextFrame(downSub) \in Members(downSub.queue)
    BY <1>t, <2>1, MembersMove DEF NextFrame
  <2> QED
    BY <1>1, <2>1, <2>2 DEF CallControl, Untouched, Undecodable
<1>3. UNCHANGED <<got, expectedSeq>>
  BY <1>2 DEF Next, ClientTake, ConsumerNext, HandlerNext, HostLoop, HostDrain,
         Timeouts, Environment, Network, Terminated, vars, clientVars, hostVars, ClientOpen,
         ClientTakeGap, ClientGrantThrows, ClientTakeEnd, ClientTakeError,
         ClientDownClosed, ConsumerPull, ConsumerAbandon, ConsumerSeesError, ClientFinally,
         ClientExpire, ClientConnectionCloses, HostAccept, HostYield, HostPublish,
         HostEnd, HostFail, HostPublishThrows, HostStop, HostRecord, HostFinally,
         HostTakeCredit, HostTakeAbort, HostDrainEnds, HostExpire, HostUnregister,
         HostConnectionCloses, LoseOpen, NoResponders, DeliverDown, LoseDown, DeliverUp,
         LoseUp, MayPublish, HoldsCredit
<1> QED
  BY <1>1, <1>3

\* A call that nobody serves stays so: a host does not come back.
LEMMA ForsakenStays ==
  ASSUME TypeOK, CallControl, Forsaken, [Next]_vars
  PROVE  Forsaken'
<1>1. /\ hpc = "idle" /\ got = <<>> /\ NobodyServes /\ cpc # "idle" /\ openNet = FALSE
      /\ registered = FALSE \/ hostUp = FALSE
  BY DEF Forsaken, Unserved, NobodyServes, TypeOK, HostTypeOK
<1>2. hpc' = "idle" /\ cpc' # "idle" /\ openNet' = FALSE
  BY <1>1 DEF Next, ClientTake, ConsumerNext, HandlerNext, HostLoop,
         HostDrain, Timeouts, Environment, Network, Terminated, vars, clientVars, hostVars, ClientOpen,
         ClientTakeData, ClientTakeGap, ClientGrantThrows, ClientTakeEnd, ClientTakeError,
         ClientDownClosed, ConsumerPull, ConsumerAbandon, ConsumerSeesError, ClientFinally,
         ClientExpire, ClientConnectionCloses, HostAccept, HostYield, HostPublish,
         HostEnd, HostFail, HostPublishThrows, HostStop, HostRecord, HostFinally,
         HostTakeCredit, HostTakeAbort, HostDrainEnds, HostExpire, HostUnregister,
         HostConnectionCloses, LoseOpen, NoResponders, DeliverDown, LoseDown, DeliverUp,
         LoseUp, MayPublish, HoldsCredit, netVars
<1>4. registered' = FALSE \/ hostUp' = FALSE
  BY <1>1 DEF Next, ClientTake, ConsumerNext, HandlerNext, HostLoop,
         HostDrain, Timeouts, Environment, Network, Terminated, vars, clientVars, hostVars, ClientOpen,
         ClientTakeData, ClientTakeGap, ClientGrantThrows, ClientTakeEnd, ClientTakeError,
         ClientDownClosed, ConsumerPull, ConsumerAbandon, ConsumerSeesError, ClientFinally,
         ClientExpire, ClientConnectionCloses, HostAccept, HostYield, HostPublish,
         HostEnd, HostFail, HostPublishThrows, HostStop, HostRecord, HostFinally,
         HostTakeCredit, HostTakeAbort, HostDrainEnds, HostExpire, HostUnregister,
         HostConnectionCloses, LoseOpen, NoResponders, DeliverDown, LoseDown, DeliverUp,
         LoseUp, MayPublish, HoldsCredit
<1>3. got' = got
  BY <1>2, IdleStep
<1> QED
  BY <1>1, <1>2, <1>3, <1>4 DEF Forsaken, Unserved, NobodyServes

\* No frame of `down` that was not lost is out of turn.
LEMMA ConsecutiveStep ==
  ASSUME TypeOK, CallControl, Numbering, Received, Consecutive, [Next]_vars, faults' = faults
  PROVE  Consecutive'
<1>t. /\ downNet \in Seq(Frame) /\ downSub \in Subscription /\ downSub.queue \in Seq(Frame)
      /\ expectedSeq \in Nat /\ seq \in Nat /\ faults \in Nat /\ produced \in Nat
      /\ Len(downNet) \in Nat /\ Len(downSub.queue) \in Nat
      /\ openNet \in BOOLEAN /\ downSub.open \in BOOLEAN
  BY FifoTypes DEF TypeOK, HostTypeOK, NetTypeOK, Subscription
<1>b. \A f \in Members(downNet) \cup Members(downSub.queue) : f.t = "bad" => Forsaken'
  BY ForsakenStays DEF Consecutive
<1>z. hpc' = "idle" => hpc = "idle" /\ expectedSeq' = 0 /\ seq' = 0
  BY IdleStep DEF Consecutive
<1>1. CASE /\ UNCHANGED <<downNet, downSub, expectedSeq>> /\ cpc' \in {cpc, "done", "failed"}
           /\ UNCHANGED <<seq, ended, hpc, openNet>>
  BY <1>b, <1>z, <1>1 DEF Consecutive
<1>2. CASE ClientOpen
  <2>1. /\ downSub' = Subscribed /\ cpc = "idle" /\ cpc' = "pulling"
        /\ UNCHANGED <<downNet, expectedSeq, seq, ended>>
    BY <1>2 DEF ClientOpen, hostVars
  <2>2. downSub'.queue = <<>> /\ downNet' = <<>> /\ expectedSeq' = 0 /\ seq' = 0
    BY <2>1, SubscriptionStart DEF Consecutive
  <2>3. Len(downNet') = 0 /\ Len(downSub'.queue) = 0
    BY <2>2
  <2>4. Members(downNet') = {} /\ Members(downSub'.queue) = {}
    BY <2>2 DEF Members
  <2> QED
    BY <1>z, <2>1, <2>2, <2>3, <2>4 DEF Consecutive, Runs, After
<1>3. CASE ClientTakeData
  <2>1. /\ HasFrame(downSub) /\ NextFrame(downSub).t = "d" /\ downSub' = Taken(downSub)
        /\ cpc = "pulling" /\ cpc' = "yielded" /\ expectedSeq' = expectedSeq + 1
        /\ UNCHANGED <<downNet, seq, ended, hpc>>
    BY <1>3 DEF ClientTakeData, Pulling, hostVars
  <2>2. /\ downSub'.open = downSub.open /\ downSub'.queue = Tail(downSub.queue)
        /\ downSub.queue # <<>>
    BY <1>t, <2>1, TakenLemma
  <2>4. Runs(downSub'.queue, expectedSeq')
    BY <1>t, <2>1, <2>2, RunsTail DEF Consecutive
  <2>5. /\ Runs(downNet, expectedSeq + Len(downSub.queue)) =>
             Runs(downNet, (expectedSeq + 1) + Len(Tail(downSub.queue)))
        /\ After(Tail(downSub.queue), downNet, expectedSeq + 1)
             = After(downSub.queue, downNet, expectedSeq)
    BY <1>t, <2>2, RunsOn
  <2>6. downSub'.open =>
          /\ Runs(downNet', expectedSeq' + Len(downSub'.queue))
          /\ ended' = "none" /\ hpc' # "idle" =>
               seq' = After(downSub'.queue, downNet', expectedSeq')
    BY <2>1, <2>2, <2>5 DEF Consecutive
  <2>7. \A f \in Members(downNet') \cup Members(downSub'.queue) : f.t = "bad" => Forsaken'
    BY <1>t, <1>b, <2>1, <2>2, MembersMove
  <2> QED
    BY <1>z, <2>1, <2>4, <2>6, <2>7 DEF Consecutive
<1>4. CASE ClientTakeGap \/ ClientGrantThrows \/ ClientTakeEnd \/ ClientTakeError
  <2>1. /\ HasFrame(downSub) /\ downNet' = downNet /\ cpc' \in {"failed", "done"}
        /\ downSub' \in {Taken(downSub), Unsubscribe(Taken(downSub))}
    BY <1>4 DEF ClientTakeGap, ClientGrantThrows, ClientTakeEnd, ClientTakeError,
       ClientFinally, Pulling, netVars
  <2>2. /\ Taken(downSub) \in Subscription /\ downSub.queue # <<>>
        /\ Taken(downSub).queue = Tail(downSub.queue)
    BY <1>t, <2>1, TakenLemma
  <2>3. downSub'.queue = Tail(downSub.queue)
    BY <2>1, <2>2, UnsubscribeLemma
  <2>4. \A f \in Members(downNet') \cup Members(downSub'.queue) : f.t = "bad" => Forsaken'
    BY <1>t, <1>b, <2>1, <2>2, <2>3, MembersMove
  <2> QED
    BY <1>z, <2>1, <2>4 DEF Consecutive
<1>5. CASE ConsumerPull
  BY <1>b, <1>z, <1>5 DEF ConsumerPull, hostVars, netVars, Consecutive
<1>6. CASE ConsumerAbandon \/ ConsumerSeesError \/ ClientExpire \/ ClientConnectionCloses
  <2>1. /\ downNet' = downNet /\ downSub' = Unsubscribe(downSub) /\ cpc' \in {cpc, "done"}
        /\ UNCHANGED <<expectedSeq, seq, ended, hpc, openNet>>
    BY <1>6 DEF ConsumerAbandon, ConsumerSeesError, ClientExpire, ClientConnectionCloses,
       ClientFinally, hostVars, netVars
  <2>2. downSub'.queue = downSub.queue /\ ~downSub'.open
    BY <1>t, <2>1, UnsubscribeLemma
  <2> QED
    BY <1>b, <1>z, <2>1, <2>2 DEF Consecutive
<1>7. CASE HostPublish \/ HostEnd
  <2>1. /\ downSub' = downSub /\ cpc' = cpc /\ expectedSeq' = expectedSeq /\ openNet' = openNet
        /\ seq' = seq + 1 /\ hpc # "idle" /\ ended = "none"
        /\ downNet' \in {Append(downNet, DataFrame(seq, produced)), Append(downNet, EndFrame(seq))}
    BY <1>7 DEF HostPublish, HostEnd, MayPublish, HoldsCredit, clientVars, Numbering, TypeOK,
       HostTypeOK
  <2>2. PICK f \in Frame : f.t \in {"d", "e"} /\ f.seq = seq /\ downNet' = Append(downNet, f)
    BY <1>t, <2>1, FrameTypes DEF DataFrame, EndFrame
  <2>4. cpc # "idle"
    BY <2>1 DEF Consecutive
  <2>5. ASSUME cpc \in {"pulling", "yielded"}, downSub.open
        PROVE  /\ Runs(downNet', expectedSeq + Len(downSub.queue))
               /\ seq' = After(downSub.queue, downNet', expectedSeq)
    <3>1. /\ Runs(downNet, expectedSeq + Len(downSub.queue))
          /\ seq = After(downSub.queue, downNet, expectedSeq)
      BY <2>1, <2>5 DEF Consecutive
    <3>2. /\ expectedSeq + Len(downSub.queue) \in Nat
          /\ seq = expectedSeq + Len(downSub.queue) + Len(downNet)
      BY <1>t, <3>1 DEF After
    <3>3. Runs(Append(downNet, f), expectedSeq + Len(downSub.queue))
      BY <1>t, <2>2, <3>1, <3>2, RunsAppend
    <3>4. After(downSub.queue, Append(downNet, f), expectedSeq)
            = After(downSub.queue, downNet, expectedSeq) + 1
      BY <1>t, RunsOn
    <3> QED
      BY <2>1, <2>2, <3>1, <3>3, <3>4
  <2>6. \A g \in Members(downNet') \cup Members(downSub'.queue) : g.t = "bad" => Forsaken'
    BY <1>t, <1>b, <2>1, <2>2, MembersMove
  <2> QED
    BY <1>z, <2>1, <2>4, <2>5, <2>6 DEF Consecutive
<1>8. CASE HostFail
  <2>1. /\ downSub' = downSub /\ cpc' = cpc /\ expectedSeq' = expectedSeq /\ openNet' = openNet
        /\ seq' = seq /\ hpc = "handler"
        /\ \/ downNet' = Append(downNet, ErrorFrame) /\ ended' = "x"
           \/ downNet' = downNet /\ ended' = ended
    BY <1>8 DEF HostFail, clientVars
  <2>2. cpc # "idle"
    BY <2>1 DEF Consecutive
  <2>3. CASE downNet' = downNet /\ ended' = ended
    BY <1>b, <1>z, <2>1, <2>2, <2>3 DEF Consecutive
  <2>4. CASE downNet' = Append(downNet, ErrorFrame) /\ ended' = "x"
    <3>1. ErrorFrame \in Frame /\ ErrorFrame.t = "x"
      BY FrameTypes DEF ErrorFrame
    <3>2. ASSUME cpc \in {"pulling", "yielded"}, downSub.open
          PROVE  Runs(downNet', expectedSeq + Len(downSub.queue))
      <4>1. Runs(downNet, expectedSeq + Len(downSub.queue))
        BY <3>2 DEF Consecutive
      <4>2. expectedSeq + Len(downSub.queue) \in Nat
        BY <1>t
      <4> QED
        BY <1>t, <2>4, <3>1, <4>1, <4>2, RunsAppend
    <3>3. \A g \in Members(downNet') \cup Members(downSub'.queue) : g.t = "bad" => Forsaken'
      BY <1>t, <1>b, <2>1, <2>4, <3>1, MembersMove
    <3> QED
      BY <1>z, <2>1, <2>2, <2>4, <3>2, <3>3 DEF Consecutive
  <2> QED
    BY <2>1, <2>3, <2>4
<1>9. CASE DeliverDown
  <2>1. /\ downNet # <<>> /\ downNet' = Tail(downNet)
        /\ downSub' = Receive(downSub, Head(downNet))
        /\ UNCHANGED <<cpc, expectedSeq, seq, ended, hpc, openNet>>
    <3>1. faults # faults + 1
      BY <1>t
    <3> QED
      BY <1>9, <3>1 DEF DeliverDown, hostVars
  <2>2. /\ Head(downNet) \in Frame /\ Tail(downNet) \in Seq(Frame)
        /\ Head(downNet) \in Members(downNet) /\ Members(Tail(downNet)) \subseteq Members(downNet)
        /\ Len(Tail(downNet)) = Len(downNet) - 1 /\ Len(downNet) > 0
    BY <1>t, <2>1, HeadTailProperties, MembersMove, EmptySeq
  <2>3. cpc # "idle"
    BY <2>1 DEF Consecutive
  <2>4. CASE ~downSub.open
    <3>1. downSub' = downSub
      BY <2>1, <2>4 DEF Receive
    <3> QED
      BY <1>b, <1>z, <2>1, <2>2, <2>3, <2>4, <3>1 DEF Consecutive
  <2>5. CASE downSub.open
    <3>1. downSub'.queue = Append(downSub.queue, Head(downNet)) /\ downSub'.open = downSub.open
      BY <1>t, <2>1, <2>5 DEF Receive, Subscription
    <3>3. ASSUME cpc \in {"pulling", "yielded"}
          PROVE  /\ Runs(downSub'.queue, expectedSeq)
                 /\ Runs(downNet', expectedSeq + Len(downSub'.queue))
                 /\ ended = "none" /\ hpc # "idle" =>
                      seq = After(downSub'.queue, downNet', expectedSeq)
      <4>1. /\ Runs(downSub.queue, expectedSeq)
            /\ Runs(downNet, expectedSeq + Len(downSub.queue))
            /\ ended = "none" /\ hpc # "idle" =>
                 seq = After(downSub.queue, downNet, expectedSeq)
        BY <2>5, <3>3 DEF Consecutive
      <4> DEFINE q == Append(downSub.queue, Head(downNet))
      <4>2. /\ Runs(q, expectedSeq) /\ Runs(Tail(downNet), expectedSeq + Len(q))
            /\ After(q, Tail(downNet), expectedSeq) = After(downSub.queue, downNet, expectedSeq)
        BY <1>t, <2>1, <4>1, RunsOn
      <4>3. downSub'.queue = q
        BY <3>1
      <4> HIDE DEF q
      <4> QED
        BY <2>1, <4>1, <4>2, <4>3
    <3>4. \A g \in Members(downNet') \cup Members(downSub'.queue) : g.t = "bad" => Forsaken'
      <4>1. Members(downSub'.queue) = Members(downSub.queue) \cup {Head(downNet)}
        BY <1>t, <2>2, <3>1, MembersMove
      <4> QED
        BY <1>b, <2>1, <2>2, <4>1
    <3> QED
      BY <1>z, <2>1, <2>3, <3>3, <3>4 DEF Consecutive
  <2> QED
    BY <2>4, <2>5
<1>10. CASE HostYield \/ HostPublishThrows \/ HostStop \/ HostRecord
  <2>1. /\ UNCHANGED <<downNet, downSub, expectedSeq, cpc, seq, ended, openNet>>
        /\ hpc # "idle"
    BY <1>10 DEF HostYield, HostPublishThrows, HostStop, HostRecord, HoldsCredit,
       clientVars, netVars
  <2>2. cpc # "idle"
    BY <2>1 DEF Consecutive
  <2> QED
    BY <1>b, <1>z, <2>1, <2>2 DEF Consecutive
<1>13. CASE HostAccept
  <2>1. /\ UNCHANGED <<downNet, downSub, expectedSeq, cpc, seq, ended>>
        /\ openNet = TRUE /\ openNet' = FALSE
    BY <1>t, <1>13 DEF HostAccept, clientVars
  <2>2. cpc # "idle" /\ hpc = "idle" /\ downNet = <<>> /\ downSub.queue = <<>>
    BY <2>1 DEF CallControl, Silent
  <2>3. seq = After(downSub.queue, downNet, expectedSeq)
    <3>1. Len(downNet) = 0 /\ Len(downSub.queue) = 0 /\ seq = 0 /\ expectedSeq = 0
      BY <2>2 DEF Consecutive
    <3> QED
      BY <3>1 DEF After
  <2> QED
    BY <1>b, <1>z, <2>1, <2>2, <2>3 DEF Consecutive
<1>11. CASE LoseOpen \/ NoResponders
  <2>1. /\ UNCHANGED <<downSub, expectedSeq, cpc, seq, ended, hpc>>
        /\ openNet = TRUE /\ openNet' = FALSE
        /\ \/ downNet' = downNet
           \/ downNet' = Append(downNet, Undecodable) /\ NobodyServes'
    BY <1>t, <1>11 DEF LoseOpen, NoResponders, clientVars, hostVars, NobodyServes
  <2>2. cpc # "idle" /\ hpc = "idle"
    BY <2>1 DEF CallControl
  <2>3. CASE downNet' = downNet
    BY <1>b, <1>z, <2>1, <2>2, <2>3 DEF Consecutive
  <2>4. CASE downNet' = Append(downNet, Undecodable) /\ NobodyServes'
    <3>1. Undecodable \in Frame /\ Undecodable.t = "bad"
      BY FrameTypes DEF Undecodable
    <3>2. ASSUME cpc \in {"pulling", "yielded"}, downSub.open
          PROVE  Runs(downNet', expectedSeq + Len(downSub.queue))
      <4>1. Runs(downNet, expectedSeq + Len(downSub.queue))
        BY <3>2 DEF Consecutive
      <4>2. expectedSeq + Len(downSub.queue) \in Nat
        BY <1>t
      <4> QED
        BY <1>t, <2>4, <3>1, <4>1, <4>2, RunsAppend
    <3>3. Forsaken'
      <4>1. got' = got /\ got \in Seq(Nat) /\ Len(got) = 0
        BY <2>1, <2>2, IdleStep DEF Consecutive, Received, TypeOK, ClientTypeOK
      <4>2. got = <<>>
        BY <4>1, EmptySeq
      <4> QED
        BY <2>1, <2>2, <2>4, <4>1, <4>2 DEF Forsaken, Unserved
    <3>4. \A g \in Members(downNet') \cup Members(downSub'.queue) : g.t = "bad" => Forsaken'
      BY <3>3
    <3> QED
      BY <1>z, <2>1, <2>2, <3>2, <3>4 DEF Consecutive
  <2> QED
    BY <2>1, <2>3, <2>4
<1>12. CASE LoseDown \/ LoseUp
  <2>1. faults # faults + 1
    BY <1>t
  <2> QED
    BY <1>12, <2>1 DEF LoseDown, LoseUp
<1> QED
  BY <1>1, <1>2, <1>3, <1>4, <1>5, <1>6, <1>7, <1>8, <1>9, <1>10, <1>11, <1>12, <1>13
     DEF Next, ClientTake, ConsumerNext, HandlerNext, HostLoop, HostDrain,
         Timeouts, Environment, Network, Terminated, vars, clientVars, netVars,
         hostVars, ClientDownClosed, HostTakeCredit, HostTakeAbort, HostDrainEnds,
         HostExpire, HostUnregister, HostConnectionCloses, DeliverUp

\* A generator stops with an error, a host with its timer, an inbox for a reason.
LEMMA StoppedStep ==
  ASSUME TypeOK, CallControl, Numbering, Stopped, [Next]_vars
  PROVE  Stopped'
<1>t. /\ openNet \in BOOLEAN /\ downSub \in Subscription /\ downSub.open \in BOOLEAN
      /\ clientUp \in BOOLEAN /\ expired \in BOOLEAN
  BY DEF TypeOK, ClientTypeOK, HostTypeOK, NetTypeOK, Subscription
<1>1. cpc' = "failed" => outcome' \notin {"none", "ok"}
  BY DEF Stopped, Next, ClientTake, ConsumerNext, HandlerNext, HostLoop, HostDrain,
         Timeouts, Environment, Network, Terminated, vars, clientVars, ClientOpen,
         ClientTakeData, ClientTakeGap, ClientGrantThrows, ClientTakeEnd,
         ClientTakeError, ClientDownClosed, ConsumerPull, ConsumerAbandon,
         ConsumerSeesError, ClientFinally, ClientExpire, ClientConnectionCloses, HostAccept,
         HostYield, HostPublish, HostEnd, HostFail, HostPublishThrows, HostStop,
         HostRecord, HostTakeCredit, HostTakeAbort, HostDrainEnds, HostExpire,
         HostUnregister, HostConnectionCloses, LoseOpen, NoResponders, DeliverDown, LoseDown,
         DeliverUp, LoseUp
<1>2. hpc' \in {"closing", "done"} => hTimer' = FALSE
  BY <1>t DEF Stopped, CallControl, Next, ClientTake, ConsumerNext, HandlerNext, HostLoop,
         HostDrain, Timeouts, Environment, Network, Terminated, vars, hostVars, ClientOpen,
         ClientTakeData, ClientTakeGap, ClientGrantThrows, ClientTakeEnd,
         ClientTakeError, ClientDownClosed, ConsumerPull, ConsumerAbandon,
         ConsumerSeesError, ClientExpire, ClientConnectionCloses, HostAccept,
         HostYield, HostPublish, HostEnd, HostFail, HostPublishThrows, HostStop,
         HostRecord, HostFinally, HostTakeCredit, HostTakeAbort, HostDrainEnds, HostExpire,
         HostUnregister, HostConnectionCloses, LoseOpen, NoResponders, DeliverDown, LoseDown,
         DeliverUp, LoseUp
<1>3. cpc' \in {"pulling", "yielded"} /\ downSub'.open = FALSE
        => expired' = TRUE \/ clientUp' = FALSE
  <2> SUFFICES ASSUME cpc' \in {"pulling", "yielded"}, downSub'.open = FALSE
               PROVE  expired' = TRUE \/ clientUp' = FALSE
    OBVIOUS
  <2>1. CASE ClientOpen
    BY <2>1 DEF ClientOpen, Subscribed
  <2>2. CASE ConsumerPull
    BY <2>2 DEF ConsumerPull, Stopped
  <2>6. CASE ClientTakeData
    <3>1. /\ cpc = "pulling" /\ HasFrame(downSub) /\ downSub' = Taken(downSub)
          /\ UNCHANGED <<expired, clientUp>>
      BY <2>6 DEF ClientTakeData, Pulling
    <3>2. downSub'.open = downSub.open
      BY <1>t, <3>1, TakenLemma
    <3> QED
      BY <3>1, <3>2 DEF Stopped
  <2>3. CASE ClientExpire \/ ClientConnectionCloses
    BY <2>3 DEF ClientExpire, ClientConnectionCloses
  <2>4. CASE DeliverDown
    <3>1. downSub'.open = downSub.open
      BY <1>t, <2>4 DEF DeliverDown, Receive, Subscription
    <3>2. UNCHANGED <<cpc, expired, clientUp>>
      BY <2>4 DEF DeliverDown
    <3> QED
      BY <3>1, <3>2 DEF Stopped
  <2>5. CASE UNCHANGED <<cpc, downSub, expired, clientUp>>
    BY <2>5 DEF Stopped
  <2> QED
    BY <2>1, <2>2, <2>3, <2>4, <2>5, <2>6
       DEF Next, ClientTake, ConsumerNext, HandlerNext, HostLoop, HostDrain,
           Timeouts, Environment, Network, Terminated, vars, clientVars, ClientTakeGap,
           ClientGrantThrows, ClientTakeEnd,
           ClientTakeError, ClientDownClosed, ConsumerAbandon, ConsumerSeesError,
           ClientFinally, HostAccept, HostYield, HostPublish, HostEnd, HostFail,
           HostPublishThrows, HostStop, HostRecord, HostTakeCredit, HostTakeAbort,
           HostDrainEnds, HostExpire, HostUnregister, HostConnectionCloses, LoseOpen, NoResponders,
           LoseDown, DeliverUp, LoseUp
<1> QED
  BY <1>1, <1>2, <1>3 DEF Stopped

\* The client reports an error of the transport only for a lost or garbled frame,
\* its closed connection, or a call that nobody serves.
LEMMA ExcusedStep ==
  ASSUME TypeOK, CallControl, DownFrames, faults = 0 => Consecutive, Stopped, Excused,
         [Next]_vars
  PROVE  Excused'
<1>t. faults \in Nat /\ clientUp \in BOOLEAN /\ expired \in BOOLEAN
  BY DEF TypeOK, ClientTypeOK, NetTypeOK
<1>1. (faults > 0 => faults' > 0) /\ (clientUp = FALSE => clientUp' = FALSE)
  <2>1. faults' = faults \/ faults' = faults + 1
    BY FaultsGrow
  <2>2. clientUp = FALSE => clientUp' = FALSE
    BY DEF Next, ClientTake, ConsumerNext, HandlerNext, HostLoop, HostDrain,
         Timeouts, Environment, Network, Terminated, vars, clientVars, ClientOpen,
         ClientTakeData, ClientTakeGap, ClientGrantThrows, ClientTakeEnd,
         ClientTakeError, ClientDownClosed, ConsumerPull, ConsumerAbandon,
         ConsumerSeesError, ClientExpire, ClientConnectionCloses, HostAccept,
         HostYield, HostPublish, HostEnd, HostFail, HostPublishThrows, HostStop,
         HostRecord, HostTakeCredit, HostTakeAbort, HostDrainEnds, HostExpire,
         HostUnregister, HostConnectionCloses, LoseOpen, NoResponders, DeliverDown, LoseDown,
         DeliverUp, LoseUp
  <2> QED
    BY <1>t, <2>1, <2>2
<1>2. CASE outcome' = outcome
  BY <1>t, <1>1, <1>2, ForsakenStays DEF Excused
<1>3. CASE ClientTakeGap
  <2>1. /\ Pulling /\ NextFrame(downSub).t \in {"d", "e"}
        /\ NextFrame(downSub).seq # expectedSeq /\ faults' = faults
    BY <1>3 DEF ClientTakeGap, InSequence
  <2>2. faults # 0
    <3> SUFFICES ASSUME Consecutive PROVE FALSE
      OBVIOUS
    <3>1. Runs(downSub.queue, expectedSeq) /\ downSub.queue # <<>>
      BY <2>1 DEF Pulling, HasFrame, Consecutive
    <3>2. NextFrame(downSub).seq = expectedSeq
      BY <2>1, <3>1, FifoTypes, RunsTail DEF NextFrame
    <3> QED
      BY <2>1, <3>2
  <2> QED
    BY <1>t, <2>1, <2>2 DEF Excused
<1>4. CASE ClientGrantThrows
  BY <1>4 DEF ClientGrantThrows, Excused
<1>5. CASE ClientTakeError
  <2>1. /\ Pulling /\ faults' = faults
        /\ outcome' = IF NextFrame(downSub).t = "x" THEN "remote" ELSE "__serde__"
        /\ NextFrame(downSub).t \in {"x", "bad"}
    BY <1>5 DEF ClientTakeError, netVars
  <2>2. NextFrame(downSub).t = "bad" => faults # 0 \/ Forsaken'
    <3> SUFFICES ASSUME Consecutive, NextFrame(downSub).t = "bad" PROVE Forsaken'
      OBVIOUS
    <3>1. downSub.queue \in Seq(Frame) /\ downSub.queue # <<>>
      BY <2>1, FifoTypes DEF Pulling, HasFrame
    <3>2. NextFrame(downSub) \in Members(downSub.queue)
      BY <3>1, MembersMove DEF NextFrame
    <3> QED
      BY <3>2, ForsakenStays DEF Consecutive
  <2> QED
    BY <1>t, <2>1, <2>2 DEF Excused
<1>6. CASE ClientDownClosed
  <2>1. /\ cpc = "pulling" /\ Exhausted(downSub) /\ UNCHANGED <<faults, clientUp>>
        /\ outcome' = IF expired THEN "__timeout__" ELSE "__transport__"
    BY <1>6 DEF ClientDownClosed, netVars
  <2>2. expired = TRUE \/ clientUp = FALSE
    BY <2>1 DEF Exhausted, Stopped
  <2> QED
    BY <2>1, <2>2 DEF Excused
<1>7. CASE ClientTakeEnd \/ ConsumerAbandon
  BY <1>7 DEF ClientTakeEnd, ConsumerAbandon, Excused
<1> QED
  BY <1>2, <1>3, <1>4, <1>5, <1>6, <1>7
     DEF Next, ClientTake, ConsumerNext, HandlerNext, HostLoop, HostDrain,
         Timeouts, Environment, Network, Terminated, vars, clientVars, ClientOpen,
         ClientTakeData, ConsumerPull, ConsumerSeesError, ClientExpire,
         ClientConnectionCloses, HostAccept,
         HostYield, HostPublish, HostEnd, HostFail, HostPublishThrows, HostStop,
         HostRecord, HostTakeCredit, HostTakeAbort, HostDrainEnds, HostExpire,
         HostUnregister, HostConnectionCloses, LoseOpen, NoResponders, DeliverDown, LoseDown,
         DeliverUp, LoseUp

\* The application learns once how the call ended.
LEMMA OutcomeOnce ==
  ASSUME Listening, [Next]_vars, outcome' \in {"none", "ok"}
  PROVE  outcome \in {"none", "ok"}
BY DEF Listening, Pulling, Next, ClientTake, ConsumerNext, HandlerNext, HostLoop, HostDrain,
       Timeouts, Environment, Network, Terminated, vars, clientVars, ClientOpen,
       ClientTakeData, ClientTakeGap, ClientGrantThrows, ClientTakeEnd,
       ClientTakeError, ClientDownClosed, ConsumerPull, ConsumerAbandon,
       ConsumerSeesError, ClientExpire, ClientConnectionCloses, HostAccept,
       HostYield, HostPublish, HostEnd, HostFail, HostPublishThrows, HostStop,
       HostRecord, HostTakeCredit, HostTakeAbort, HostDrainEnds, HostExpire,
       HostUnregister, HostConnectionCloses, LoseOpen, NoResponders, DeliverDown, LoseDown,
       DeliverUp, LoseUp

\* What is on its way to the host.
OnItsWay == Members(upNet) \cup Members(upSub.queue)

\* Only the client of a call it gives up puts a CancelFrame on its way, and only
\* the network one that does not decode.
LEMMA OnItsWayStep ==
  ASSUME TypeOK, Stopped, [Next]_vars, faults' = faults
  PROVE  \/ OnItsWay' \subseteq OnItsWay \cup {CreditFrame(1)}
         \/ /\ OnItsWay' \subseteq OnItsWay \cup {CancelFrame}
            /\ outcome' \notin {"none", "ok"}
<1>t. /\ upNet \in Seq(Frame) /\ upSub \in Subscription /\ upSub.queue \in Seq(Frame)
      /\ faults \in Nat
  BY FifoTypes
<1>f. CancelFrame \in Frame /\ CreditFrame(1) \in Frame
  BY FrameTypes
<1>1. CASE upNet' \in {upNet, Append(upNet, CreditFrame(1))} /\ upSub' = upSub
  <2>1. Members(Append(upNet, CreditFrame(1))) = Members(upNet) \cup {CreditFrame(1)}
    BY <1>t, <1>f, MembersMove
  <2>2. CASE upNet' = upNet
    BY <1>1, <2>2 DEF OnItsWay
  <2>3. CASE upNet' = Append(upNet, CreditFrame(1))
    <3>1. Members(upNet') = Members(upNet) \cup {CreditFrame(1)}
      BY <2>1, <2>3
    <3> QED
      BY <1>1, <3>1 DEF OnItsWay
  <2> QED
    BY <1>1, <2>2, <2>3
<1>2. CASE ConsumerAbandon \/ ConsumerSeesError
  <2>1. /\ upSub' = upSub /\ outcome' \notin {"none", "ok"}
        /\ upNet' \in {upNet, Append(upNet, CancelFrame)}
    <3>1. upNet' \in {upNet, Append(upNet, CancelFrame)}
      BY <1>2 DEF ConsumerAbandon, ConsumerSeesError, ClientFinally, CancelHost
    <3>2. upSub' = upSub
      BY <1>2 DEF ConsumerAbandon, ConsumerSeesError, hostVars
    <3>3. CASE ConsumerAbandon
      <4>1. outcome' = "abandoned"
        BY <3>3 DEF ConsumerAbandon
      <4> QED
        BY <3>1, <3>2, <4>1
    <3>4. CASE ConsumerSeesError
      <4>1. cpc = "failed" /\ outcome' = outcome
        BY <3>4 DEF ConsumerSeesError
      <4> QED
        BY <3>1, <3>2, <4>1 DEF Stopped
    <3> QED
      BY <1>2, <3>3, <3>4
  <2>2. Members(upNet') \subseteq Members(upNet) \cup {CancelFrame}
    BY <1>t, <1>f, <2>1, MembersMove
  <2> QED
    BY <2>1, <2>2 DEF OnItsWay
<1>3. CASE ClientTakeEnd
  <2>1. upNet' = upNet /\ upSub' = upSub
    BY <1>3 DEF ClientTakeEnd, ClientFinally, CancelHost, hostVars
  <2> QED
    BY <1>1, <2>1
<1>4. CASE HostAccept
  <2>1. upNet' = upNet /\ upSub'.queue = <<>>
    BY <1>4, SubscriptionStart DEF HostAccept
  <2>2. Members(upSub'.queue) = {}
    BY <2>1 DEF Members
  <2> QED
    BY <2>1, <2>2 DEF OnItsWay
<1>5. CASE upNet' = upNet /\ upSub' = Unsubscribe(upSub)
  <2>1. upSub'.queue = upSub.queue
    BY <1>t, <1>5, UnsubscribeLemma
  <2> QED
    BY <1>5, <2>1 DEF OnItsWay
<1>6. CASE HostTakeCredit \/ HostTakeAbort
  <2>1. upNet' = upNet /\ HasFrame(upSub) /\ upSub' = Taken(upSub)
    BY <1>6 DEF HostTakeCredit, HostTakeAbort, netVars
  <2>2. upSub.queue # <<>> /\ upSub'.queue = Tail(upSub.queue)
    BY <1>t, <2>1, TakenLemma
  <2>3. Members(upSub'.queue) \subseteq Members(upSub.queue)
    BY <1>t, <2>2, MembersMove
  <2> QED
    BY <2>1, <2>3 DEF OnItsWay
<1>7. CASE DeliverUp
  <2>1. /\ upNet # <<>> /\ upNet' = Tail(upNet)
        /\ upSub' \in {upSub, Receive(upSub, Head(upNet))}
    <3>1. faults # faults + 1
      BY <1>t
    <3> QED
      BY <1>7, <3>1 DEF DeliverUp, ReceiveUp
  <2>2. /\ Head(upNet) \in Frame /\ Head(upNet) \in Members(upNet)
        /\ Members(Tail(upNet)) \subseteq Members(upNet)
    BY <1>t, <2>1, HeadTailProperties, MembersMove
  <2>3. upSub'.queue \in {upSub.queue, Append(upSub.queue, Head(upNet))}
    BY <1>t, <2>1, <2>2, ReceiveLemma
  <2>4. Members(upSub'.queue) \subseteq Members(upSub.queue) \cup {Head(upNet)}
    <3>1. Members(Append(upSub.queue, Head(upNet))) = Members(upSub.queue) \cup {Head(upNet)}
      BY <1>t, <2>2, MembersMove
    <3> QED
      BY <2>3, <3>1
  <2> QED
    BY <2>1, <2>2, <2>4 DEF OnItsWay
<1>8. CASE LoseDown \/ LoseUp
  <2>1. faults # faults + 1
    BY <1>t
  <2> QED
    BY <1>8, <2>1 DEF LoseDown, LoseUp
<1> QED
  BY <1>1, <1>2, <1>3, <1>4, <1>5, <1>6, <1>7, <1>8
     DEF Next, ClientTake, ConsumerNext, HandlerNext, HostLoop, HostDrain,
         Timeouts, Environment, Network, Terminated, vars, netVars, hostVars, ClientOpen,
         ClientTakeData, GrantOne, ClientTakeGap, ClientGrantThrows, ClientTakeError,
         ClientDownClosed, ConsumerPull, ClientExpire, ClientConnectionCloses,
         HostYield, HostPublish, HostEnd, HostFail, HostPublishThrows, HostStop,
         HostFinally, HostRecord, HostDrainEnds, HostExpire, HostUnregister,
         HostConnectionCloses, LoseOpen, NoResponders, DeliverDown

\* A host that sent its EndFrame keeps no error unless the client gave the call up.
LEMMA UncancelledStep ==
  ASSUME TypeOK, CallControl, Numbering, Listening, Stopped, Uncancelled, [Next]_vars,
         faults' = faults
  PROVE  Uncancelled'
<1>t. aborted \in BOOLEAN /\ openNet \in BOOLEAN /\ hTimer \in BOOLEAN
  BY DEF TypeOK, HostTypeOK, NetTypeOK
<1>o. outcome' \in {"none", "ok"} => outcome \in {"none", "ok"}
  BY OutcomeOnce
<1>1. \A f \in OnItsWay' : f.t # "bad" /\ (outcome' \in {"none", "ok"} => f.t # "a")
  <2>1. CreditFrame(1).t = "c" /\ CancelFrame.t = "a"
    BY DEF CreditFrame, CancelFrame
  <2>2. \A f \in OnItsWay : f.t # "bad" /\ (outcome \in {"none", "ok"} => f.t # "a")
    BY DEF Uncancelled, OnItsWay
  <2> QED
    BY <1>o, <2>1, <2>2, OnItsWayStep
<1>2. CASE UNCHANGED <<hpc, aborted, callError, ended, recorded>>
  BY <1>o, <1>1, <1>2 DEF Uncancelled, OnItsWay
<1>3. CASE HostAccept \/ HostYield \/ HostPublish
  <2>1. /\ UNCHANGED <<aborted, callError, ended, recorded, outcome>>
        /\ hpc \notin {"closing", "done"}
    BY <1>t, <1>3 DEF HostAccept, HostYield, HostPublish, MayPublish, HoldsCredit, clientVars,
       CallControl
  <2> QED
    BY <1>1, <2>1 DEF Uncancelled, OnItsWay
<1>4. CASE HostEnd
  <2>1. /\ hpc = "handler" /\ aborted = FALSE /\ hpc' = "closing"
        /\ UNCHANGED <<aborted, callError, recorded>>
    BY <1>t, <1>4 DEF HostEnd, HostFinally
  <2>2. callError = "none"
    BY <2>1 DEF Uncancelled
  <2> QED
    BY <1>1, <2>1, <2>2 DEF Uncancelled, OnItsWay
<1>5. CASE HostFail \/ HostPublishThrows \/ HostStop
  <2>1. /\ hpc \in {"handler", "acquiring"} /\ hpc' = "closing" /\ recorded' = recorded
        /\ callError' \in {callError, "handler"} /\ ended' \in {ended, "x"}
    BY <1>5 DEF HostFail, HostPublishThrows, HostStop, HostFinally, HoldsCredit
  <2>2. ended = "none"
    BY <2>1 DEF Numbering, TypeOK, HostTypeOK
  <2> QED
    BY <1>1, <2>1, <2>2 DEF Uncancelled, OnItsWay
<1>6. CASE HostRecord
  <2>1. /\ UNCHANGED <<aborted, callError, ended, outcome>> /\ hpc' = "done"
        /\ recorded' = IF callError = "none" THEN "ok" ELSE "error"
    BY <1>6 DEF HostRecord, clientVars
  <2> QED
    BY <1>1, <2>1 DEF Uncancelled, OnItsWay
<1>7. CASE HostTakeAbort
  <2>1. /\ HasFrame(upSub) /\ NextFrame(upSub).t \in {"a", "bad"}
        /\ aborted' = TRUE /\ callError' # "none" /\ UNCHANGED <<ended, recorded, outcome>>
    BY <1>7 DEF HostTakeAbort, Abort, clientVars
  <2>2. NextFrame(upSub) \in OnItsWay
    <3>1. upSub.queue \in Seq(Frame) /\ upSub.queue # <<>>
      BY <2>1, FifoTypes DEF HasFrame
    <3> QED
      BY <3>1, MembersMove DEF NextFrame, OnItsWay
  <2>3. outcome \notin {"none", "ok"}
    BY <2>1, <2>2 DEF Uncancelled, OnItsWay
  <2> QED
    BY <1>1, <2>1, <2>3 DEF Uncancelled, OnItsWay
<1>8. CASE HostExpire
  <2>1. /\ hTimer = TRUE /\ aborted' = TRUE /\ callError' # "none"
        /\ UNCHANGED <<ended, recorded, hpc>>
    BY <1>t, <1>8 DEF HostExpire, Abort
  <2>2. hpc \notin {"closing", "done"}
    BY <2>1 DEF Stopped
  <2>3. ended = "none"
    BY <2>2 DEF Numbering, TypeOK, HostTypeOK
  <2> QED
    BY <1>1, <2>1, <2>3 DEF Uncancelled, OnItsWay
<1> QED
  BY <1>2, <1>3, <1>4, <1>5, <1>6, <1>7, <1>8
     DEF Next, ClientTake, ConsumerNext, HandlerNext, HostLoop, HostDrain,
         Timeouts, Environment, Network, Terminated, vars, hostVars, ClientOpen,
         ClientTakeData, ClientTakeGap, ClientGrantThrows, ClientTakeEnd,
         ClientTakeError, ClientDownClosed, ConsumerPull, ConsumerAbandon,
         ConsumerSeesError, ClientExpire, ClientConnectionCloses, HostTakeCredit,
         HostDrainEnds, HostUnregister, HostConnectionCloses, LoseOpen, NoResponders, DeliverDown,
         LoseDown, DeliverUp, LoseUp

\* AgreeInv holds in every state: the induction.
LEMMA AgreeInvCorrect ==
  Spec => [](TypeOK /\ CreditInv /\ OrderInv /\ StreamInv /\ AgreeInv)
<1>1. TypeOK /\ CreditInv /\ OrderInv /\ StreamInv /\ AgreeInv /\ [Next]_vars => AgreeInv'
  <2> SUFFICES ASSUME TypeOK, CreditInv, OrderInv, StreamInv, AgreeInv, [Next]_vars
               PROVE  AgreeInv'
    OBVIOUS
  <2>1. CallControl /\ Numbering /\ DownFrames /\ Received /\ Listening
    BY DEF CreditInv, OrderInv, StreamInv
  <2>2. Stopped' /\ Excused'
    BY <2>1, StoppedStep, ExcusedStep DEF AgreeInv
  <2>3. faults' = 0 => faults = 0 /\ faults' = faults
    BY FaultsGrow
  <2>4. ASSUME faults' = 0 PROVE Consecutive' /\ Uncancelled'
    BY <2>1, <2>3, <2>4, ConsecutiveStep, UncancelledStep DEF AgreeInv
  <2> QED
    BY <2>2, <2>4 DEF AgreeInv
<1> QED
  BY <1>1, AgreeInit, StreamInvCorrect, PTL DEF Spec

\* Where the network lost nothing, client and host agree on a success, a transport
\* error is that of a closed connection, and only a call that nobody serves is told
\* `__serde__`: for every window, all of the environment's events and both timers.
THEOREM BothAgree == Spec => []AgreeOnSuccess
<1>1. TypeOK /\ OrderInv /\ AgreeInv => AgreeOnSuccess
  <2> SUFFICES ASSUME TypeOK, OrderInv, AgreeInv PROVE AgreeOnSuccess
    OBVIOUS
  <2>1. faults = 0 \/ faults > 0
    BY FifoTypes
  <2>2. outcome = "ok" => recorded # "error" \/ faults > 0
    BY <2>1 DEF OrderInv, Completed, AgreeInv, Uncancelled
  <2> QED
    BY <2>2 DEF AgreeOnSuccess, AgreeInv, Excused, Forsaken
<1> QED
  BY <1>1, AgreeInvCorrect, PTL
===============================================================================
