----------------------------- MODULE UploadCalls ------------------------------
(***************************************************************************)
(* One clientStream or one duplex call, with or without liveness timers:   *)
(* the system of UploadCall with the ends of both kinds, and what it       *)
(* promises.                                                               *)
(***************************************************************************)
EXTENDS ClientStreamCall, DuplexCall

ClientNext ==
  \/ ClientOpens \/ ClientTakesGrant \/ ClientReturns
  \/ CSClientNext \/ DXClientNext

HandlerNext == HostPulls \/ CSHandlerNext \/ DXHandlerNext

HostAccepts == CSHostAccepts \/ DXHostAccepts

HostNext == CSInputNext \/ DXHostNext \/ DXInputNext

HostExpires == CSHostExpires \/ DXHostExpires

Environment ==
  \/ ClientConnectionCloses \/ HostConnectionCloses \/ HostUnregisters
  \/ LoseOpen \/ NoResponders

Over == client.pc = "done" /\ host.pc \in {"idle", "done"}

Next ==
  \/ ClientNext \/ PumpNext \/ DXConsumerNext
  \/ HostAccepts \/ HandlerNext \/ HostNext
  \/ ClientExpires \/ HostExpires \/ Environment
  \/ DeliverDown \/ DeliverUp
  \/ Over /\ UNCHANGED vars

Spec == Init /\ [][Next]_vars

\* Code that is running keeps running, NATS delivers, an armed timer fires, the
\* application's iterable, its loop and the handler keep going or finish.
Fairness ==
  /\ WF_vars(ClientNext) /\ WF_vars(PumpNext) /\ WF_vars(DXConsumerNext)
  /\ WF_vars(HostAccepts) /\ WF_vars(LoseOpen \/ NoResponders)
  /\ WF_vars(HandlerNext) /\ WF_vars(CSInputNext) /\ WF_vars(DXHostNext)
  /\ WF_vars(DXDrains \/ DXDrainEnds) /\ WF_vars(DXHostReads)
  /\ WF_vars(ClientExpires) /\ WF_vars(HostExpires)
  /\ WF_vars(DeliverDown) /\ WF_vars(DeliverUp)

FairSpec == Spec /\ Fairness

-------------------------------------------------------------------------------
(* What the calls promise. *)

\* What the CreditFrames of a sequence of frames grant.
Granted(frames) ==
  LET given[n \in 0..Len(frames)] ==
        IF n = 0 THEN 0
        ELSE given[n - 1] + (IF frames[n].t = "c" THEN frames[n].data ELSE 0)
  IN  given[Len(frames)]

Held(credit, acquiring) ==
  IF acquiring /\ ~Parked(credit) /\ ~credit.cancelled THEN 1 ELSE 0

UpTokens ==
  pump.credit.credit + Held(pump.credit, pump.pc = "acquiring")
  + Count(net.up, "d") + Count(host.sub.queue, "d")
  + Cardinality({i \in 1..Len(host.queue) : host.queue[i] \in 1..call.inputs})
  + Granted(net.down) + Granted(client.sub.queue)

DownTokens ==
  host.credit.credit + Held(host.credit, host.pc = "acquiring")
  + Count(net.down, "d") + Count(client.sub.queue, "d")
  + Granted(net.up) + Granted(host.sub.queue)

\* Each direction has its own window and credits are conserved in it, although
\* both directions' frames and both windows' grants share the two inboxes: never
\* more than Window inputs, or outputs of a duplex call, are unconsumed.
WindowsConserved ==
  /\ UpTokens <= Window
  /\ IsDuplex => DownTokens <= Window

\* The handler is given inputs 1, 2, 3, ... without gap or repeat, whatever is
\* lost, and its input ends cleanly only after the client's half-close.
InputsInOrder ==
  /\ host.got = [i \in 1..Len(host.got) |-> i]
  /\ host.input = "ended" => pump.ended

\* The application is told "ok" only by a host that finished, with all of the
\* outputs in order, and which its own stats do not count as failed.
SuccessIsTheHosts ==
  client.outcome = "ok" =>
    /\ host.ended = "e" /\ host.callError = "none"
    /\ client.got = [i \in 1..(IF IsDuplex THEN host.seq - 1 ELSE 1) |-> i]

Healthy == net.faults = 0 /\ ~pump.threw

\* With an idle timer or a deadline every call that started is torn down on both
\* sides, pump, drain and parked producer included, whatever is lost or closed.
CallEnds ==
  /\ call.timed /\ client.pc # "idle" ~> client.pc = "done"
  /\ call.timed /\ host.pc # "idle" ~> host.pc = "done"

\* Without a timer, a call that meets no fault and whose iterable does not throw
\* completes on both sides: the host-ready gate, the two windows and the two
\* half-closes never wait for each other.
CallCompletes ==
  ~call.timed /\ []Healthy =>
    <>(/\ client.pc = "done" /\ host.pc = "done"
       /\ client.outcome \in {"ok", "remote", "abandoned"}
       /\ client.outcome = "ok" => host.recorded = "ok")
===============================================================================
