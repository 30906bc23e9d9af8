------------------------------ MODULE DuplexCall ------------------------------
(***************************************************************************)
(* The two ends of a duplex call: the generator invokeDuplex and the host  *)
(* arm serveDuplexCall, whose drainUp owns `up` for the whole call: it     *)
(* routes CreditFrames to the `down` window and everything else to the     *)
(* queue that the handler's input generator reads.                         *)
(***************************************************************************)
EXTENDS UploadCall

IsDuplex == call.kind = "duplex"

-------------------------------------------------------------------------------
(* The client's generator. *)

Suspends(c, grants) ==
  /\ client' = c
  /\ IF grants THEN PublishUp(CreditFrame(1)) ELSE UNCHANGED net
  /\ UNCHANGED <<call, pump, host>>

InOrder == ClientFrame.seq = client.seq

\* A DataFrame: the pull grants one credit (which throws on a closed connection),
\* then the output is yielded, or the gap before it.
DXClientTakesData ==
  /\ IsDuplex /\ Pulling /\ ClientFrame.t = "d"
  /\ LET c == [client EXCEPT !.sub = Taken(@)]
         failed == [c EXCEPT !.pc = "failed", !.terminated = TRUE,
                             !.hostDone = TRUE, !.outcome = "__transport__"]
     IN IF client.connected /\ InOrder
        THEN Suspends([c EXCEPT !.pc = "yielded", !.seq = @ + 1,
                                !.got = Append(@, ClientFrame.data)], TRUE)
        ELSE Suspends(failed, client.connected)

\* The EndFrame in order: the generator returns.
DXClientTakesEnd ==
  /\ IsDuplex /\ Pulling /\ ClientFrame.t = "e" /\ InOrder
  /\ ClientFinally([client EXCEPT !.sub = Taken(@), !.hostDone = TRUE,
                                  !.outcome = "ok"], client.expired)

\* An ErrorFrame, an EndFrame after a gap, a frame that does not decode: yield
\* the error.
DXClientTakesError ==
  /\ IsDuplex /\ Pulling
  /\ ClientFrame.t \in {"x", "bad"} \/ (ClientFrame.t = "e" /\ ~InOrder)
  /\ Suspends([client EXCEPT
        !.sub = Taken(@), !.pc = "failed", !.terminated = TRUE, !.hostDone = TRUE,
        !.outcome = CASE ClientFrame.t = "x" -> "remote"
                      [] ClientFrame.t = "e" -> "__transport__"
                      [] OTHER -> "__serde__"], FALSE)

\* `down` was torn down without a terminal frame.
DXClientDownCloses ==
  /\ IsDuplex /\ client.pc = "pulling" /\ Exhausted(client.sub)
  /\ Suspends([client EXCEPT !.pc = "failed", !.terminated = TRUE,
        !.outcome = IF client.expired THEN "__timeout__" ELSE "__transport__"], FALSE)

\* The application asks for the next output.
DXConsumerPulls ==
  /\ IsDuplex /\ client.pc = "yielded"
  /\ Suspends([client EXCEPT !.pc = "pulling"], FALSE)

\* The application leaves its loop, or has seen the error.
DXConsumerLeaves ==
  /\ IsDuplex
  /\ \/ /\ client.pc = "failed"
        /\ ClientFinally(client, ~client.hostDone \/ client.expired)
     \/ /\ "abandon" \in call.events /\ client.pc = "yielded"
        /\ ClientFinally([client EXCEPT !.outcome = "abandoned"], TRUE)

-------------------------------------------------------------------------------
(* The host's call. *)

\* Subscribe `up`, open both windows, start the monitor and drainUp, and pull the
\* handler's first response.
DXHostAccepts ==
  /\ IsDuplex
  /\ net.open /\ host.registered /\ host.connected
  /\ host' = [host EXCEPT !.pc = "handler", !.sub = Subscribed, !.timer = call.timed,
                          !.credit = NewController(Window), !.drain = "reading"]
  /\ net' = [net EXCEPT !.open = FALSE, !.down = Append(@, CreditFrame(Window))]
  /\ UNCHANGED <<call, client, pump>>

\* deliverInput: hand a signal to the input generator.
Signal(h, s) == [h EXCEPT !.queue = Append(@, s)]

\* Abort the whole call: release a producer parked at credit 0.
Aborted(h) == [h EXCEPT !.terminated = TRUE, !.credit = Cancel(@)]

Failure == 0  \* the error signal; inputs are 1, 2, ...
Half    == call.inputs + 1  \* the end signal

\* drainUp takes a frame of `up`.  A gap ends the drain but aborts nothing; a
\* frame that does not decode aborts, without an upTerminalError.
DXDrains ==
  /\ IsDuplex /\ host.drain = "reading" /\ HasFrame(host.sub)
  /\ LET f    == NextFrame(host.sub)
         h    == [host EXCEPT !.sub = Taken(@)]
         last == [h EXCEPT !.drain = "done"]
     IN host' = CASE f.t = "c" -> [h EXCEPT !.credit = Grant(@, f.data)]
                  [] f.t = "d" /\ Consecutive(f) ->
                       Signal([h EXCEPT !.expected = @ + 1], f.data)
                  [] f.t = "d" /\ ~Consecutive(f) -> Signal(last, Failure)
                  [] f.t = "e" -> Signal(h, Half)
                  [] f.t = "a" ->
                       Signal(Aborted([last EXCEPT !.upError = "cancelled"]), Failure)
                  [] f.t = "bad" -> Signal(Aborted(last), Failure)
  /\ UNCHANGED <<call, client, pump, net>>

\* `up` is closed and drained.
DXDrainEnds ==
  /\ IsDuplex /\ host.drain = "reading" /\ Exhausted(host.sub)
  /\ host' = LET h == [host EXCEPT !.drain = "done"]
             IN IF host.terminated THEN h ELSE Signal(h, Failure)
  /\ UNCHANGED <<call, client, pump, net>>

\* The input generator takes a signal.
DXHostReads ==
  /\ IsDuplex /\ host.pc = "reading" /\ host.queue # <<>>
  /\ LET h == [host EXCEPT !.queue = Tail(@)]
     IN \/ Head(host.queue) = Failure /\ InputOver(h, "failed")
        \/ Head(host.queue) = Half /\ InputOver(h, "ended")
        \/ /\ Head(host.queue) \in 1..call.inputs
           /\ InputTaken(h, Head(host.queue))
  /\ UNCHANGED <<call, client, pump>>

\* The finally up to `await drainUp`.
DXHostFinally(h) ==
  host' = [Aborted(h) EXCEPT !.pc = "closing", !.timer = FALSE,
                             !.sub = Unsubscribe(@)]

\* The handler yields an output: reserve a credit.
DXHostYields ==
  /\ IsDuplex /\ host.pc = "handler" /\ HandlerMayGoOn
  /\ host.produced < call.outputs
  /\ host' = [host EXCEPT !.pc = "acquiring", !.produced = @ + 1,
                          !.credit = Acquire(@)]
  /\ UNCHANGED <<call, client, pump, net>>

HoldsDownCredit == host.pc = "acquiring" /\ ~Parked(host.credit)

\* acquire() resolved and the call is alive: publish the output.
DXHostPublishes ==
  /\ IsDuplex /\ HoldsDownCredit /\ ~host.terminated
  /\ HostPublishes(<<DataFrame(host.seq, host.produced)>>)
  /\ IF host.connected
     THEN host' = [host EXCEPT !.pc = "handler", !.seq = @ + 1]
     ELSE DXHostFinally([host EXCEPT !.callError =
            IF host.upError # "none" THEN host.upError ELSE "handler"])
  /\ UNCHANGED <<call, client, pump>>

\* acquire() resolved because the call was aborted: the captured terminal, if
\* there is one, is what the stats record; nothing is published.
DXHostStops ==
  /\ IsDuplex /\ HoldsDownCredit /\ host.terminated
  /\ DXHostFinally([host EXCEPT !.callError = IF @ = "none" THEN host.upError ELSE @])
  /\ UNCHANGED <<call, client, pump, net>>

\* The handler is finished: forward the client's terminal, or half-close `down`.
DXHostEnds ==
  /\ IsDuplex /\ host.pc = "handler" /\ HandlerMayGoOn
  /\ IF host.upError # "none"
     THEN /\ HostPublishes(<<ErrorFrame>>)
          /\ DXHostFinally([host EXCEPT !.callError = host.upError, !.ended = "x"])
     ELSE /\ HostPublishes(<<EndFrame(host.seq)>>)
          /\ DXHostFinally(IF host.connected
               THEN [host EXCEPT !.ended = "e", !.seq = @ + 1]
               ELSE [host EXCEPT !.callError = "handler"])
  /\ UNCHANGED <<call, client, pump>>

\* The handler yields an error response, or throws below the wrapper.
DXHostFails ==
  /\ IsDuplex /\ host.pc = "handler" /\ HandlerMayFail
  /\ HostPublishes(<<ErrorFrame>>)
  /\ DXHostFinally([host EXCEPT !.callError = "handler", !.ended = "x"])
  /\ UNCHANGED <<call, client, pump>>

\* The rest of the finally, after `await drainUp`.
DXHostRecords ==
  /\ IsDuplex /\ host.pc = "closing" /\ host.drain = "done"
  /\ host' = [host EXCEPT !.pc = "done",
       !.recorded = IF host.callError = "none" THEN "ok" ELSE "error"]
  /\ UNCHANGED <<call, client, pump, net>>

\* The host's timer aborts the whole call.
DXHostExpires ==
  /\ IsDuplex /\ host.timer
  /\ host' = Signal(Aborted([host EXCEPT !.timer = FALSE, !.upError = "timeout",
                                         !.sub = Unsubscribe(@)]), Failure)
  /\ UNCHANGED <<call, client, pump, net>>

DXClientNext == DXClientTakesData \/ DXClientTakesEnd \/ DXClientTakesError
                \/ DXClientDownCloses

DXConsumerNext == DXConsumerPulls \/ DXConsumerLeaves

DXHandlerNext == DXHostYields \/ DXHostEnds \/ DXHostFails

DXHostNext == DXHostPublishes \/ DXHostStops \/ DXHostRecords

DXInputNext == DXDrains \/ DXDrainEnds \/ DXHostReads
===============================================================================
