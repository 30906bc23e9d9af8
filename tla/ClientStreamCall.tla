--------------------------- MODULE ClientStreamCall ---------------------------
(***************************************************************************)
(* The two ends of a clientStream call: the promise invokeClientStream and *)
(* the host arm serveClientStreamCall.  The host has no credit window and  *)
(* no drain of its own: `up` is read when the handler pulls an input.      *)
(***************************************************************************)
EXTENDS UploadCall

IsClientStream == call.kind = "clientStream"

\* A terminal frame of the host on `down`: its output, an ErrorFrame, or a
\* CancelFrame.  The output completes the call; its EndFrame is not waited for.
CSClientTakesResult ==
  /\ IsClientStream /\ Pulling /\ ClientFrame.t \in {"d", "x", "a"}
  /\ ClientFinally([client EXCEPT
        !.sub = Taken(@), !.hostDone = TRUE,
        !.got = IF ClientFrame.t = "d" THEN Append(@, ClientFrame.data) ELSE @,
        !.outcome = CASE ClientFrame.t = "d" -> "ok"
                      [] ClientFrame.t = "x" -> "remote"
                      [] OTHER -> "__transport__"], FALSE)

\* Mutant of CSClientTakesBareEnd: the EndFrame alone completes the call.
CSClientTakesBareEndAsResult ==
  /\ IsClientStream /\ Pulling /\ ClientFrame.t = "e"
  /\ ClientFinally([client EXCEPT !.sub = Taken(@), !.hostDone = TRUE,
                                  !.outcome = "ok"], FALSE)

\* An EndFrame without an output before it is ignored.
CSClientTakesBareEnd ==
  /\ IsClientStream /\ Pulling /\ ClientFrame.t = "e"
  /\ client' = [client EXCEPT !.sub = Taken(@)]
  /\ UNCHANGED <<call, pump, host, net>>

\* A frame that does not decode, or the end of `down`: the host is cancelled.
CSClientFails ==
  /\ IsClientStream
  /\ \/ /\ Pulling /\ ClientFrame.t = "bad"
        /\ ClientFinally([client EXCEPT !.sub = Taken(@), !.outcome = "__serde__"], TRUE)
     \/ /\ client.pc = "pulling" /\ Exhausted(client.sub)
        /\ ClientFinally([client EXCEPT !.outcome =
             IF client.expired THEN "__timeout__" ELSE "__transport__"], TRUE)

-------------------------------------------------------------------------------

\* The open request selects this instance: subscribe `up`, grant the initial
\* window, start the monitor, call the handler.
CSHostAccepts ==
  /\ IsClientStream
  /\ net.open /\ host.registered /\ host.connected
  /\ host' = [host EXCEPT !.pc = "handler", !.sub = Subscribed, !.timer = call.timed]
  /\ net' = [net EXCEPT !.open = FALSE, !.down = Append(@, CreditFrame(Window))]
  /\ UNCHANGED <<call, client, pump>>

\* The input generator takes a frame of `up`.  The sequence number of a DataFrame
\* is checked, that of an EndFrame is not; a gap or a frame that does not decode
\* fails the input without being remembered in upTerminalError.
CSHostReads ==
  /\ IsClientStream /\ host.pc = "reading" /\ HasFrame(host.sub)
  /\ LET f == NextFrame(host.sub)
         h == [host EXCEPT !.sub = Taken(@)]
     IN \/ /\ f.t = "d" /\ Consecutive(f)
           /\ InputTaken([h EXCEPT !.expected = @ + 1], f.data)
        \/ /\ (f.t = "d" /\ ~Consecutive(f)) \/ f.t = "bad"
           /\ InputOver(h, "failed")
        \/ f.t = "e" /\ InputOver(h, "ended")
        \/ f.t = "a" /\ InputOver([h EXCEPT !.upError = "cancelled"], "failed")
  /\ UNCHANGED <<call, client, pump>>

\* `up` was closed before the half-close: the handler is thrown at.
CSHostInputCloses ==
  /\ IsClientStream /\ host.pc = "reading" /\ Exhausted(host.sub)
  /\ InputOver(host, "failed")
  /\ UNCHANGED <<call, client, pump>>

\* The call ends with this error (or none): the finally has no await but the
\* record.
CSHostEnds(error, ended) ==
  host' = [host EXCEPT !.pc = "done", !.timer = FALSE, !.sub = Unsubscribe(@),
                       !.callError = error, !.ended = ended,
                       !.recorded = IF error = "none" THEN "ok" ELSE "error"]

\* The handler returns an output.  If the client has aborted, its terminal is
\* forwarded instead; otherwise the output and the EndFrame are published.
CSHostReturns ==
  /\ IsClientStream /\ host.pc = "handler" /\ HandlerMayGoOn
  /\ IF host.upError # "none"
     THEN /\ HostPublishes(<<ErrorFrame>>)
          /\ CSHostEnds(host.upError, "x")
     ELSE /\ HostPublishes(<<DataFrame(0, 1), EndFrame(1)>>)
          /\ IF host.connected THEN CSHostEnds("none", "e")
             ELSE CSHostEnds("handler", "none")
  /\ UNCHANGED <<call, client, pump>>

\* The handler fails: an error response, or a throw below the wrapper.
CSHostFails ==
  /\ IsClientStream /\ host.pc = "handler" /\ HandlerMayFail
  /\ HostPublishes(<<ErrorFrame>>)
  /\ CSHostEnds("handler", "x")
  /\ UNCHANGED <<call, client, pump>>

\* The host's timer: the next pull of the handler, or its return, learns of it.
CSHostExpires ==
  /\ IsClientStream /\ host.timer
  /\ ~(host.pc = "reading" /\ HasFrame(host.sub))
  /\ host' = [host EXCEPT !.timer = FALSE, !.upError = "timeout",
                          !.sub = Unsubscribe(@)]
  /\ UNCHANGED <<call, client, pump, net>>

CSClientNext == CSClientTakesResult \/ CSClientTakesBareEnd \/ CSClientFails

CSHandlerNext == CSHostReturns \/ CSHostFails

CSInputNext == CSHostReads \/ CSHostInputCloses
===============================================================================
