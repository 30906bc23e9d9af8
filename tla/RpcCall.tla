-------------------------------- MODULE RpcCall --------------------------------
(***************************************************************************)
(* Calls of one method, from the client's proxy through its transport to a *)
(* host's handler and back: all four kinds over the memory transport, unary *)
(* calls over NATS (the streaming kinds over NATS are ServerStreamCall and *)
(* UploadCalls).                                                           *)
(*                                                                         *)
(* call[c].pc  the client: "idle", "sent" to the transport, "waiting",     *)
(*             "answered", "done"                                          *)
(* call[c].at  the host: "none", "hosted" (captured by the memory bus),    *)
(*             "handling", "finished"                                      *)
(* Ghosts: ran (how often the handler was called), seen (with what         *)
(* context), last (what it did last), decided (a guard answered), replied  *)
(* (what the host answered).                                               *)
(***************************************************************************)
EXTENDS RpcHosts

CONSTANTS
  MaxItems   \* how much a handler streams, or reads of a stream

\* The middlewares are an array. Over NATS a call of this module is unary: the
\* streams are the modules of the server stream and of the duplex calls. An error of
\* the NATS library is a timeout if its message has 'TIMEOUT', which is the library's.
ASSUME MethodsAssumption ==
  \A s \in Setups :
    /\ s.method \in MethodInput
    /\ s.clientMw \in Seq({"aware", "plain", "trace", "guard"})
    /\ s.transport = "nats" => /\ NormalizeMethod(s.method).kind = "unary"
                              /\ s.timeoutTag \in {"__timeout__", "__transport__"}

VARIABLES
  call,  \* per call: where it is and what has become of it
  net    \* the NATS network: replies in flight, faults so far

vars == <<setup, host, bus, call, net>>

Called == "m"
TheMethod == NormalizeMethod(setup.method)
Kind == TheMethod.kind

Init ==
  /\ InitHosts
  /\ call = [c \in Calls |->
       [pc |-> "idle", at |-> "none", input |-> "good", value |-> "none", metadata |-> "none",
        traced |-> FALSE, host |-> None, ran |-> 0, seen |-> "none", last |-> "none",
        items |-> 0, fault |-> FALSE, decided |-> FALSE, answer |-> "none",
        replied |-> "none", outcome |-> "none", presented |-> "none",
        span |-> "none", hostSpan |-> "none"]]
  /\ net = [replies |-> {}, faults |-> 0]

Change(c, k) == call' = [call EXCEPT ![c] = k]

-------------------------------------------------------------------------------
(* The client. *)

ClosedSpan(span, tag) == IF span = "open" THEN SpanEnd(Kind, tag) ELSE span

\* The answer comes back through the client's chain to the application.
Ended(k, tag) ==
  [k EXCEPT !.pc = "done", !.answer = tag, !.outcome = tag,
            !.presented = Presented(setup.strategy, Kind, tag),
            !.span = ClosedSpan(@, tag)]

\* The application calls: arguments, request, middleware; then the transport, if
\* it supports the kind.
ClientCalls(c, input, value, decision) ==
  /\ call[c].pc = "idle" /\ c \in setup.calls
  /\ LET chain  == Chain(setup.clientMw, Kind)
         traced == Enters(chain, decision, "trace")
         k == [call[c] EXCEPT
                 !.input = IF TheMethod.input = "void" THEN "good" ELSE input,
                 !.value = value,
                 !.metadata = Metadata(setup.scoped, setup.contractContext, TheMethod,
                                       value, setup.matching),
                 !.traced = traced, !.decided = Stopped(chain, decision),
                 !.span = IF traced THEN "open" ELSE "none"]
     IN Change(c, IF Stopped(chain, decision) THEN Ended(k, Decided(decision))
                  ELSE IF Kind # "unary" /\ ~setup.streams THEN Ended(k, "raw")
                  ELSE [k EXCEPT !.pc = "sent",
                                 !.span = IF Kind = "serverStream"
                                          THEN ClosedSpan(@, "stream") ELSE @])
  /\ UNCHANGED <<setup, host, bus, net>>

ClientTakes(c) ==
  /\ call[c].pc = "answered"
  /\ Change(c, Ended(call[c], call[c].answer))
  /\ UNCHANGED <<setup, host, bus, net>>

\* The application leaves a stream of responses: the generators are returned.
ClientAbandons(c) ==
  /\ call[c].pc = "waiting" /\ call[c].at = "handling"
  /\ Kind \in {"serverStream", "duplex"} /\ call[c].items > 0
  /\ Change(c, [call[c] EXCEPT !.pc = "done", !.at = "finished", !.outcome = "abandoned",
                 !.span = ClosedSpan(@, "stream")])
  /\ UNCHANGED <<setup, host, bus, net>>

-------------------------------------------------------------------------------
(* The host, from its registered handler on. *)

Finished(k, tag) == [k EXCEPT !.at = "finished", !.replied = tag]

\* The middleware of the host, then its wrapper up to the handler: what becomes of
\* the call.
Begun(k, decision) ==
  LET chain    == Chain(setup.hostMw, Kind)
      traced   == Enters(chain, decision, "trace")
      promised == Kind = "serverStream" /\ IsPromise(chain, decision)
      stopped  == Stopped(chain, decision)
      context  == ExtractContext(setup.contractContext, TheMethod, k.metadata)
      Says(tag, ends) ==
        [Finished(k, tag) EXCEPT
           !.decided = @ \/ stopped,
           !.hostSpan = IF traced THEN SpanEnd(Kind, ends) ELSE "none"]
  IN CASE promised ->
            Says("raw", IF stopped THEN Decided(decision) ELSE "stream")
       [] ~promised /\ stopped -> Says(Decided(decision), Decided(decision))
       [] ~promised /\ ~stopped /\ context = "throws" ->
            Says(ContextFailure(Kind), ContextFailure(Kind))
       [] ~promised /\ ~stopped /\ context # "throws" ->
            IF Kind \in {"unary", "serverStream"} /\ ~ValidatesInput(TheMethod, k.input)
            THEN Says("__validation__", "__validation__")
            ELSE [k EXCEPT !.at = "handling", !.ran = @ + 1, !.seen = context,
                           !.hostSpan = IF traced THEN "open" ELSE "none"]

\* The handler is finished, or what it yields or throws finishes the call.
HandlerSays(k, result) ==
  LET tag == IF k.fault /\ result = "tagged" THEN "__validation__"
             ELSE HostAnswer(TheMethod, result)
  IN [Finished(k, tag) EXCEPT !.last = result, !.hostSpan = ClosedSpan(@, tag)]

\* The handler of a clientStream or duplex call reads an input; one that does not
\* fit the schema is thrown at it as a tagged error, which it may swallow.
HandlerReads(c, input) ==
  /\ call[c].at = "handling" /\ Kind \in {"clientStream", "duplex"}
  /\ ~call[c].fault /\ call[c].items < MaxItems
  /\ Change(c, [call[c] EXCEPT !.items = @ + 1, !.input = input,
                               !.fault = ~ValidatesInput(TheMethod, input)])
  /\ UNCHANGED <<setup, host, bus, net>>

\* The handler of a serverStream or duplex call yields an output that fits.
HandlerYields(c) ==
  /\ call[c].at = "handling" /\ Kind \in {"serverStream", "duplex"}
  /\ call[c].items < MaxItems
  /\ Change(c, [call[c] EXCEPT !.items = @ + 1])
  /\ UNCHANGED <<setup, host, bus, net>>

-------------------------------------------------------------------------------
(* The memory transport: the host's answer is the client's. *)

Returned(k) == IF k.at = "finished" THEN [k EXCEPT !.pc = "answered", !.answer = k.replied]
               ELSE k

\* What the bus has under the method's key.
Registered == IF Called \in DOMAIN bus THEN bus[Called] ELSE None

\* The bus looks the method up once; the registration it finds serves the call,
\* also when its host is stopped meanwhile.
MemoryInvokes(c) ==
  /\ IsMemory /\ call[c].pc = "sent"
  /\ LET k == [call[c] EXCEPT !.pc = "waiting"]
         Refused(tag) == [k EXCEPT !.pc = "answered", !.answer = tag]
     IN Change(c, CASE Registered = None -> Refused("__not_found__")
                    [] Registered # None /\ setup.servedAs # Kind ->
                         Refused("__kind_mismatch__")
                    [] OTHER -> [k EXCEPT !.at = "hosted", !.host = Registered])
  /\ UNCHANGED <<setup, host, bus, net>>

MemoryServes(c, decision) ==
  /\ call[c].at = "hosted"
  /\ Change(c, Returned(Begun(call[c], decision)))
  /\ UNCHANGED <<setup, host, bus, net>>

MemoryHandled(c, result) ==
  /\ IsMemory /\ call[c].at = "handling" /\ result # "unencodable"
  /\ Change(c, Returned(HandlerSays(call[c], result)))
  /\ UNCHANGED <<setup, host, bus, net>>

-------------------------------------------------------------------------------
(* Unary calls over NATS. *)

Subscribed == {h \in Hosts : Called \in host[h].serves}

\* The request is encoded and published; the queue group picks an instance, or
\* the server says that nobody listens.
NatsRequests(c) ==
  /\ IsNats /\ call[c].pc = "sent"
  /\ LET k == call[c]
     IN \/ /\ k.input = "unencodable"
           /\ Change(c, Ended(k, "raw"))
           /\ UNCHANGED host
        \/ /\ k.input # "unencodable" /\ Subscribed = {}
           /\ Change(c, [k EXCEPT !.pc = "answered", !.answer = "__transport__"])
           /\ UNCHANGED host
        \/ /\ k.input # "unencodable"
           /\ \E h \in Subscribed : host' = [host EXCEPT ![h].queue = Append(@, c)]
           /\ Change(c, [k EXCEPT !.pc = "waiting"])
  /\ UNCHANGED <<setup, bus, net>>

Fault(n) == net.faults < setup.faults /\ net' = [n EXCEPT !.faults = @ + 1]

\* Mutant of Record: an error is counted, its request is not.
RecordErrorsOnly(s, tag) ==
  [s EXCEPT !.serving = None, !.requests = @ + (IF tag = "ok" THEN 1 ELSE 0),
            !.errors = @ + (IF tag = "ok" THEN 0 ELSE 1)]

\* The endpoint's statistics once a request is answered.
Record(s, tag) ==
  [s EXCEPT !.serving = None, !.requests = @ + 1,
            !.errors = @ + (IF tag = "ok" THEN 0 ELSE 1)]

\* Respond, then record: an exception of the middleware and an answer that cannot
\* be encoded are answered with __internal__; so is a respond() that throws, but
\* the second attempt is swallowed.  s: what the host has become otherwise.
Responds(h, s, c, k) ==
  LET tag == IF k.replied = "raw" \/ (k.last = "unencodable" /\ k.replied = "ok")
             THEN "__internal__" ELSE k.replied
      Says(t) == /\ Change(c, [Finished(k, t) EXCEPT !.host = h])
                 /\ host' = [host EXCEPT ![h] = Record(s, t)]
  IN \/ Says(tag) /\ net' = [net EXCEPT !.replies = @ \cup {[call |-> c, tag |-> tag]}]
     \/ Says("__internal__") /\ Fault(net)

\* A subscription is served one request at a time: each is answered before the
\* next is taken.
NatsTakes(h, decision) ==
  /\ host[h].serving = None /\ host[h].queue # <<>>
  /\ LET c == Head(host[h].queue)
         s == [host[h] EXCEPT !.queue = Tail(@)]
         k == Begun(call[c], decision)
     IN IF k.at = "finished" THEN Responds(h, s, c, k)
        ELSE /\ Change(c, [k EXCEPT !.host = h])
             /\ host' = [host EXCEPT ![h] = [s EXCEPT !.serving = c]]
             /\ UNCHANGED net
  /\ UNCHANGED <<setup, bus>>

\* The payload does not decode: an answer of its own.
NatsTakesGarbled(h) ==
  /\ host[h].serving = None /\ host[h].queue # <<>>
  /\ LET c == Head(host[h].queue)
         s == [host[h] EXCEPT !.queue = Tail(@)]
     IN /\ Change(c, [Finished(call[c], "__serde__") EXCEPT !.host = h])
        /\ host' = [host EXCEPT ![h] = Record(s, "__serde__")]
        /\ Fault([net EXCEPT !.replies = @ \cup {[call |-> c, tag |-> "__serde__"]}])
  /\ UNCHANGED <<setup, bus>>

NatsHandled(h, result) ==
  /\ host[h].serving # None
  /\ LET c == host[h].serving
     IN Responds(h, host[h], c, HandlerSays(call[c], result))
  /\ UNCHANGED <<setup, bus>>

\* A reply arrives, does not decode, or is lost; nobody waits for a late one.
NatsReplies(r) ==
  /\ r \in net.replies
  /\ LET n == [net EXCEPT !.replies = @ \ {r}]
         Gives(tag) == IF call[r.call].pc # "waiting" THEN UNCHANGED call
                       ELSE Change(r.call, [call[r.call] EXCEPT !.pc = "answered",
                                                                !.answer = tag])
     IN \/ Gives(r.tag) /\ net' = n
        \/ Gives("__serde__") /\ Fault(n)
        \/ UNCHANGED call /\ Fault(n)
  /\ UNCHANGED <<setup, host, bus>>

\* Mutant of NatsTimesOut: a host that has taken the request stops the clock.
NatsTimesOutUntaken(c) ==
  /\ IsNats /\ call[c].pc = "waiting" /\ call[c].at = "none"
  /\ Change(c, [call[c] EXCEPT !.pc = "answered", !.answer = setup.timeoutTag])
  /\ UNCHANGED <<setup, host, bus, net>>

\* The request gives up after its timeout.
NatsTimesOut(c) ==
  /\ IsNats /\ call[c].pc = "waiting"
  /\ Change(c, [call[c] EXCEPT !.pc = "answered", !.answer = setup.timeoutTag])
  /\ UNCHANGED <<setup, host, bus, net>>

NatsCloses(c) ==
  /\ IsNats /\ call[c].pc = "waiting"
  /\ Change(c, [call[c] EXCEPT !.pc = "answered", !.answer = "__transport__"])
  /\ Fault(net)
  /\ UNCHANGED <<setup, host, bus>>

-------------------------------------------------------------------------------

\* A context argument matters only where it is sent.
Values == IF setup.scoped \/ HasContext(setup.contractContext, TheMethod)
          THEN {"value", "undefined"} ELSE {"undefined"}

Inputs == IF IsNats THEN {"good", "bad", "unencodable"} ELSE {"good", "bad"}

Made(mw) == IF \E i \in DOMAIN mw : mw[i] = "guard" THEN Decisions ELSE {"pass"}

ClientNext ==
  \E c \in Calls :
    \/ \E input \in Inputs, value \in Values, d \in Made(setup.clientMw) :
         ClientCalls(c, input, value, d)
    \/ ClientTakes(c)
    \/ ClientAbandons(c)

HandlerNext ==
  \E c \in Calls :
    \/ \E input \in {"good", "bad"} : HandlerReads(c, input)
    \/ HandlerYields(c)

MemoryNext ==
  \E c \in Calls :
    \/ MemoryInvokes(c)
    \/ \E d \in Made(setup.hostMw) : MemoryServes(c, d)
    \/ \E r \in Results : MemoryHandled(c, r)

NatsNext ==
  \/ \E c \in Calls : NatsRequests(c) \/ NatsTimesOut(c) \/ NatsCloses(c)
  \/ \E h \in Hosts :
       \/ \E d \in Made(setup.hostMw) : NatsTakes(h, d)
       \/ NatsTakesGarbled(h)
       \/ \E r \in Results : NatsHandled(h, r)
  \/ \E r \in net.replies : NatsReplies(r)

Next ==
  \/ HostsNext /\ UNCHANGED <<call, net>>
  \/ ClientNext \/ HandlerNext \/ MemoryNext \/ NatsNext

Spec == Init /\ [][Next]_vars

\* Whatever has been started goes on: the client's and the memory transport's code
\* (its handlers return in the end), and the timeout of a NATS request, which
\* does not depend on handlers.
Fairness ==
  \A c \in Calls :
    /\ WF_vars(ClientTakes(c)) /\ WF_vars(MemoryInvokes(c)) /\ WF_vars(NatsRequests(c))
    /\ WF_vars(\E d \in Decisions : MemoryServes(c, d))
    /\ WF_vars(\E r \in Results : MemoryHandled(c, r))
    /\ WF_vars(NatsTimesOut(c))

FairSpec == Spec /\ Fairness

-------------------------------------------------------------------------------
(* What a call may rely on. *)

Wrapped == Kind \in {"unary", "serverStream"}

Given(k) ==
  IF ~HasContext(setup.contractContext, TheMethod) THEN "undefined"
  ELSE IF k.value = "value" THEN "value" ELSE "empty"

\* The tag that the application gets tells what happened: a handler ran at most
\* once, with the context that the caller gave and an input that fits the schema;
\* "ok" comes from a handler that produced a valid output or from a middleware that
\* answered; a call that was not found, was of the wrong kind or had an invalid
\* input reached no handler, whatever hosts come and go and frames get lost.
AnswerMatchesCause ==
  \A c \in Calls : LET k == call[c] IN
    /\ k.ran > 0 => /\ k.ran = 1
                    /\ k.seen = Given(k)
                    /\ Wrapped /\ TheMethod.input = "schema" => k.input = "good"
    /\ k.outcome = "ok" => k.decided \/ k.last \in {"good", "bad", "unencodable"}
    /\ k.outcome = "ok" /\ k.last = "bad" => TheMethod.output = "void"
    /\ k.outcome = "tagged" => k.decided \/ k.last = "tagged"
    /\ k.outcome \in {"__not_found__", "__kind_mismatch__"} => k.ran = 0
    /\ k.outcome = "__validation__" => k.last = "bad" \/ k.input = "bad"
    /\ k.outcome = "__validation__" /\ Wrapped /\ k.input = "bad" => k.ran = 0

\* No span is left open by a call that is over, and for a unary call the client's
\* span is ok exactly if the application got an answer without an error; a tracing
\* middleware that is outermost sees every call.  (The span of a stream ends when
\* the stream is handed out, so nothing is claimed of its status.)
SpansTellTheOutcome ==
  \A c \in Calls : LET k == call[c] IN
    /\ k.pc = "done" => k.span # "open"
    /\ k.at = "finished" => k.hostSpan # "open"
    /\ k.pc = "done" /\ Kind = "unary" /\ k.span # "none" =>
         (k.span = "ok" <=> k.outcome = "ok")
    /\ k.pc = "done" /\ Wrapped /\ setup.clientMw # <<>> =>
         (setup.clientMw[1] = "trace" => k.span # "none")
    /\ k.hostSpan = "error" => k.replied # "ok"
    /\ k.hostSpan = "ok" /\ Kind = "unary" => k.replied \in {"ok", "__internal__"}

\* The statistics that discovery publishes count every answered request once, as an
\* error exactly if the answer was one; a client that succeeds was counted so.
StatsAgree ==
  /\ \A h \in Hosts :
       LET mine == {c \in Calls : IsNats /\ call[c].host = h /\ call[c].at = "finished"}
       IN /\ host[h].requests = Cardinality(mine)
          /\ host[h].errors = Cardinality({c \in mine : call[c].replied # "ok"})
  /\ \A c \in Calls : call[c].outcome = "ok" /\ call[c].host # None => call[c].replied = "ok"

\* Every call that was made is answered in the end: over NATS whatever is lost,
\* stuck behind another request or stopped, in memory if the handler returns.
CallSettles == \A c \in Calls : call[c].pc # "idle" ~> call[c].pc = "done"

\* host/middleware.ts says that existing middleware, which awaits next, keeps
\* working when the host wraps streaming handlers with the same chain: a stream
\* whose middleware neither refuses nor throws ends without a raw exception.
OrdinaryMiddlewareKeepsStreams ==
  \A c \in Calls : Kind = "serverStream" => call[c].outcome # "raw"
===============================================================================
