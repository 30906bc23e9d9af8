------------------------------ MODULE RpcPipeline ------------------------------
(***************************************************************************)
(* What one call goes through that has no state of its own: the contract,  *)
(* the arguments and context of the client, the middleware chains of both  *)
(* ends, the validating wrapper of the host, the client's reading of the   *)
(* answer.                                                                 *)
(*                                                                         *)
(* Data are abstracted to what the code tells apart.  An answer is its     *)
(* tag: "ok", "tagged" (an error that carries a _tag, declared or not), a  *)
(* reserved __tag__, or "raw" for an exception that is no ContractError.   *)
(***************************************************************************)
EXTENDS Naturals, Sequences, FiniteSets

Kinds == {"unary", "serverStream", "clientStream", "duplex"}

-------------------------------------------------------------------------------
(* The contract. *)

\* What a contract may say of a method; "undefined" is left to the default.
MethodInput ==
  [kind : Kinds \cup {"undefined"}, context : {"undefined", "empty", "keys"},
   input : {"undefined", "void", "schema"}, output : {"undefined", "void", "schema"}]

OrDefault(value, default) == IF value = "undefined" THEN default ELSE value

NormalizeMethod(m) ==
  [kind |-> OrDefault(m.kind, "unary"), context |-> m.context,
   input |-> OrDefault(m.input, "void"), output |-> OrDefault(m.output, "void")]

\* A method's own context, even an empty one, overrides that of the contract.
HasContext(contractContext, method) ==
  OrDefault(method.context, contractContext) = "keys"

-------------------------------------------------------------------------------
(* The client's request. *)

\* The context argument is there for a method with context, or through the scoped
\* client of withContext; an undefined value encodes to no entry.  `matching`:
\* both ends were given the same propagator.
Metadata(scoped, contractContext, method, value, matching) ==
  IF ~scoped /\ ~HasContext(contractContext, method) THEN "none"
  ELSE IF value = "undefined" THEN "absent"
  ELSE IF matching THEN "value" ELSE "garbled"

\* What processResponse and mapResponseStream make of an answer: streams throw
\* their errors in result mode too, and exceptions pass in both modes.
Presented(strategy, kind, tag) ==
  CASE tag = "raw" -> "throws"
    [] tag # "raw" /\ strategy = "result" /\ kind \in {"unary", "clientStream"} -> "result"
    [] tag = "ok" /\ ~(strategy = "result" /\ kind \in {"unary", "clientStream"}) -> "value"
    [] OTHER -> "ContractError"

-------------------------------------------------------------------------------
(* Middleware: a sequence of                                               *)
(*   "aware"  hands on what next returns, a promise or a stream,           *)
(*   "plain"  awaits next: the logging and timing middleware,              *)
(*   "trace"  awaits next within a span: the middleware of rpc-otel,       *)
(*   "guard"  passes, refuses with an error, answers, or throws.           *)

Decisions == {"pass", "refuse", "answer", "throw"}

\* Only unary and serverStream calls go through the chain, on both ends.
Chain(middleware, kind) ==
  IF kind \in {"unary", "serverStream"} THEN middleware ELSE <<>>

\* Mutant of Enters: the first middleware of the array is the innermost.
EntersInnermostFirst(chain, decision, m) ==
  \E i \in DOMAIN chain :
    chain[i] = m
    /\ \A j \in DOMAIN chain : j > i /\ chain[j] = "guard" => decision = "pass"

\* The first middleware is outermost: m is entered unless a guard before it stops.
Enters(chain, decision, m) ==
  \E i \in DOMAIN chain :
    chain[i] = m
    /\ \A j \in DOMAIN chain : j < i /\ chain[j] = "guard" => decision = "pass"

Stopped(chain, decision) ==
  decision # "pass" /\ \E i \in DOMAIN chain : chain[i] = "guard"

Decided(decision) ==
  CASE decision = "refuse" -> "tagged"
    [] decision = "answer" -> "ok"
    [] decision = "throw"  -> "raw"

\* A middleware that awaits, or that answers itself, turns the host's stream into
\* a promise, which `for await` of the transports cannot iterate.  (The client's
\* toResponseStream awaits first.)
IsPromise(chain, decision) ==
  \/ Enters(chain, decision, "plain") \/ Enters(chain, decision, "trace")
  \/ Stopped(chain, decision)

\* The tracing middleware ends its span with what next resolved to: for a stream
\* that is the stream itself, which carries no error.
SpanEnd(kind, tag) ==
  IF tag = "ok" \/ (kind = "serverStream" /\ tag = "stream") THEN "ok" ELSE "error"

-------------------------------------------------------------------------------
(* The host's wrapper around a handler. *)

ExtractContext(contractContext, method, metadata) ==
  IF ~HasContext(contractContext, method) THEN "undefined"
  ELSE CASE metadata \in {"none", "absent"} -> "empty"
         [] metadata = "value" -> "value"
         [] metadata = "garbled" -> "throws"

\* The wrappers of the kinds with a stream of responses extract the context
\* outside of their try.
ContextFailure(kind) ==
  IF kind \in {"serverStream", "duplex"} THEN "raw" ELSE "__unknown__"

\* Mutant of ValidatesInput: no validation.
ValidatesInputNever(method, input) == TRUE

ValidatesInput(method, input) == method.input = "void" \/ input = "good"

\* What a handler does: return (or yield) an output that fits or does not fit the
\* schema or cannot be encoded, throw something with a _tag, throw anything else.
Results == {"good", "bad", "unencodable", "tagged", "thrown"}

\* validateOutput and toErrorResponse.
HostAnswer(method, result) ==
  CASE result = "good" -> "ok"
    [] result \in {"bad", "unencodable"} ->
         IF result = "bad" /\ method.output = "schema" THEN "__validation__" ELSE "ok"
    [] result = "tagged" -> "tagged"
    [] result = "thrown" -> "__unknown__"

\* validateHandlers: the methods of the contract without a handler.
MissingHandlers(methods, handlers) == {i \in DOMAIN methods : methods[i] \notin handlers}
===============================================================================
