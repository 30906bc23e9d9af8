------------------------------- MODULE MCRpcCall -------------------------------
(* Two instances, two calls.  Over memory every kind of method, served as what  *)
(* it is or as something else, by a host and by one whose registration may fail *)
(* half way; over NATS two instances in one queue group and one fault.          *)
EXTENDS RpcCall

CONSTANTS h1, h2, c1, c2

MCHosts == {h1, h2}
MCCalls == {c1, c2}

MCHost(methods, handlers, valid) ==
  [methods |-> methods, handlers |-> handlers, nameValid |-> valid]

MCMethod(kind, context, input, output) ==
  [kind |-> kind, context |-> context, input |-> input, output |-> output]

Plain == MCHost(<<"m">>, {"m"}, TRUE)
Late  == MCHost(<<"n", "m">>, {"n", "m"}, TRUE)
Short == MCHost(<<"n", "m">>, {"n"}, TRUE)
Named == MCHost(<<"m">>, {"m"}, FALSE)

Pair(a, b) == [h \in MCHosts |-> IF h = h1 THEN a ELSE b]

MCSetup(transport, method, served, hosts, clientMw, hostMw, calls, faults) ==
  [transport |-> transport, contractContext |-> "keys", method |-> method,
   servedAs |-> served, strategy |-> "result", scoped |-> FALSE, matching |-> TRUE,
   streams |-> TRUE, hosts |-> hosts, clientMw |-> clientMw, hostMw |-> hostMw,
   calls |-> calls, faults |-> faults, timeoutTag |-> "__timeout__"]

InMemory(method, served, clientMw, hostMw) ==
  MCSetup("memory", method, served, Pair(Plain, Late), clientMw, hostMw, {c1}, 0)

OverNats(method, hosts, clientMw, hostMw) ==
  MCSetup("nats", method, "unary", hosts, clientMw, hostMw, MCCalls, 1)

AsIs(kind) == MCMethod(kind, "undefined", "schema", "schema")

MCSetups ==
  {InMemory(AsIs(k), k, mw, <<>>) : k \in Kinds, mw \in {<<>>, <<"trace", "guard">>}}
  \cup {InMemory(AsIs("unary"), s, <<"guard", "trace">>, <<"aware", "guard", "trace">>) :
          s \in {"unary", "serverStream"}}
  \cup {InMemory(AsIs("serverStream"), "serverStream", <<"trace">>, mw) :
          mw \in {<<"aware">>, <<"plain">>, <<"trace", "guard">>}}
  \cup {InMemory(MCMethod("undefined", "empty", "undefined", "undefined"), "unary",
                 <<>>, <<>>)}
  \cup {[InMemory(AsIs(k), k, <<"trace">>, <<>>) EXCEPT !.matching = FALSE] : k \in Kinds}
  \cup {[InMemory(MCMethod(k, "empty", "schema", "void"), k, <<"trace">>, <<>>) EXCEPT
           !.streams = b, !.scoped = ~b, !.strategy = "throw"] :
          k \in Kinds, b \in BOOLEAN}
  \cup {[InMemory(AsIs("unary"), "unary", <<>>, <<>>) EXCEPT !.hosts = Pair(Plain, Short)]}
  \cup {[OverNats(AsIs("unary"), Pair(Plain, Plain), <<"trace">>, <<"guard", "trace">>)
           EXCEPT !.calls = {c1}],
        [OverNats(MCMethod("unary", "empty", "void", "schema"), Pair(Plain, Plain), <<>>,
                  <<"trace">>)
           EXCEPT !.timeoutTag = "__transport__"],
        [OverNats(MCMethod("unary", "empty", "void", "void"), Pair(Plain, Named), <<>>, <<>>)
           EXCEPT !.faults = 0]}

\* A logging middleware around a stream.
Logged == {InMemory(AsIs("serverStream"), "serverStream", <<>>, <<"plain">>)}
===============================================================================
