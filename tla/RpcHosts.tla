------------------------------- MODULE RpcHosts -------------------------------
(***************************************************************************)
(* Hosts of one service that come and go on one of the two transports: the *)
(* memory bus, a map from method to its one registration, or NATS, where   *)
(* every instance subscribes the methods in a queue group and answers      *)
(* discovery.                                                              *)
(*                                                                         *)
(* host[h].pc  "new", "up", "failed" when Host.create threw, "stopped".    *)
(* setup is what does not change: the transport, the contract, the two     *)
(* middleware arrays and options, and for each host the methods of its     *)
(* contract, the handlers given for them and whether NATS accepts the name *)
(* of the service, and as what the NATS client takes its library's timeout.*)
(***************************************************************************)
EXTENDS RpcPipeline

CONSTANTS
  Hosts,   \* host instances, each created at most once
  Calls,   \* client calls, each made at most once
  Setups,  \* the setups to consider
  None     \* no host, no call

\* A contract is an object: its methods are distinct, in the order of its keys.
ASSUME SetupsAssumption ==
  /\ None \notin Hosts \cup Calls
  /\ \A s \in Setups :
       /\ s.transport \in {"memory", "nats"}
       /\ \A h \in Hosts : LET methods == s.hosts[h].methods IN
            /\ methods \in Seq({methods[i] : i \in DOMAIN methods})
            /\ \A i, j \in DOMAIN methods : methods[i] = methods[j] => i = j

VARIABLES
  setup,   \* the chosen setup
  host,    \* per instance: its life, its subscriptions and its statistics
  bus      \* MemoryBus.handlers: from each method to the host registered for it

Names(h) == setup.hosts[h].methods

IsMemory == setup.transport = "memory"
IsNats == setup.transport = "nats"

InitHosts ==
  /\ setup \in Setups
  /\ host = [h \in Hosts |-> [pc |-> "new", stops |-> 0, serves |-> {},
                              discovery |-> {}, queue |-> <<>>, serving |-> None,
                              requests |-> 0, errors |-> 0]]
  /\ bus = [m \in UNION {{Names(h)[i] : i \in DOMAIN Names(h)} : h \in Hosts} |-> None]

Life(h, pc) == [host EXCEPT ![h].pc = pc]

\* A handler is missing, or the name is outside of the ADR-32 charset: nothing is
\* registered.
CreateThrows(h) ==
  /\ host[h].pc = "new"
  /\ \/ MissingHandlers(Names(h), setup.hosts[h].handlers) # {}
     \/ IsNats /\ ~setup.hosts[h].nameValid
  /\ host' = Life(h, "failed")
  /\ UNCHANGED <<setup, bus>>

MayRegister(h) ==
  /\ host[h].pc = "new"
  /\ MissingHandlers(Names(h), setup.hosts[h].handlers) = {}

\* The memory transport registers method by method and throws at the first that
\* is taken; the ones before it stay.
RegisterMemory(h) ==
  /\ IsMemory /\ MayRegister(h)
  /\ LET taken == {i \in DOMAIN Names(h) : bus[Names(h)[i]] # None}
         mine  == {Names(h)[i] : i \in {j \in DOMAIN Names(h) : \A k \in taken : j < k}}
     IN /\ bus' = [m \in DOMAIN bus |-> IF m \in mine THEN h ELSE bus[m]]
        /\ host' = Life(h, IF taken = {} THEN "up" ELSE "failed")
  /\ UNCHANGED setup

Verbs == {"PING", "INFO", "STATS"}

\* The NATS transport starts discovery, then subscribes every method.
RegisterNats(h) ==
  /\ IsNats /\ MayRegister(h) /\ setup.hosts[h].nameValid
  /\ host' = [host EXCEPT ![h].pc = "up", ![h].discovery = Verbs,
                          ![h].serves = {Names(h)[i] : i \in DOMAIN Names(h)}]
  /\ UNCHANGED <<setup, bus>>

\* Mutant of Unregistered: the first method stays on the bus.
UnregisteredButFirst(h) ==
  [m \in DOMAIN bus |->
     IF \E i \in DOMAIN Names(h) : i > 1 /\ Names(h)[i] = m THEN None ELSE bus[m]]

\* unregister() of the bus deletes the key, whoever has registered it since.
Unregistered(h) ==
  [m \in DOMAIN bus |-> IF \E i \in DOMAIN Names(h) : Names(h)[i] = m THEN None ELSE bus[m]]

\* stop(): nothing keeps the caller from a second one.  What a NATS subscription
\* has queued may be served still or be dropped; a request in work is finished.
StopHost(h) ==
  /\ host[h].pc = "up" \/ (host[h].pc = "stopped" /\ host[h].stops < 2)
  /\ bus' = IF IsMemory THEN Unregistered(h) ELSE bus
  /\ \E kept \in {<<>>, host[h].queue} :
       host' = [host EXCEPT ![h].pc = "stopped", ![h].stops = @ + 1,
                            ![h].serves = {}, ![h].discovery = {}, ![h].queue = kept]
  /\ UNCHANGED setup

HostsNext ==
  \E h \in Hosts : CreateThrows(h) \/ RegisterMemory(h) \/ RegisterNats(h) \/ StopHost(h)

-------------------------------------------------------------------------------

Serves(h, m) == IF IsMemory THEN bus[m] = h ELSE m \in host[h].serves

StoppedTwice == \E h \in Hosts : host[h].stops > 1

\* A host serves the methods of its contract exactly while it is up: what a
\* stopped host had is gone, and a creation that failed leaves nothing where the
\* checks come first.  The two known exceptions of the memory bus are named: the
\* orphans of a registration that threw in the middle, and a second stop().
RegistryIsHosts ==
  \A h \in Hosts :
    /\ host[h].pc = "up" =>
         \/ \A i \in DOMAIN Names(h) : Serves(h, Names(h)[i])
         \/ IsMemory /\ StoppedTwice
    /\ host[h].pc \in {"new", "stopped"} => \A m \in DOMAIN bus : ~Serves(h, m)
    /\ host[h].pc = "failed" /\ (\E m \in DOMAIN bus : Serves(h, m)) =>
         IsMemory /\ ~Serves(h, Names(h)[Len(Names(h))])
    /\ host[h].discovery # {} <=> IsNats /\ host[h].pc = "up"
===============================================================================
