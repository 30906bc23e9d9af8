----------------------------- MODULE RpcCallProofs ----------------------------
(* The registry of an RPC transport follows the life of its hosts, and a call  *)
(* ends with what its host said of it, for any number of instances, calls and  *)
(* methods, any overlap of their contracts and any middlewares.                *)
EXTENDS RpcCall, FiniteSetTheorems, TLAPS

NameSet(h) == {Names(h)[i] : i \in DOMAIN Names(h)}
Methods == UNION {NameSet(h) : h \in Hosts}

Lives == {"new", "up", "failed", "stopped"}
HostState == [pc : Lives, stops : Nat, serves : SUBSET Methods,
              discovery : SUBSET Verbs, queue : Seq(Calls), serving : Calls \cup {None},
              requests : Nat, errors : Nat]

RegistryTypeOK ==
  /\ setup \in Setups
  /\ host \in [Hosts -> HostState]
  /\ bus \in [Methods -> Hosts \cup {None}]

\* On the bus a host has only methods of its own contract.
OwnMethods == \A m \in Methods : bus[m] # None => m \in NameSet(bus[m])

\* A host that is stopped has been stopped.
StopsCounted == \A h \in Hosts : host[h].pc = "stopped" => host[h].stops > 0

\* Subscriptions and discovery are those of the NATS hosts that are up.
SubscribedWhileUp ==
  \A h \in Hosts :
    /\ host[h].serves = IF IsNats /\ host[h].pc = "up" THEN NameSet(h) ELSE {}
    /\ host[h].discovery = IF IsNats /\ host[h].pc = "up" THEN Verbs ELSE {}

RegistryInv == RegistryTypeOK /\ OwnMethods /\ StopsCounted /\ SubscribedWhileUp /\ RegistryIsHosts

-------------------------------------------------------------------------------

LEMMA Contracts ==
  ASSUME setup \in Setups, NEW h \in Hosts
  PROVE  /\ Names(h) \in Seq(NameSet(h))
         /\ \A i, j \in DOMAIN Names(h) : Names(h)[i] = Names(h)[j] => i = j
         /\ NameSet(h) \subseteq Methods
         /\ IsMemory <=> ~IsNats
<1> DEFINE methods == setup.hosts[h].methods
<1>1. /\ setup.transport \in {"memory", "nats"}
      /\ methods \in Seq({methods[i] : i \in DOMAIN methods})
      /\ \A i, j \in DOMAIN methods : methods[i] = methods[j] => i = j
  BY SetupsAssumption
<1>2. Names(h) \in Seq(NameSet(h))
  BY <1>1 DEF Names, NameSet
<1> QED
  BY <1>1, <1>2 DEF Names, NameSet, Methods, IsMemory, IsNats

\* A step that leaves every host's life, subscriptions and discovery alone, and the
\* bus, keeps the registry as it is.
LEMMA RegistryKept ==
  ASSUME RegistryInv, UNCHANGED <<setup, bus>>, host' \in [Hosts -> HostState],
         \A h \in Hosts : /\ host'[h].pc = host[h].pc
                          /\ host'[h].stops = host[h].stops
                          /\ host'[h].serves = host[h].serves
                          /\ host'[h].discovery = host[h].discovery
  PROVE  RegistryInv'
<1>1. /\ \A h \in Hosts : Names(h)' = Names(h) /\ NameSet(h)' = NameSet(h)
      /\ Methods' = Methods /\ HostState' = HostState
      /\ IsMemory' = IsMemory /\ IsNats' = IsNats
  BY DEF Names, NameSet, Methods, HostState, IsMemory, IsNats
<1>2. RegistryTypeOK'
  BY <1>1 DEF RegistryInv, RegistryTypeOK
<1>3. OwnMethods'
  BY <1>1, SetupsAssumption DEF RegistryInv, RegistryTypeOK, OwnMethods
<1>4. StopsCounted' /\ SubscribedWhileUp'
  BY <1>1 DEF RegistryInv, StopsCounted, SubscribedWhileUp
<1>5. \A m : \A h \in Hosts : Serves(h, m)' <=> Serves(h, m)
  BY <1>1 DEF Serves
<1>6. StoppedTwice' <=> StoppedTwice
  BY DEF StoppedTwice
<1>7. RegistryIsHosts'
  BY <1>1, <1>5, <1>6 DEF RegistryInv, RegistryIsHosts
<1> QED
  BY <1>2, <1>3, <1>4, <1>7 DEF RegistryInv

-------------------------------------------------------------------------------
(* What becomes of a host: setup does not change, and neither do the methods.  *)

LEMMA SameContracts ==
  ASSUME UNCHANGED setup
  PROVE  /\ \A h \in Hosts : Names(h)' = Names(h) /\ NameSet(h)' = NameSet(h)
         /\ Methods' = Methods /\ HostState' = HostState
         /\ IsMemory' = IsMemory /\ IsNats' = IsNats
BY DEF Names, NameSet, Methods, HostState, IsMemory, IsNats

LEMMA HasLast ==
  ASSUME RegistryInv, NEW h \in Hosts, NEW m \in Methods, Serves(h, m)
  PROVE  Names(h)[Len(Names(h))] \in Methods
<1>1. m \in NameSet(h)
  BY SetupsAssumption DEF RegistryInv, OwnMethods, SubscribedWhileUp, Serves
<1>2. Names(h) \in Seq(NameSet(h)) /\ NameSet(h) \subseteq Methods
  BY Contracts DEF RegistryInv, RegistryTypeOK
<1>3. Len(Names(h)) \in DOMAIN Names(h)
  BY <1>1, <1>2 DEF NameSet
<1> QED
  BY <1>2, <1>3

LEMMA CreationFails ==
  ASSUME RegistryInv, NEW h \in Hosts, CreateThrows(h)
  PROVE  RegistryInv'
<1>1. /\ host[h].pc = "new" /\ UNCHANGED <<setup, bus>>
      /\ host' = [host EXCEPT ![h].pc = "failed"]
      /\ host \in [Hosts -> HostState] /\ bus \in [Methods -> Hosts \cup {None}]
  BY DEF CreateThrows, Life, RegistryInv, RegistryTypeOK
<1>2. host' \in [Hosts -> HostState]
  BY <1>1 DEF HostState, Lives
<1>3. /\ \A g \in Hosts \ {h} : host'[g] = host[g]
      /\ host'[h].pc = "failed" /\ host'[h].stops = host[h].stops
      /\ host'[h].serves = host[h].serves /\ host'[h].discovery = host[h].discovery
  BY <1>1 DEF HostState
<1>4. RegistryTypeOK'
  BY <1>1, <1>2, SameContracts DEF RegistryInv, RegistryTypeOK
<1>5. OwnMethods'
  BY <1>1, SameContracts, SetupsAssumption DEF RegistryInv, RegistryTypeOK, OwnMethods
<1>6. StopsCounted' /\ SubscribedWhileUp'
  BY <1>1, <1>3, SameContracts DEF RegistryInv, StopsCounted, SubscribedWhileUp
<1>7. \A m : \A g \in Hosts : Serves(g, m)' <=> Serves(g, m)
  BY <1>1, <1>3, SameContracts DEF Serves
<1>8. StoppedTwice' <=> StoppedTwice
  BY <1>3 DEF StoppedTwice
<1>9. \A m \in DOMAIN bus : ~Serves(h, m)
  BY <1>1 DEF RegistryInv, RegistryIsHosts
<1>10. RegistryIsHosts'
  BY <1>1, <1>3, <1>7, <1>8, <1>9, SameContracts DEF RegistryInv, RegistryIsHosts
<1> QED
  BY <1>4, <1>5, <1>6, <1>10 DEF RegistryInv

LEMMA NatsStarts ==
  ASSUME RegistryInv, NEW h \in Hosts, RegisterNats(h)
  PROVE  RegistryInv'
<1>1. /\ IsNats /\ host[h].pc = "new" /\ UNCHANGED <<setup, bus>>
      /\ host' = [host EXCEPT ![h].pc = "up", ![h].discovery = Verbs, ![h].serves = NameSet(h)]
      /\ setup \in Setups
      /\ host \in [Hosts -> HostState] /\ bus \in [Methods -> Hosts \cup {None}]
  BY DEF RegisterNats, MayRegister, NameSet, RegistryInv, RegistryTypeOK
<1>2. NameSet(h) \subseteq Methods /\ ~IsMemory
  BY <1>1, Contracts
<1>3. host' \in [Hosts -> HostState]
  <2>1. NameSet(h) \in SUBSET Methods /\ Verbs \in SUBSET Verbs /\ "up" \in Lives
    BY <1>2 DEF Lives
  <2>2. [host[h] EXCEPT !.pc = "up", !.discovery = Verbs, !.serves = NameSet(h)] \in HostState
    BY <1>1, <2>1 DEF HostState
  <2>3. host' = [host EXCEPT ![h] = [host[h] EXCEPT !.pc = "up", !.discovery = Verbs,
                                                    !.serves = NameSet(h)]]
    BY <1>1
  <2> QED
    BY <1>1, <2>2, <2>3
<1>4. /\ \A g \in Hosts \ {h} : host'[g] = host[g]
      /\ host'[h].pc = "up" /\ host'[h].stops = host[h].stops
      /\ host'[h].serves = NameSet(h) /\ host'[h].discovery = Verbs
  BY <1>1 DEF HostState
<1>5. RegistryTypeOK'
  BY <1>1, <1>3, SameContracts DEF RegistryInv, RegistryTypeOK
<1>6. OwnMethods'
  BY <1>1, SameContracts, SetupsAssumption DEF RegistryInv, RegistryTypeOK, OwnMethods
<1>7. StopsCounted' /\ SubscribedWhileUp'
  BY <1>1, <1>4, SameContracts DEF RegistryInv, StopsCounted, SubscribedWhileUp
<1>8. \A m : \A g \in Hosts \ {h} : Serves(g, m)' <=> Serves(g, m)
  BY <1>1, <1>4, SameContracts DEF Serves
<1>9. \A i \in DOMAIN Names(h) : Serves(h, Names(h)[i])'
  BY <1>1, <1>2, <1>4, SameContracts DEF Serves, NameSet
<1>10. StoppedTwice' <=> StoppedTwice
  BY <1>4 DEF StoppedTwice
<1>11. RegistryIsHosts'
  BY <1>1, <1>4, <1>8, <1>9, <1>10, SameContracts DEF RegistryInv, RegistryIsHosts, Verbs
<1> QED
  BY <1>5, <1>6, <1>7, <1>11 DEF RegistryInv

\* The memory transport overwrites no registration: what it takes was free.  Where
\* it throws, the last method of the contract is not reached.
LEMMA MemoryStarts ==
  ASSUME RegistryInv, NEW h \in Hosts, RegisterMemory(h)
  PROVE  RegistryInv'
<1> DEFINE taken == {i \in DOMAIN Names(h) : bus[Names(h)[i]] # None}
           mine  == {Names(h)[i] : i \in {j \in DOMAIN Names(h) : \A k \in taken : j < k}}
           pc    == IF taken = {} THEN "up" ELSE "failed"
<1>1. /\ IsMemory /\ host[h].pc = "new" /\ UNCHANGED setup
      /\ host' = [host EXCEPT ![h].pc = pc]
      /\ bus' = [m \in Methods |-> IF m \in mine THEN h ELSE bus[m]]
      /\ setup \in Setups
      /\ host \in [Hosts -> HostState] /\ bus \in [Methods -> Hosts \cup {None}]
  BY DEF RegisterMemory, MayRegister, Life, RegistryInv, RegistryTypeOK
<1>2. /\ NameSet(h) \subseteq Methods /\ ~IsNats /\ None \notin Hosts
      /\ Names(h) \in Seq(NameSet(h))
      /\ \A i, j \in DOMAIN Names(h) : Names(h)[i] = Names(h)[j] => i = j
  BY <1>1, Contracts, SetupsAssumption
<1>3. /\ host' \in [Hosts -> HostState]
      /\ \A g \in Hosts \ {h} : host'[g] = host[g]
      /\ host'[h].pc = pc /\ host'[h].stops = host[h].stops
      /\ host'[h].serves = host[h].serves /\ host'[h].discovery = host[h].discovery
  BY <1>1 DEF HostState, Lives
<1>4. mine \subseteq NameSet(h) /\ \A m \in mine : bus[m] = None
  <2>1. \A j \in DOMAIN Names(h) : j \in Nat
    BY <1>2
  <2> QED
    BY <2>1 DEF NameSet
<1>5. RegistryTypeOK'
  BY <1>1, <1>3, SameContracts DEF RegistryInv, RegistryTypeOK
<1>6. OwnMethods'
  BY <1>1, <1>2, <1>4, SameContracts DEF RegistryInv, OwnMethods
<1>7. StopsCounted' /\ SubscribedWhileUp'
  BY <1>1, <1>2, <1>3, SameContracts DEF RegistryInv, StopsCounted, SubscribedWhileUp
<1>8. \A m \in Methods : \A g \in Hosts \ {h} : Serves(g, m)' <=> Serves(g, m)
  BY <1>1, <1>2, <1>4, SameContracts DEF Serves
<1>9. \A m \in Methods : Serves(h, m)' => m \in mine
  BY <1>1, SameContracts DEF Serves, RegistryInv, RegistryIsHosts
<1>10. ASSUME taken = {} PROVE \A i \in DOMAIN Names(h) : Serves(h, Names(h)[i])'
  <2>1. \A i \in DOMAIN Names(h) : Names(h)[i] \in mine
    BY <1>10
  <2> QED
    BY <1>1, <1>2, <2>1, SameContracts DEF Serves, NameSet
<1>11. ASSUME taken # {} PROVE ~Serves(h, Names(h)[Len(Names(h))])'
  <2>1. PICK k \in taken : TRUE
    BY <1>11
  <2>2. Len(Names(h)) \in DOMAIN Names(h) /\ k <= Len(Names(h)) /\ k \in Nat
    BY <1>2, <2>1
  <2>3. Names(h)[Len(Names(h))] \notin mine
    BY <1>2, <2>1, <2>2
  <2>4. Names(h)[Len(Names(h))] \in Methods
    BY <1>2, <2>2 DEF NameSet
  <2>5. Names(h)' = Names(h)
    BY <1>1, SameContracts
  <2> QED
    BY <1>9, <2>3, <2>4, <2>5 DEF Serves
<1>12. StoppedTwice' <=> StoppedTwice
  BY <1>3 DEF StoppedTwice
<1>13. RegistryIsHosts'
  <2> SUFFICES ASSUME NEW g \in Hosts
               PROVE  (/\ host[g].pc = "up" =>
                            \/ \A i \in DOMAIN Names(g) : Serves(g, Names(g)[i])
                            \/ IsMemory /\ StoppedTwice
                       /\ host[g].pc \in {"new", "stopped"} => \A m \in DOMAIN bus : ~Serves(g, m)
                       /\ host[g].pc = "failed" /\ (\E m \in DOMAIN bus : Serves(g, m)) =>
                            IsMemory /\ ~Serves(g, Names(g)[Len(Names(g))])
                       /\ host[g].discovery # {} <=> IsNats /\ host[g].pc = "up")'
    BY DEF RegistryIsHosts
  <2>1. CASE g = h
    <3>1. host'[h].pc \notin {"new", "stopped"} /\ (host'[h].pc = "up" <=> taken = {})
      BY <1>3
    <3> QED
      BY <1>1, <1>2, <1>3, <1>10, <1>11, <2>1, <3>1, SameContracts
         DEF RegistryInv, SubscribedWhileUp
  <2>2. CASE g # h
    <3>1. \A m \in Methods : Serves(g, m)' <=> Serves(g, m)
      BY <1>8, <2>2
    <3>2. Names(g) \in Seq(NameSet(g)) /\ NameSet(g) \subseteq Methods
      BY <1>1, Contracts
    <3>3. host'[g] = host[g] /\ DOMAIN bus = Methods /\ DOMAIN bus' = Methods
      BY <1>1, <1>3, <2>2
    <3>4. \A i \in DOMAIN Names(g) : Names(g)[i] \in Methods
      BY <3>2 DEF NameSet
    <3>5. \A m \in Methods : Serves(g, m) => Names(g)[Len(Names(g))] \in Methods
      BY HasLast
    <3>6. Names(g)' = Names(g) /\ IsMemory' = IsMemory /\ IsNats' = IsNats
      BY <1>1, SameContracts
    <3>7. host[g].pc = "up" => \/ \A i \in DOMAIN Names(g) : Serves(g, Names(g)[i])
                               \/ IsMemory /\ StoppedTwice
      BY DEF RegistryInv, RegistryIsHosts
    <3>8. /\ host[g].pc \in {"new", "stopped"} => \A m \in Methods : ~Serves(g, m)
          /\ host[g].pc = "failed" /\ (\E m \in Methods : Serves(g, m)) =>
                IsMemory /\ ~Serves(g, Names(g)[Len(Names(g))])
          /\ host[g].discovery # {} <=> IsNats /\ host[g].pc = "up"
      BY <3>3 DEF RegistryInv, RegistryIsHosts
    <3> HIDE DEF taken, mine, pc
    <3>9. (host[g].pc = "up" => \/ \A i \in DOMAIN Names(g) : Serves(g, Names(g)[i])
                                \/ IsMemory /\ StoppedTwice)'
      BY <1>12, <3>1, <3>3, <3>4, <3>6, <3>7
    <3>10. (host[g].pc \in {"new", "stopped"} => \A m \in DOMAIN bus : ~Serves(g, m))'
      BY <3>1, <3>3, <3>8
    <3>11. (host[g].pc = "failed" /\ (\E m \in DOMAIN bus : Serves(g, m)) =>
              IsMemory /\ ~Serves(g, Names(g)[Len(Names(g))]))'
      BY <3>1, <3>3, <3>5, <3>6, <3>8
    <3> QED
      BY <3>3, <3>6, <3>8, <3>9, <3>10, <3>11
  <2> QED
    BY <2>1, <2>2
<1> QED
  BY <1>5, <1>6, <1>7, <1>13 DEF RegistryInv

\* A host that stops takes nothing of a host that is up, unless somebody stops twice:
\* while both are up their methods are disjoint.
LEMMA HostStops ==
  ASSUME RegistryInv, NEW h \in Hosts, StopHost(h)
  PROVE  RegistryInv'
<1>1. PICK kept \in {<<>>, host[h].queue} :
        host' = [host EXCEPT ![h].pc = "stopped", ![h].stops = @ + 1,
                             ![h].serves = {}, ![h].discovery = {}, ![h].queue = kept]
  BY DEF StopHost
<1>2. /\ host[h].pc \in {"up", "stopped"} /\ UNCHANGED setup
      /\ bus' = [m \in Methods |-> IF IsMemory /\ m \in NameSet(h) THEN None ELSE bus[m]]
      /\ setup \in Setups /\ None \notin Hosts /\ (IsMemory <=> ~IsNats)
      /\ host \in [Hosts -> HostState] /\ bus \in [Methods -> Hosts \cup {None}]
  <2>1. /\ setup \in Setups /\ None \notin Hosts
        /\ host \in [Hosts -> HostState] /\ bus \in [Methods -> Hosts \cup {None}]
    BY SetupsAssumption DEF RegistryInv, RegistryTypeOK
  <2>2. IsMemory <=> ~IsNats
    BY <2>1, Contracts
  <2>3. host[h].pc \in {"up", "stopped"} /\ UNCHANGED setup
    BY DEF StopHost
  <2>4. bus' = [m \in Methods |-> IF IsMemory /\ m \in NameSet(h) THEN None ELSE bus[m]]
    <3>1. CASE IsMemory
      BY <2>1, <3>1 DEF StopHost, Unregistered, NameSet
    <3>2. CASE ~IsMemory
      BY <2>1, <3>2 DEF StopHost
    <3> QED
      BY <3>1, <3>2
  <2> QED
    BY <2>1, <2>2, <2>3, <2>4
<1>3. host' \in [Hosts -> HostState]
  <2> DEFINE stops == host[h].stops + 1
             new == [host[h] EXCEPT !.pc = "stopped", !.stops = stops, !.serves = {},
                                    !.discovery = {}, !.queue = kept]
  <2>1. host[h] \in HostState
    BY <1>2
  <2>2. kept \in Seq(Calls)
    <3>1. <<>> \in Seq(Calls)
      OBVIOUS
    <3>2. host[h].queue \in Seq(Calls)
      BY <2>1 DEF HostState
    <3> QED
      BY <3>1, <3>2
  <2>3. stops \in Nat
    BY <2>1 DEF HostState
  <2>4. {} \in SUBSET Methods /\ {} \in SUBSET Verbs /\ "stopped" \in Lives
    BY DEF Lives
  <2>5. host' = [host EXCEPT ![h] = new]
    BY <1>1, <1>2
  <2> HIDE DEF stops
  <2>6. new \in HostState
    BY <2>1, <2>2, <2>3, <2>4 DEF HostState
  <2> HIDE DEF new
  <2> QED
    BY <1>2, <2>5, <2>6
<1>4. /\ \A g \in Hosts \ {h} : host'[g] = host[g]
      /\ host'[h].pc = "stopped" /\ host'[h].stops = host[h].stops + 1 /\ host[h].stops \in Nat
      /\ host'[h].serves = {} /\ host'[h].discovery = {}
  BY <1>1, <1>2 DEF HostState
<1>5. RegistryTypeOK'
  BY <1>2, <1>3, SameContracts DEF RegistryInv, RegistryTypeOK
<1>6. OwnMethods'
  BY <1>2, SameContracts DEF RegistryInv, OwnMethods
<1>7. StopsCounted' /\ SubscribedWhileUp'
  <2>1. StopsCounted'
    BY <1>4 DEF RegistryInv, StopsCounted
  <2>2. /\ \A g \in Hosts : NameSet(g)' = NameSet(g)
        /\ IsMemory' = IsMemory /\ IsNats' = IsNats
    BY <1>2, SameContracts
  <2>3. SubscribedWhileUp'
    BY <1>4, <2>2 DEF RegistryInv, SubscribedWhileUp
  <2> QED
    BY <2>1, <2>3
<1>8. \A m \in Methods : \A g \in Hosts : Serves(g, m)' => g # h /\ Serves(g, m)
  BY <1>2, <1>4, SameContracts DEF Serves, RegistryInv, OwnMethods
<1>9. ASSUME NEW g \in Hosts, g # h, host[g].pc = "up", ~(IsMemory /\ StoppedTwice')
      PROVE  \A i \in DOMAIN Names(g) : Serves(g, Names(g)[i])'
  <2>1. \A m \in NameSet(g) : m \in Methods
    BY <1>2, Contracts
  <2>2. CASE IsNats
    <3>1. host'[g].serves = NameSet(g) /\ ~IsMemory'
      BY <1>2, <1>4, <1>9, <2>2, SameContracts DEF RegistryInv, SubscribedWhileUp
    <3>2. Names(g)' = Names(g) /\ \A i \in DOMAIN Names(g) : Names(g)[i] \in NameSet(g)
      BY <1>2, SameContracts DEF NameSet
    <3> QED
      BY <3>1, <3>2 DEF Serves
  <2>3. CASE IsMemory
    <3>1. host[h].stops = 0
      BY <1>4, <1>9, <2>3 DEF StoppedTwice
    <3>2. host[h].pc = "up"
      BY <1>2, <3>1 DEF RegistryInv, StopsCounted
    <3>3. ~StoppedTwice
      BY <1>4, <1>9, <2>3, <3>1 DEF StoppedTwice
    <3>4. /\ \A i \in DOMAIN Names(h) : Serves(h, Names(h)[i])
          /\ \A i \in DOMAIN Names(g) : Serves(g, Names(g)[i])
      BY <1>9, <3>2, <3>3 DEF RegistryInv, RegistryIsHosts
    <3>5. (\A m \in NameSet(h) : bus[m] = h) /\ (\A m \in NameSet(g) : bus[m] = g)
      BY <2>3, <3>4 DEF Serves, NameSet
    <3>6. \A m \in NameSet(g) : bus'[m] = g
      BY <1>2, <1>9, <2>1, <3>5
    <3>7. \A i \in DOMAIN Names(g) : Names(g)[i] \in NameSet(g)
      BY DEF NameSet
    <3> QED
      BY <1>2, <2>3, <3>6, <3>7, SameContracts DEF Serves
  <2> QED
    BY <1>2, <2>2, <2>3
<1>10. RegistryIsHosts'
  <2> SUFFICES ASSUME NEW g \in Hosts
               PROVE  (/\ host[g].pc = "up" =>
                            \/ \A i \in DOMAIN Names(g) : Serves(g, Names(g)[i])
                            \/ IsMemory /\ StoppedTwice
                       /\ host[g].pc \in {"new", "stopped"} => \A m \in DOMAIN bus : ~Serves(g, m)
                       /\ host[g].pc = "failed" /\ (\E m \in DOMAIN bus : Serves(g, m)) =>
                            IsMemory /\ ~Serves(g, Names(g)[Len(Names(g))])
                       /\ host[g].discovery # {} <=> IsNats /\ host[g].pc = "up")'
    BY DEF RegistryIsHosts
  <2>1. DOMAIN bus = Methods /\ DOMAIN bus' = Methods
    BY <1>2
  <2>2. Names(g)' = Names(g) /\ IsMemory' = IsMemory /\ IsNats' = IsNats
    BY <1>2, SameContracts
  <2>3. CASE g = h
    BY <1>4, <1>8, <2>1, <2>2, <2>3
  <2>4. CASE g # h
    <3>1. host'[g] = host[g]
      BY <1>4, <2>4
    <3>2. /\ host[g].pc \in {"new", "stopped"} => \A m \in Methods : ~Serves(g, m)
          /\ host[g].pc = "failed" /\ (\E m \in Methods : Serves(g, m)) =>
                IsMemory /\ ~Serves(g, Names(g)[Len(Names(g))])
          /\ host[g].discovery # {} <=> IsNats /\ host[g].pc = "up"
      BY <2>1 DEF RegistryInv, RegistryIsHosts
    <3>3. (host[g].pc = "up" => \/ \A i \in DOMAIN Names(g) : Serves(g, Names(g)[i])
                                \/ IsMemory /\ StoppedTwice)'
      BY <1>9, <2>2, <2>4, <3>1
    <3>4. (host[g].pc \in {"new", "stopped"} => \A m \in DOMAIN bus : ~Serves(g, m))'
      BY <1>8, <2>1, <3>1, <3>2
    <3>5. \A m \in Methods : Serves(g, m) => Names(g)[Len(Names(g))] \in Methods
      BY HasLast
    <3>6. (host[g].pc = "failed" /\ (\E m \in DOMAIN bus : Serves(g, m)) =>
             IsMemory /\ ~Serves(g, Names(g)[Len(Names(g))]))'
      BY <1>8, <2>1, <2>2, <3>1, <3>2, <3>5
    <3> QED
      BY <2>2, <3>1, <3>2, <3>3, <3>4, <3>6
  <2> QED
    BY <2>3, <2>4
<1> QED
  BY <1>5, <1>6, <1>7, <1>10 DEF RegistryInv

\* Every step of the hosts' life keeps the registry.
LEMMA HostsMove == RegistryInv /\ HostsNext => RegistryInv'
BY CreationFails, MemoryStarts, NatsStarts, HostStops DEF HostsNext

-------------------------------------------------------------------------------
(* The steps of calls change a host's queue and counters only.                 *)

SameLife(s, t) == /\ t.pc = s.pc /\ t.stops = s.stops
                  /\ t.serves = s.serves /\ t.discovery = s.discovery

LEMMA Recorded ==
  ASSUME NEW s \in HostState, NEW tag
  PROVE  Record(s, tag) \in HostState /\ SameLife(s, Record(s, tag))
<1> DEFINE requests == s.requests + 1
           errors   == s.errors + (IF tag = "ok" THEN 0 ELSE 1)
<1>1. s.requests \in Nat /\ s.errors \in Nat
  BY DEF HostState
<1>2. requests \in Nat /\ errors \in Nat
  BY <1>1
<1>3. Record(s, tag) = [s EXCEPT !.serving = None, !.requests = requests, !.errors = errors]
  BY DEF Record
<1> HIDE DEF requests, errors
<1> QED
  BY <1>2, <1>3 DEF HostState, SameLife

LEMMA OneHostWorks ==
  ASSUME RegistryInv, UNCHANGED <<setup, bus>>, NEW h \in Hosts, NEW s \in HostState,
         SameLife(host[h], s), host' = [host EXCEPT ![h] = s]
  PROVE  RegistryInv'
BY RegistryKept DEF RegistryInv, RegistryTypeOK, SameLife

LEMMA Dequeued ==
  ASSUME RegistryInv, NEW h \in Hosts, host[h].queue # <<>>
  PROVE  /\ [host[h] EXCEPT !.queue = Tail(@)] \in HostState
         /\ SameLife(host[h], [host[h] EXCEPT !.queue = Tail(@)])
         /\ Head(host[h].queue) \in Calls
<1>1. host[h] \in HostState
  BY DEF RegistryInv, RegistryTypeOK
<1>2. /\ host[h].queue \in Seq(Calls)
      /\ Tail(host[h].queue) \in Seq(Calls) /\ Head(host[h].queue) \in Calls
  BY <1>1 DEF HostState
<1> QED
  BY <1>1, <1>2 DEF HostState, SameLife

LEMMA Responding ==
  ASSUME RegistryInv, UNCHANGED <<setup, bus>>, NEW h \in Hosts, NEW s \in HostState,
         SameLife(host[h], s), NEW c, NEW k, Responds(h, s, c, k)
  PROVE  RegistryInv'
<1>1. PICK tag : host' = [host EXCEPT ![h] = Record(s, tag)]
  BY DEF Responds
<1>2. Record(s, tag) \in HostState /\ SameLife(host[h], Record(s, tag))
  BY Recorded DEF SameLife
<1> QED
  BY <1>1, <1>2, OneHostWorks

\* No step of a call disturbs the registry.
LEMMA CallsMove ==
  ASSUME RegistryInv, ClientNext \/ HandlerNext \/ MemoryNext \/ NatsNext
  PROVE  RegistryInv'
<1>1. CASE UNCHANGED <<setup, host, bus>>
  BY <1>1, RegistryKept DEF RegistryInv, RegistryTypeOK
<1>2. CASE ClientNext
  <2>1. PICK c \in Calls :
          \/ \E input, value, d : ClientCalls(c, input, value, d)
          \/ ClientTakes(c)
          \/ ClientAbandons(c)
    BY <1>2 DEF ClientNext
  <2>2. CASE \E input, value, d : ClientCalls(c, input, value, d)
    BY <1>1, <2>2 DEF ClientCalls
  <2> QED
    BY <1>1, <2>1, <2>2 DEF ClientTakes, ClientAbandons
<1>3. CASE HandlerNext
  BY <1>1, <1>3 DEF HandlerNext, HandlerReads, HandlerYields
<1>4. CASE MemoryNext
  BY <1>1, <1>4 DEF MemoryNext, MemoryInvokes, MemoryServes, MemoryHandled
<1>5. ASSUME NEW c \in Calls, NatsRequests(c) PROVE RegistryInv'
  <2>1. CASE UNCHANGED host
    BY <1>1, <1>5, <2>1 DEF NatsRequests
  <2>2. ASSUME NEW h \in Subscribed, host' = [host EXCEPT ![h].queue = Append(@, c)]
        PROVE  RegistryInv'
    <3> DEFINE s == [host[h] EXCEPT !.queue = Append(@, c)]
    <3>1. h \in Hosts /\ host[h] \in HostState /\ UNCHANGED <<setup, bus>>
      BY <1>5 DEF Subscribed, NatsRequests, RegistryInv, RegistryTypeOK
    <3>2. Append(host[h].queue, c) \in Seq(Calls)
      BY <3>1 DEF HostState
    <3>3. s \in HostState /\ SameLife(host[h], s)
      BY <3>1, <3>2 DEF HostState, SameLife
    <3>4. host' = [host EXCEPT ![h] = s]
      BY <2>2
    <3> HIDE DEF s
    <3> QED
      BY <3>1, <3>3, <3>4, OneHostWorks
  <2> QED
    BY <1>5, <2>1, <2>2 DEF NatsRequests
<1>6. ASSUME NEW c \in Calls, NatsTimesOut(c) \/ NatsCloses(c) PROVE RegistryInv'
  BY <1>1, <1>6 DEF NatsTimesOut, NatsCloses
<1>7. ASSUME NEW h \in Hosts, NEW d, NatsTakes(h, d) PROVE RegistryInv'
  <2> DEFINE c == Head(host[h].queue)
             s == [host[h] EXCEPT !.queue = Tail(@)]
             k == Begun(call[c], d)
  <2>1. /\ UNCHANGED <<setup, bus>> /\ s \in HostState /\ SameLife(host[h], s) /\ c \in Calls
    BY <1>7, Dequeued DEF NatsTakes
  <2>2. CASE Responds(h, s, c, k)
    BY <2>1, <2>2, Responding
  <2>3. CASE host' = [host EXCEPT ![h] = [s EXCEPT !.serving = c]]
    <3> HIDE DEF s, c
    <3>1. [s EXCEPT !.serving = c] \in HostState /\ SameLife(host[h], [s EXCEPT !.serving = c])
      BY <2>1 DEF HostState, SameLife
    <3> QED
      BY <2>1, <2>3, <3>1, OneHostWorks
  <2> QED
    BY <1>7, <2>2, <2>3 DEF NatsTakes
<1>8. ASSUME NEW h \in Hosts, NatsTakesGarbled(h) PROVE RegistryInv'
  <2> DEFINE s == [host[h] EXCEPT !.queue = Tail(@)]
  <2>1. /\ UNCHANGED <<setup, bus>> /\ s \in HostState /\ SameLife(host[h], s)
    BY <1>8, Dequeued DEF NatsTakesGarbled
  <2>2. host' = [host EXCEPT ![h] = Record(s, "__serde__")]
    BY <1>8 DEF NatsTakesGarbled
  <2> HIDE DEF s
  <2>3. Record(s, "__serde__") \in HostState /\ SameLife(host[h], Record(s, "__serde__"))
    BY <2>1, Recorded DEF SameLife
  <2> QED
    BY <2>1, <2>2, <2>3, OneHostWorks
<1>9. ASSUME NEW h \in Hosts, NEW r, NatsHandled(h, r) PROVE RegistryInv'
  <2>1. UNCHANGED <<setup, bus>> /\ host[h] \in HostState /\ SameLife(host[h], host[h])
    BY <1>9 DEF NatsHandled, RegistryInv, RegistryTypeOK, SameLife
  <2>2. Responds(h, host[h], host[h].serving, HandlerSays(call[host[h].serving], r))
    BY <1>9 DEF NatsHandled
  <2> QED
    BY <2>1, <2>2, Responding
<1>10. ASSUME NEW r, NatsReplies(r) PROVE RegistryInv'
  BY <1>1, <1>10 DEF NatsReplies
<1> QED
  BY <1>2, <1>3, <1>4, <1>5, <1>6, <1>7, <1>8, <1>9, <1>10 DEF NatsNext

-------------------------------------------------------------------------------

LEMMA RegistryBegins == Init => RegistryInv
<1> SUFFICES ASSUME Init PROVE RegistryInv
  OBVIOUS
<1>1. /\ setup \in Setups /\ None \notin Hosts
      /\ bus = [m \in Methods |-> None]
      /\ host = [h \in Hosts |-> [pc |-> "new", stops |-> 0, serves |-> {},
                                  discovery |-> {}, queue |-> <<>>, serving |-> None,
                                  requests |-> 0, errors |-> 0]]
  BY SetupsAssumption DEF Init, InitHosts, Methods, NameSet
<1>2. RegistryTypeOK
  <2>1. <<>> \in Seq(Calls)
    OBVIOUS
  <2> QED
    BY <1>1, <2>1 DEF RegistryTypeOK, HostState, Lives
<1>3. OwnMethods /\ StopsCounted /\ SubscribedWhileUp
  BY <1>1 DEF OwnMethods, StopsCounted, SubscribedWhileUp
<1>4. RegistryIsHosts
  BY <1>1 DEF RegistryIsHosts, Serves
<1> QED
  BY <1>2, <1>3, <1>4 DEF RegistryInv

\* The registry's invariant is inductive.
LEMMA RegistryMoves == RegistryInv /\ [Next]_vars => RegistryInv'
<1> SUFFICES ASSUME RegistryInv, [Next]_vars PROVE RegistryInv'
  OBVIOUS
<1>1. CASE UNCHANGED vars
  BY <1>1, RegistryKept DEF vars, RegistryInv, RegistryTypeOK
<1> QED
  BY <1>1, HostsMove, CallsMove DEF Next

\* A host serves its contract exactly while it is up, whatever the other instances
\* do and whatever calls are under way (transport-memory/bus.ts and
\* host-transport.ts, rpc-transport-nats/src/host-transport.ts and discovery.ts).
THEOREM HostsOwnTheirMethods == Spec => []RegistryIsHosts
<1>1. RegistryInv => RegistryIsHosts
  BY DEF RegistryInv
<1> QED
  BY <1>1, RegistryBegins, RegistryMoves, PTL DEF Spec

-------------------------------------------------------------------------------
(* One call.                                                                   *)

HostTags == {"ok", "tagged", "raw", "__validation__", "__unknown__", "__internal__", "__serde__"}
Local == {"__timeout__", "__transport__", "__serde__", "__not_found__", "__kind_mismatch__"}
Tags == HostTags \cup Local
Spans == {"none", "open", "ok", "error"}

CallState ==
  [pc : {"idle", "sent", "waiting", "answered", "done"},
   at : {"none", "hosted", "handling", "finished"},
   input : {"good", "bad", "unencodable"}, value : {"none", "value", "undefined"},
   metadata : {"none", "absent", "value", "garbled"}, traced : BOOLEAN,
   host : Hosts \cup {None}, ran : Nat, seen : {"none", "undefined", "empty", "value"},
   last : Results \cup {"none"}, items : Nat, fault : BOOLEAN, decided : BOOLEAN,
   answer : Tags \cup {"none"}, replied : HostTags \cup {"none"},
   outcome : Tags \cup {"none", "abandoned"},
   presented : {"none", "throws", "result", "value", "ContractError"},
   span : Spans, hostSpan : Spans]

\* What a call that no handler has been given yet is like, on the host's side.
Fresh(k) == /\ k.ran = 0 /\ k.replied = "none" /\ k.last = "none" /\ ~k.fault
            /\ k.hostSpan = "none"

Requested(k) ==
  /\ k.pc # "idle" => /\ k.value # "none"
                      /\ k.metadata = Metadata(setup.scoped, setup.contractContext, TheMethod,
                                               k.value, setup.matching)
  /\ Wrapped /\ TheMethod.input = "void" => k.input = "good"
  /\ k.input = "unencodable" => IsNats /\ k.at = "none"

\* Where the two ends of a call are.
Placed(k) ==
  /\ k.pc \in {"idle", "sent"} => k.at = "none"
  /\ k.at = "none" => Fresh(k) /\ k.host = None /\ (k.decided => k.pc = "done")
  /\ k.at = "hosted" => Fresh(k) /\ ~k.decided /\ IsMemory
  /\ k.at = "handling" => /\ k.ran = 1 /\ k.replied = "none" /\ k.last = "none" /\ ~k.decided
                          /\ k.hostSpan \in {"none", "open"}
                          /\ Kind # "unary" => k.hostSpan = "none"
  /\ IsMemory /\ k.at \in {"hosted", "handling"} => k.pc = "waiting"

\* What the handler was given.
Handled(k) ==
  /\ k.ran \in {0, 1}
  /\ k.ran > 0 => k.seen = Given(k) /\ (Wrapped /\ TheMethod.input = "schema" => k.input = "good")
  /\ k.fault => k.input = "bad"

\* The cause of the host's answer.
Caused(k) ==
  /\ k.replied = "ok" => k.decided \/ k.last \in {"good", "bad", "unencodable"}
  /\ k.replied = "ok" /\ k.last = "bad" => TheMethod.output = "void"
  /\ k.replied = "tagged" => k.decided \/ k.last = "tagged"
  /\ k.replied = "__validation__" => k.last = "bad" \/ k.input = "bad"
  /\ k.decided => k.last = "none"

\* A tag that the client holds is the host's, the transport's own, or its own end's.
Explained(k, tag) ==
  \/ tag \in Local \cup {"raw", k.replied}
  \/ tag \in {"ok", "tagged"} /\ k.decided /\ k.at = "none" /\ k.pc = "done"

Settled(k) ==
  /\ k.answer # "none" => k.pc \in {"answered", "done"} /\ Explained(k, k.answer)
  /\ k.pc # "done" => k.outcome = "none"
  /\ k.pc = "done" => k.outcome = "abandoned" \/ k.outcome = k.answer
  /\ k.pc \in {"answered", "done"} => k.answer # "none" \/ k.outcome = "abandoned"
  /\ k.outcome = "abandoned" => Kind # "unary"
  /\ k.answer \in {"__not_found__", "__kind_mismatch__"} => IsMemory /\ k.at = "none"

Traced(k) ==
  /\ k.pc = "done" => k.span # "open"
  /\ Kind = "unary" /\ k.pc # "done" => k.span \in {"none", "open"}
  /\ k.pc = "done" /\ Kind = "unary" /\ k.span # "none" => (k.span = "ok" <=> k.outcome = "ok")
  /\ k.pc # "idle" /\ Wrapped /\ setup.clientMw # <<>> /\ setup.clientMw[1] = "trace" =>
       k.span # "none"
  /\ k.at = "finished" => k.hostSpan # "open"
  /\ k.hostSpan = "error" => k.replied # "ok"
  /\ k.hostSpan = "ok" /\ Kind = "unary" => k.replied \in {"ok", "__internal__"}

CallOK(k) == /\ k \in CallState
             /\ Requested(k) /\ Placed(k) /\ Handled(k) /\ Caused(k) /\ Settled(k) /\ Traced(k)

-------------------------------------------------------------------------------
(* All of them.                                                                *)

NetState == [replies : SUBSET [call : Calls, tag : HostTags], faults : Nat]

\* Every reply in flight is its call's.
RepliesAreTheHosts ==
  \A r \in net.replies : call[r.call].at = "finished" /\ r.tag = call[r.call].replied

\* A request waits in one queue, once; what is served is being handled there.
QueuesHoldRequests ==
  /\ \A h \in Hosts : \A i \in DOMAIN host[h].queue : LET k == call[host[h].queue[i]] IN
       k.at = "none" /\ k.pc \notin {"idle", "sent"} /\ ~k.decided /\ k.input # "unencodable"
  /\ \A g, h \in Hosts : \A i \in DOMAIN host[g].queue : \A j \in DOMAIN host[h].queue :
       host[g].queue[i] = host[h].queue[j] => g = h /\ i = j
  /\ \A h \in Hosts : host[h].serving # None =>
       call[host[h].serving].at = "handling" /\ call[host[h].serving].host = h
  /\ IsMemory => \A h \in Hosts : host[h].queue = <<>> /\ host[h].serving = None

Mine(h) == {c \in Calls : IsNats /\ call[c].host = h /\ call[c].at = "finished"}
Failed(h) == {c \in Mine(h) : call[c].replied # "ok"}

Counted == \A h \in Hosts : /\ IsFiniteSet(Mine(h))
                            /\ host[h].requests = Cardinality(Mine(h))
                            /\ host[h].errors = Cardinality(Failed(h))

CallsInv == /\ call \in [Calls -> CallState] /\ net \in NetState
            /\ \A c \in Calls : CallOK(call[c])
            /\ RepliesAreTheHosts /\ QueuesHoldRequests /\ Counted
-------------------------------------------------------------------------------
\* What the contract of the run fixes: a kind, its schemas and one transport.
LEMMA TheContract ==
  ASSUME setup \in Setups
  PROVE  /\ Kind \in Kinds
         /\ TheMethod.input \in {"void", "schema"} /\ TheMethod.output \in {"void", "schema"}
         /\ IsMemory <=> ~IsNats
         /\ IsNats => Kind = "unary" /\ setup.timeoutTag \in {"__timeout__", "__transport__"}
BY SetupsAssumption, MethodsAssumption
   DEF Kind, TheMethod, NormalizeMethod, MethodInput, OrDefault, Kinds, IsMemory, IsNats

\* A field of a call's record can be given any value of its type.
LEMMA Fields ==
  ASSUME NEW k \in CallState
  PROVE  /\ \A x \in {"idle", "sent", "waiting", "answered", "done"} : [k EXCEPT !.pc = x] \in CallState
         /\ \A x \in {"none", "hosted", "handling", "finished"} : [k EXCEPT !.at = x] \in CallState
         /\ \A x \in {"good", "bad", "unencodable"} : [k EXCEPT !.input = x] \in CallState
         /\ \A x \in {"none", "value", "undefined"} : [k EXCEPT !.value = x] \in CallState
         /\ \A x \in {"none", "absent", "value", "garbled"} : [k EXCEPT !.metadata = x] \in CallState
         /\ \A x \in BOOLEAN : [k EXCEPT !.traced = x] \in CallState
         /\ \A x \in Hosts \cup {None} : [k EXCEPT !.host = x] \in CallState
         /\ \A x \in Nat : [k EXCEPT !.ran = x] \in CallState
         /\ \A x \in {"none", "undefined", "empty", "value"} : [k EXCEPT !.seen = x] \in CallState
         /\ \A x \in Results \cup {"none"} : [k EXCEPT !.last = x] \in CallState
         /\ \A x \in Nat : [k EXCEPT !.items = x] \in CallState
         /\ \A x \in BOOLEAN : [k EXCEPT !.fault = x] \in CallState
         /\ \A x \in BOOLEAN : [k EXCEPT !.decided = x] \in CallState
         /\ \A x \in Tags \cup {"none"} : [k EXCEPT !.answer = x] \in CallState
         /\ \A x \in HostTags \cup {"none"} : [k EXCEPT !.replied = x] \in CallState
         /\ \A x \in Tags \cup {"none", "abandoned"} : [k EXCEPT !.outcome = x] \in CallState
         /\ \A x \in {"none", "throws", "result", "value", "ContractError"} : [k EXCEPT !.presented = x] \in CallState
         /\ \A x \in Spans : [k EXCEPT !.span = x] \in CallState
         /\ \A x \in Spans : [k EXCEPT !.hostSpan = x] \in CallState
<1>1. \A x \in {"idle", "sent", "waiting", "answered", "done"} : [k EXCEPT !.pc = x] \in CallState
  BY DEF CallState
<1>2. \A x \in {"none", "hosted", "handling", "finished"} : [k EXCEPT !.at = x] \in CallState
  BY DEF CallState
<1>3. \A x \in {"good", "bad", "unencodable"} : [k EXCEPT !.input = x] \in CallState
  BY DEF CallState
<1>4. \A x \in {"none", "value", "undefined"} : [k EXCEPT !.value = x] \in CallState
  BY DEF CallState
<1>5. \A x \in {"none", "absent", "value", "garbled"} : [k EXCEPT !.metadata = x] \in CallState
  BY DEF CallState
<1>6. \A x \in BOOLEAN : [k EXCEPT !.traced = x] \in CallState
  BY DEF CallState
<1>7. \A x \in Hosts \cup {None} : [k EXCEPT !.host = x] \in CallState
  BY DEF CallState
<1>8. \A x \in Nat : [k EXCEPT !.ran = x] \in CallState
  BY DEF CallState
<1>9. \A x \in {"none", "undefined", "empty", "value"} : [k EXCEPT !.seen = x] \in CallState
  BY DEF CallState
<1>10. \A x \in Results \cup {"none"} : [k EXCEPT !.last = x] \in CallState
  BY DEF CallState
<1>11. \A x \in Nat : [k EXCEPT !.items = x] \in CallState
  BY DEF CallState
<1>12. \A x \in BOOLEAN : [k EXCEPT !.fault = x] \in CallState
  BY DEF CallState
<1>13. \A x \in BOOLEAN : [k EXCEPT !.decided = x] \in CallState
  BY DEF CallState
<1>14. \A x \in Tags \cup {"none"} : [k EXCEPT !.answer = x] \in CallState
  BY DEF CallState
<1>15. \A x \in HostTags \cup {"none"} : [k EXCEPT !.replied = x] \in CallState
  BY DEF CallState
<1>16. \A x \in Tags \cup {"none", "abandoned"} : [k EXCEPT !.outcome = x] \in CallState
  BY DEF CallState
<1>17. \A x \in {"none", "throws", "result", "value", "ContractError"} : [k EXCEPT !.presented = x] \in CallState
  BY DEF CallState
<1>18. \A x \in Spans : [k EXCEPT !.span = x] \in CallState
  BY DEF CallState
<1>19. \A x \in Spans : [k EXCEPT !.hostSpan = x] \in CallState
  BY DEF CallState
<1> QED
  BY <1>1, <1>2, <1>3, <1>4, <1>5, <1>6, <1>7, <1>8, <1>9, <1>10, <1>11, <1>12, <1>13, <1>14, <1>15, <1>16, <1>17, <1>18, <1>19

\* What the caller is shown is one of the five forms.
LEMMA Presenting ==
  ASSUME NEW tag \in Tags
  PROVE  Presented(setup.strategy, Kind, tag) \in {"throws", "result", "value", "ContractError"}
BY DEF Presented

\* A call that ends: its span is closed with what the application gets.
LEMMA Ending ==
  ASSUME NEW k \in CallState, NEW tag \in Tags,
         Requested(k), Handled(k), Caused(k), Placed([k EXCEPT !.pc = "done"]),
         k.pc # "done",
         tag \in {"__not_found__", "__kind_mismatch__"} => IsMemory /\ k.at = "none",
         Explained([k EXCEPT !.pc = "done"], tag),
         Kind = "unary" => k.span \in {"none", "open"},
         Traced(k) \/ k.hostSpan = "none",
         k.value # "none",
         k.metadata = Metadata(setup.scoped, setup.contractContext, TheMethod, k.value, setup.matching),
         Wrapped /\ setup.clientMw # <<>> /\ setup.clientMw[1] = "trace" => k.span # "none"
  PROVE  CallOK(Ended(k, tag))
<1> DEFINE p == Presented(setup.strategy, Kind, tag)
           s == ClosedSpan(k.span, tag)
           e == [k EXCEPT !.pc = "done", !.answer = tag, !.outcome = tag,
                          !.presented = p, !.span = s]
<1>1. p \in {"throws", "result", "value", "ContractError"}
  BY Presenting
<1>2. s \in Spans /\ s # "open" /\ (s = "none" <=> k.span = "none")
      /\ (k.span = "open" /\ Kind = "unary" => (s = "ok" <=> tag = "ok"))
  BY DEF ClosedSpan, SpanEnd, Spans, CallState
<1>3. Ended(k, tag) = e
  BY DEF Ended
<1> HIDE DEF p, s
<1>4. e \in CallState
  BY <1>1, <1>2, Fields
<1>5. /\ e.pc = "done" /\ e.answer = tag /\ e.outcome = tag /\ e.span = s
      /\ e.at = k.at /\ e.input = k.input /\ e.value = k.value /\ e.metadata = k.metadata
      /\ e.host = k.host /\ e.ran = k.ran /\ e.seen = k.seen /\ e.last = k.last
      /\ e.fault = k.fault /\ e.decided = k.decided /\ e.replied = k.replied
      /\ e.hostSpan = k.hostSpan
  BY DEF CallState
<1>6. LET d == [k EXCEPT !.pc = "done"] IN
      /\ d.pc = "done" /\ d.at = k.at /\ d.host = k.host /\ d.ran = k.ran /\ d.last = k.last
      /\ d.fault = k.fault /\ d.decided = k.decided /\ d.replied = k.replied
      /\ d.hostSpan = k.hostSpan
  BY DEF CallState
<1> HIDE DEF e
<1>7. Requested(e) /\ Handled(e) /\ Caused(e)
  BY <1>5 DEF Requested, Handled, Caused, Given
<1>8. Placed(e)
  BY <1>5, <1>6 DEF Placed, Fresh
<1>9. Settled(e)
  BY <1>5, <1>6 DEF Settled, Explained, Tags, HostTags, Local
<1>10. Traced(e)
  BY <1>2, <1>5 DEF Traced
<1> QED
  BY <1>3, <1>4, <1>7, <1>8, <1>9, <1>10 DEF CallOK

\* The call sets out with its value and its metadata.
LEMMA Calling ==
  ASSUME setup \in Setups, NEW k, CallOK(k), k.pc = "idle",
         NEW input \in Inputs, NEW value \in Values, NEW decision \in Decisions
  PROVE  LET chain  == Chain(setup.clientMw, Kind)
             traced == Enters(chain, decision, "trace")
             m == [k EXCEPT
                    !.input = IF TheMethod.input = "void" THEN "good" ELSE input,
                    !.value = value,
                    !.metadata = Metadata(setup.scoped, setup.contractContext, TheMethod,
                                          value, setup.matching),
                    !.traced = traced, !.decided = Stopped(chain, decision),
                    !.span = IF traced THEN "open" ELSE "none"]
         IN CallOK(IF Stopped(chain, decision) THEN Ended(m, Decided(decision))
                  ELSE IF Kind # "unary" /\ ~setup.streams THEN Ended(m, "raw")
                  ELSE [m EXCEPT !.pc = "sent",
                                 !.span = IF Kind = "serverStream"
                                          THEN ClosedSpan(@, "stream") ELSE @])
<1> DEFINE chain  == Chain(setup.clientMw, Kind)
           traced == Enters(chain, decision, "trace")
           given  == IF TheMethod.input = "void" THEN "good" ELSE input
           meta   == Metadata(setup.scoped, setup.contractContext, TheMethod, value, setup.matching)
           stops  == Stopped(chain, decision)
           span   == IF traced THEN "open" ELSE "none"
           m == [k EXCEPT !.input = given, !.value = value, !.metadata = meta,
                          !.traced = traced, !.decided = stops, !.span = span]
           sent == IF Kind = "serverStream" THEN ClosedSpan(span, "stream") ELSE span
           n == [m EXCEPT !.pc = "sent", !.span = sent]
<1>1. k \in CallState /\ k.at = "none" /\ Fresh(k) /\ k.host = None
      /\ k.outcome = "none" /\ k.answer = "none"
  BY DEF CallOK, Placed, Settled
<1>2. /\ given \in {"good", "bad", "unencodable"} /\ value \in {"value", "undefined"}
      /\ meta \in {"none", "absent", "value", "garbled"}
      /\ traced \in BOOLEAN /\ stops \in BOOLEAN
  BY DEF Inputs, Values, Metadata, Enters, Stopped
<1>3. given = "unencodable" => IsNats
  BY DEF Inputs
<1>4. TheMethod.input = "void" => given = "good"
  OBVIOUS
<1>5. Wrapped /\ setup.clientMw # <<>> /\ setup.clientMw[1] = "trace" => span = "open"
  BY MethodsAssumption DEF Wrapped, Chain, Enters
<1>6. /\ span \in {"none", "open"} /\ sent \in {"none", "open", "ok"}
      /\ Kind = "unary" => sent = span
      /\ span = "open" => sent # "none"
  BY DEF ClosedSpan, SpanEnd
<1>7. stops => Decided(decision) \in {"tagged", "ok", "raw"}
  BY DEF Stopped, Decided, Decisions
<1> HIDE DEF given, stops, traced, span, sent
<1>8. meta = Metadata(setup.scoped, setup.contractContext, TheMethod, value, setup.matching)
  OBVIOUS
<1> HIDE DEF meta
<1>9. m \in CallState
  <2>1. span \in Spans
    BY <1>6 DEF Spans
  <2>2. [k EXCEPT !.input = given, !.value = value, !.metadata = meta] \in CallState
    BY <1>1, <1>2, Fields
  <2> QED
    BY <1>2, <2>1, <2>2, Fields
<1>10. /\ m.pc = "idle" /\ m.at = "none" /\ m.outcome = "none" /\ m.answer = "none"
       /\ m.hostSpan = "none" /\ m.span = span /\ m.decided = stops /\ m.host = None
       /\ m.input = given /\ m.value = value /\ m.metadata = meta
       /\ m.ran = 0 /\ m.last = "none" /\ m.replied = "none" /\ m.fault = FALSE
       /\ m.presented = k.presented
  BY <1>1 DEF CallState, Fresh
<1> HIDE DEF m
<1>11. Requested(m) /\ Handled(m) /\ Caused(m)
  BY <1>2, <1>3, <1>4, <1>8, <1>10 DEF Requested, Handled, Caused
<1>12. ASSUME NEW tag \in {"tagged", "ok", "raw"}, stops \/ tag = "raw"
       PROVE  CallOK(Ended(m, tag))
  <2> DEFINE d == [m EXCEPT !.pc = "done"]
  <2>1. /\ d.pc = "done" /\ d.at = "none" /\ d.host = None /\ d.ran = 0 /\ d.last = "none"
        /\ d.fault = FALSE /\ d.decided = stops /\ d.replied = "none" /\ d.hostSpan = "none"
    BY <1>9, <1>10 DEF CallState
  <2>2. Placed(d) /\ Explained(d, tag)
    BY <1>12, <2>1 DEF Placed, Fresh, Explained
  <2> QED
    BY <1>2, <1>5, <1>6, <1>8, <1>9, <1>10, <1>11, <2>2, Ending DEF Tags, HostTags
<1>13. ASSUME ~stops PROVE CallOK(n)
  <2>1. n \in CallState
    BY <1>6, <1>9, Fields DEF Spans
  <2>2. /\ n.pc = "sent" /\ n.span = sent
        /\ n.at = "none" /\ n.outcome = "none" /\ n.answer = "none"
        /\ n.hostSpan = "none" /\ n.decided = FALSE /\ n.host = None
        /\ n.input = given /\ n.value = value /\ n.metadata = meta
        /\ n.ran = 0 /\ n.last = "none" /\ n.replied = "none" /\ n.fault = FALSE
    BY <1>2, <1>9, <1>10, <1>13 DEF CallState
  <2> HIDE DEF n
  <2>3. Requested(n) /\ Handled(n) /\ Caused(n)
    BY <1>2, <1>3, <1>4, <1>8, <2>2 DEF Requested, Handled, Caused
  <2>4. Placed(n) /\ Settled(n)
    BY <2>2 DEF Placed, Fresh, Settled
  <2>5. Traced(n)
    BY <1>5, <1>6, <2>2 DEF Traced
  <2> QED
    BY <2>1, <2>3, <2>4, <2>5 DEF CallOK
<1>14. n = [m EXCEPT !.pc = "sent", !.span = IF Kind = "serverStream"
                                             THEN ClosedSpan(@, "stream") ELSE @]
  BY <1>9, <1>10 DEF CallState, sent
<1> HIDE DEF n
<1> QED
  BY <1>7, <1>12, <1>13, <1>14 DEF m, stops, traced, span, meta, given

\* The application is given the answer.
LEMMA Taking ==
  ASSUME NEW k, CallOK(k), k.pc = "answered"
  PROVE  CallOK(Ended(k, k.answer))
<1> DEFINE d == [k EXCEPT !.pc = "done"]
<1>1. /\ k \in CallState /\ Requested(k) /\ Placed(k) /\ Handled(k) /\ Caused(k)
      /\ Settled(k) /\ Traced(k)
  BY DEF CallOK
<1>2. k.answer \in Tags /\ Explained(k, k.answer)
  BY <1>1 DEF CallState, Settled
<1>3. /\ d.pc = "done" /\ d.at = k.at /\ d.host = k.host /\ d.ran = k.ran /\ d.last = k.last
      /\ d.fault = k.fault /\ d.decided = k.decided /\ d.replied = k.replied
      /\ d.hostSpan = k.hostSpan
  BY <1>1 DEF CallState
<1>4. Placed(d)
  BY <1>1, <1>3 DEF Placed, Fresh
<1>5. Explained(d, k.answer)
  BY <1>2, <1>3 DEF Explained
<1>6. /\ k.value # "none"
      /\ k.metadata = Metadata(setup.scoped, setup.contractContext, TheMethod, k.value, setup.matching)
  BY <1>1 DEF Requested
<1>7. /\ Kind = "unary" => k.span \in {"none", "open"}
      /\ Wrapped /\ setup.clientMw # <<>> /\ setup.clientMw[1] = "trace" => k.span # "none"
  BY <1>1 DEF Traced
<1>8. k.answer \in {"__not_found__", "__kind_mismatch__"} => IsMemory /\ k.at = "none"
  BY <1>1 DEF Settled
<1> QED
  BY <1>1, <1>2, <1>4, <1>5, <1>6, <1>7, <1>8, Ending

\* The transport answers: with the host's answer or on its own account.
LEMMA Answering ==
  ASSUME NEW k, CallOK(k), k.pc \in {"sent", "waiting"},
         NEW tag \in Tags, tag \in Local \/ tag = k.replied,
         IsNats \/ k.at \in {"none", "finished"}, IsMemory <=> ~IsNats,
         tag \in {"__not_found__", "__kind_mismatch__"} => IsMemory /\ k.at = "none"
  PROVE  CallOK([k EXCEPT !.pc = "answered", !.answer = tag])
<1> DEFINE n == [k EXCEPT !.pc = "answered", !.answer = tag]
<1>1. /\ k \in CallState /\ Requested(k) /\ Placed(k) /\ Handled(k) /\ Caused(k)
      /\ Settled(k) /\ Traced(k)
  BY DEF CallOK
<1>2. n \in CallState
  BY <1>1, Fields
<1>3. /\ n.pc = "answered" /\ n.answer = tag /\ n.outcome = k.outcome /\ n.span = k.span
      /\ n.at = k.at /\ n.input = k.input /\ n.value = k.value /\ n.metadata = k.metadata
      /\ n.host = k.host /\ n.ran = k.ran /\ n.seen = k.seen /\ n.last = k.last
      /\ n.fault = k.fault /\ n.decided = k.decided /\ n.replied = k.replied
      /\ n.hostSpan = k.hostSpan
  BY <1>1 DEF CallState
<1> HIDE DEF n
<1>4. Requested(n) /\ Handled(n) /\ Caused(n)
  BY <1>1, <1>3 DEF Requested, Handled, Caused, Given
<1>5. Placed(n)
  BY <1>1, <1>3 DEF Placed, Fresh
<1>6. Settled(n)
  BY <1>1, <1>3 DEF Settled, Explained, Tags, HostTags, Local
<1>7. Traced(n)
  BY <1>1, <1>3 DEF Traced
<1> QED
  BY <1>2, <1>4, <1>5, <1>6, <1>7 DEF CallOK, n

\* The request is on its way to a host of the bus, or in a queue.
LEMMA Delivering ==
  ASSUME NEW k, CallOK(k), k.pc = "sent", NEW h \in Hosts
  PROVE  /\ CallOK([k EXCEPT !.pc = "waiting"])
         /\ IsMemory /\ (IsMemory <=> ~IsNats) =>
              CallOK([[k EXCEPT !.pc = "waiting"] EXCEPT !.at = "hosted", !.host = h])
<1> DEFINE n == [k EXCEPT !.pc = "waiting"]
           m == [n EXCEPT !.at = "hosted", !.host = h]
<1>1. /\ k \in CallState /\ Requested(k) /\ Placed(k) /\ Handled(k) /\ Caused(k)
      /\ Settled(k) /\ Traced(k)
  BY DEF CallOK
<1>2. n \in CallState /\ m \in CallState
  BY <1>1, Fields
<1>3. /\ n.pc = "waiting" /\ n.answer = k.answer /\ n.outcome = k.outcome /\ n.span = k.span
      /\ n.at = k.at /\ n.input = k.input /\ n.value = k.value /\ n.metadata = k.metadata
      /\ n.host = k.host /\ n.ran = k.ran /\ n.seen = k.seen /\ n.last = k.last
      /\ n.fault = k.fault /\ n.decided = k.decided /\ n.replied = k.replied
      /\ n.hostSpan = k.hostSpan
  BY <1>1 DEF CallState
<1>4. /\ m.pc = "waiting" /\ m.answer = n.answer /\ m.outcome = n.outcome /\ m.span = n.span
      /\ m.at = "hosted" /\ m.input = n.input /\ m.value = n.value /\ m.metadata = n.metadata
      /\ m.ran = n.ran /\ m.seen = n.seen /\ m.last = n.last
      /\ m.fault = n.fault /\ m.decided = n.decided /\ m.replied = n.replied
      /\ m.hostSpan = n.hostSpan
  BY <1>2, <1>3 DEF CallState
<1> HIDE DEF n, m
<1>5. Requested(n) /\ Placed(n) /\ Handled(n) /\ Caused(n)
  BY <1>1, <1>3 DEF Requested, Placed, Fresh, Handled, Caused, Given
<1>6. Settled(n) /\ Traced(n)
  BY <1>1, <1>3 DEF Settled, Explained, Traced
<1>7. ASSUME IsMemory, ~IsNats PROVE Requested(m) /\ Placed(m) /\ Handled(m) /\ Caused(m)
  BY <1>1, <1>3, <1>4, <1>5, <1>7 DEF Requested, Placed, Fresh, Handled, Caused, Given
<1>8. Settled(m) /\ Traced(m)
  BY <1>1, <1>3, <1>4, <1>6 DEF Placed, Fresh, Settled, Explained, Traced
<1> QED
  BY <1>2, <1>5, <1>6, <1>7, <1>8 DEF CallOK, n, m

\* The application leaves a stream.
LEMMA Abandoning ==
  ASSUME NEW k, CallOK(k), k.pc = "waiting", k.at = "handling", Kind \in {"serverStream", "duplex"}
  PROVE  CallOK([k EXCEPT !.pc = "done", !.at = "finished", !.outcome = "abandoned",
                          !.span = ClosedSpan(@, "stream")])
<1> DEFINE s == ClosedSpan(k.span, "stream")
           n == [k EXCEPT !.pc = "done", !.at = "finished", !.outcome = "abandoned", !.span = s]
<1>1. /\ k \in CallState /\ Requested(k) /\ Placed(k) /\ Handled(k) /\ Caused(k)
      /\ Settled(k) /\ Traced(k)
  BY DEF CallOK
<1>2. s \in Spans /\ s # "open" /\ (s = "none" <=> k.span = "none")
  BY <1>1 DEF ClosedSpan, SpanEnd, Spans, CallState
<1> HIDE DEF s
<1>3. n \in CallState
  BY <1>1, <1>2, Fields
<1>4. /\ n.pc = "done" /\ n.answer = k.answer /\ n.outcome = "abandoned" /\ n.span = s
      /\ n.at = "finished" /\ n.input = k.input /\ n.value = k.value /\ n.metadata = k.metadata
      /\ n.host = k.host /\ n.ran = k.ran /\ n.seen = k.seen /\ n.last = k.last
      /\ n.fault = k.fault /\ n.decided = k.decided /\ n.replied = k.replied
      /\ n.hostSpan = k.hostSpan
  BY <1>1 DEF CallState
<1> HIDE DEF n
<1>5. Requested(n) /\ Placed(n) /\ Handled(n) /\ Caused(n)
  BY <1>1, <1>4 DEF Requested, Placed, Handled, Caused, Given
<1>6. Settled(n) /\ Traced(n)
  BY <1>1, <1>2, <1>4 DEF Placed, Settled, Traced
<1> QED
  BY <1>3, <1>5, <1>6 DEF CallOK, n, s

\* A handler reads an input or yields an output.
LEMMA Streaming ==
  ASSUME setup \in Setups, NEW k, CallOK(k), k.at = "handling"
  PROVE  /\ CallOK([k EXCEPT !.items = @ + 1])
         /\ \A input \in {"good", "bad"} : Kind \in {"clientStream", "duplex"} =>
              CallOK([k EXCEPT !.items = @ + 1, !.input = input,
                               !.fault = ~ValidatesInput(TheMethod, input)])
<1> DEFINE n == [k EXCEPT !.items = @ + 1]
<1>1. /\ k \in CallState /\ Requested(k) /\ Placed(k) /\ Handled(k) /\ Caused(k)
      /\ Settled(k) /\ Traced(k)
  BY DEF CallOK
<1>2. n \in CallState
  <2>1. k.items + 1 \in Nat
    BY <1>1 DEF CallState
  <2> QED
    BY <1>1, <2>1, Fields
<1>3. /\ n.pc = k.pc /\ n.answer = k.answer /\ n.outcome = k.outcome /\ n.span = k.span
      /\ n.at = k.at /\ n.input = k.input /\ n.value = k.value /\ n.metadata = k.metadata
      /\ n.host = k.host /\ n.ran = k.ran /\ n.seen = k.seen /\ n.last = k.last
      /\ n.fault = k.fault /\ n.decided = k.decided /\ n.replied = k.replied
      /\ n.hostSpan = k.hostSpan
  BY <1>1 DEF CallState
<1> HIDE DEF n
<1>4. CallOK(n)
  <2>1. Requested(n) /\ Placed(n) /\ Handled(n) /\ Caused(n)
    BY <1>1, <1>3 DEF Requested, Placed, Fresh, Handled, Caused, Given
  <2>2. Settled(n) /\ Traced(n)
    BY <1>1, <1>3 DEF Settled, Explained, Traced
  <2> QED
    BY <1>2, <2>1, <2>2 DEF CallOK
<1>5. ASSUME NEW input \in {"good", "bad"}, Kind \in {"clientStream", "duplex"}
      PROVE  CallOK([n EXCEPT !.input = input, !.fault = ~ValidatesInput(TheMethod, input)])
  <2> DEFINE fits == ValidatesInput(TheMethod, input)
             m == [n EXCEPT !.input = input, !.fault = ~fits]
  <2>1. fits \in BOOLEAN /\ (fits \/ input = "bad")
    BY <1>5 DEF ValidatesInput
  <2> HIDE DEF fits
  <2>2. m \in CallState
    BY <1>2, <1>5, <2>1, Fields
  <2>3. /\ m.pc = n.pc /\ m.answer = n.answer /\ m.outcome = n.outcome /\ m.span = n.span
        /\ m.at = n.at /\ m.input = input /\ m.value = n.value /\ m.metadata = n.metadata
        /\ m.host = n.host /\ m.ran = n.ran /\ m.seen = n.seen /\ m.last = n.last
        /\ m.fault = (~fits) /\ m.decided = n.decided /\ m.replied = n.replied
        /\ m.hostSpan = n.hostSpan
    BY <1>2 DEF CallState
  <2> HIDE DEF m
  <2>4. ~Wrapped /\ n.at = "handling"
    BY <1>3, <1>5 DEF Wrapped
  <2>5. Requested(m)
    BY <1>4, <1>5, <2>3, <2>4 DEF CallOK, Requested
  <2>6. Placed(m)
    BY <1>4, <2>3, <2>4 DEF CallOK, Placed
  <2>7. Handled(m)
    BY <1>4, <2>1, <2>3, <2>4 DEF CallOK, Handled, Given
  <2>8. Caused(m)
    BY <1>1, <1>3, <2>3, <2>4 DEF Placed, Caused
  <2>9. Settled(m) /\ Traced(m)
    BY <1>1, <1>3, <1>4, <2>3 DEF CallOK, Settled, Explained, Traced
  <2> QED
    BY <2>2, <2>5, <2>6, <2>7, <2>8, <2>9 DEF CallOK, m, fits
<1>6. \A input : [k EXCEPT !.items = @ + 1, !.input = input,
                           !.fault = ~ValidatesInput(TheMethod, input)]
                 = [n EXCEPT !.input = input, !.fault = ~ValidatesInput(TheMethod, input)]
  BY DEF n
<1> QED
  BY <1>4, <1>5, <1>6 DEF n

-------------------------------------------------------------------------------
(* What the host makes of a call.                                              *)

\* Nobody has decided or handled the call yet, and the host has it.
Arrived(k) ==
  /\ k.at = "hosted" \/ (k.at = "none" /\ IsNats)
  /\ k.pc \notin {"idle", "sent"} /\ ~k.decided /\ k.input # "unencodable"

\* The client of such a call holds nothing that the host may still contradict.
LEMMA Undecided ==
  ASSUME NEW k, CallOK(k), k.replied = "none", k.at # "none" \/ ~k.decided
  PROVE  k.answer \in Local \cup {"raw", "none"}
BY DEF CallOK, Settled, Explained

\* A call that the host answers without its handler.
LEMMA Refusing ==
  ASSUME NEW k, CallOK(k), Arrived(k), IsMemory <=> ~IsNats,
         NEW n \in CallState, n.at = "finished", n.replied # "none",
         /\ n.pc = k.pc /\ n.answer = k.answer /\ n.outcome = k.outcome /\ n.span = k.span
         /\ n.input = k.input /\ n.value = k.value /\ n.metadata = k.metadata
         /\ n.ran = k.ran /\ n.last = k.last /\ n.fault = k.fault,
         n.replied \in {"ok", "tagged"} => n.decided,
         n.replied = "__validation__" => n.input = "bad",
         /\ n.hostSpan # "open"
         /\ n.hostSpan = "error" => n.replied # "ok"
         /\ n.hostSpan = "ok" /\ Kind = "unary" => n.replied \in {"ok", "__internal__"}
  PROVE  CallOK(n)
<1>1. /\ k \in CallState /\ Requested(k) /\ Placed(k) /\ Settled(k) /\ Traced(k) /\ Fresh(k)
      /\ k.answer \in Local \cup {"raw", "none"}
  BY Undecided DEF CallOK, Placed, Arrived, Fresh
<1>2. Requested(n) /\ Placed(n)
  BY <1>1 DEF Requested, Placed, Arrived
<1>3. Handled(n) /\ Caused(n)
  BY <1>1 DEF Fresh, Handled, Caused
<1>4. k.answer \notin {"__not_found__", "__kind_mismatch__"}
  BY <1>1 DEF Settled, Arrived
<1>5. Settled(n)
  BY <1>1, <1>4 DEF Settled, Explained
<1>6. Traced(n)
  BY <1>1 DEF Traced
<1> QED
  BY <1>2, <1>3, <1>5, <1>6 DEF CallOK

\* The context that reaches a handler is the one that the caller gave.
LEMMA ContextArrives ==
  ASSUME NEW k, k \in CallState, Requested(k), k.pc # "idle"
  PROVE  LET context == ExtractContext(setup.contractContext, TheMethod, k.metadata)
         IN  context = "throws" \/ context = Given(k)
BY DEF Requested, ExtractContext, Metadata, Given, CallState

\* The host's side of a call: decode, validate, middlewares, then the handler or an answer.
LEMMA Beginning ==
  ASSUME setup \in Setups, NEW k, CallOK(k), Arrived(k), NEW decision \in Decisions
  PROVE  LET b == Begun(k, decision)
         IN /\ CallOK(b) /\ b.pc = k.pc /\ b.answer = k.answer /\ b.host = k.host
            /\ b.at = "handling" \/ (b.at = "finished" /\ b.replied # "none")
<1> DEFINE chain    == Chain(setup.hostMw, Kind)
           traced   == Enters(chain, decision, "trace")
           promised == Kind = "serverStream" /\ IsPromise(chain, decision)
           stopped  == Stopped(chain, decision)
           context  == ExtractContext(setup.contractContext, TheMethod, k.metadata)
           Says(tag, ends) ==
             [Finished(k, tag) EXCEPT
                !.decided = @ \/ stopped,
                !.hostSpan = IF traced THEN SpanEnd(Kind, ends) ELSE "none"]
           handled  == [k EXCEPT !.at = "handling", !.ran = @ + 1, !.seen = context,
                                 !.hostSpan = IF traced THEN "open" ELSE "none"]
           Fine(b) == /\ CallOK(b) /\ b.pc = k.pc /\ b.answer = k.answer /\ b.host = k.host
                      /\ b.at = "handling" \/ (b.at = "finished" /\ b.replied # "none")
<1>1. /\ k \in CallState /\ Requested(k) /\ Placed(k) /\ Handled(k) /\ Caused(k)
      /\ Settled(k) /\ Traced(k) /\ Fresh(k) /\ ~k.decided /\ k.pc \notin {"idle", "sent"}
      /\ k.answer \in Local \cup {"raw", "none"}
  BY Undecided DEF CallOK, Placed, Arrived, Fresh
<1>2. traced \in BOOLEAN /\ promised \in BOOLEAN /\ stopped \in BOOLEAN
  BY DEF Enters, Stopped, IsPromise
<1>3. /\ stopped => Decided(decision) \in {"tagged", "ok", "raw"}
      /\ stopped => decision \in Decisions
  BY DEF Stopped, Decided, Decisions
<1>4. Kind # "unary" /\ ~promised => ~traced
  BY TheContract DEF Kinds, IsPromise, Chain, Enters
<1>5. context = "throws" \/ context = Given(k)
  BY <1>1, ContextArrives
<1>6. ~ValidatesInput(TheMethod, k.input) => k.input = "bad"
  BY <1>1 DEF ValidatesInput, Arrived, CallState
<1>7. (IsMemory <=> ~IsNats) /\ Given(k) \in {"undefined", "empty", "value"}
  BY TheContract DEF Given
<1> HIDE DEF traced, promised, stopped, context
<1>8. ASSUME NEW tag \in HostTags, NEW ends \in HostTags \cup {"stream"},
             tag \in {"ok", "tagged"} => stopped, tag = "__validation__" => k.input = "bad",
             ends = tag \/ (Kind = "serverStream" /\ tag = "raw"),
             ends = "stream" => Kind = "serverStream"
      PROVE  Fine(Says(tag, ends))
  <2> DEFINE s == IF traced THEN SpanEnd(Kind, ends) ELSE "none"
             n == [Finished(k, tag) EXCEPT !.decided = @ \/ stopped, !.hostSpan = s]
  <2>1. /\ s \in Spans /\ s # "open"
        /\ s = "error" => tag # "ok"
        /\ s = "ok" /\ Kind = "unary" => tag = "ok"
    BY <1>8 DEF SpanEnd, Spans
  <2> HIDE DEF s
  <2>2. Finished(k, tag) \in CallState
    BY <1>1, Fields DEF Finished
  <2>3. n = [Finished(k, tag) EXCEPT !.decided = stopped, !.hostSpan = s]
    <3>1. Finished(k, tag).decided = FALSE
      BY <1>1 DEF CallState, Finished
    <3>2. (Finished(k, tag).decided \/ stopped) = stopped
      BY <1>2, <3>1
    <3> QED
      BY <3>2
  <2>4. n \in CallState
    BY <1>2, <2>1, <2>2, <2>3, Fields
  <2>5. /\ n.at = "finished" /\ n.replied = tag /\ n.decided = stopped /\ n.hostSpan = s
        /\ n.pc = k.pc /\ n.answer = k.answer /\ n.outcome = k.outcome /\ n.span = k.span
        /\ n.input = k.input /\ n.value = k.value /\ n.metadata = k.metadata
        /\ n.ran = k.ran /\ n.last = k.last /\ n.fault = k.fault /\ n.host = k.host
    BY <1>1, <2>3 DEF CallState, Finished
  <2>6. tag # "none"
    BY <1>8 DEF HostTags
  <2> HIDE DEF n
  <2>7. CallOK(n)
    BY <1>7, <1>8, <2>1, <2>4, <2>5, <2>6, Refusing
  <2> QED
    BY <2>5, <2>6, <2>7 DEF n, s
<1>9. ASSUME ~promised, ~stopped, context # "throws",
             ~(Kind \in {"unary", "serverStream"} /\ ~ValidatesInput(TheMethod, k.input))
      PROVE  Fine(handled)
  <2> DEFINE s == IF traced THEN "open" ELSE "none"
             n == [k EXCEPT !.at = "handling", !.ran = 1, !.seen = context, !.hostSpan = s]
  <2>1. s \in {"none", "open"} /\ s \in Spans /\ (Kind # "unary" => s = "none")
    BY <1>4, <1>9 DEF Spans
  <2>2. handled = n
    BY <1>1 DEF Fresh
  <2> HIDE DEF s
  <2>3. n \in CallState
    BY <1>1, <1>5, <1>7, <1>9, <2>1, Fields
  <2>4. /\ n.at = "handling" /\ n.replied = "none" /\ n.decided = FALSE /\ n.hostSpan = s
        /\ n.pc = k.pc /\ n.answer = k.answer /\ n.outcome = k.outcome /\ n.span = k.span
        /\ n.input = k.input /\ n.value = k.value /\ n.metadata = k.metadata /\ n.seen = context
        /\ n.ran = 1 /\ n.last = "none" /\ n.fault = FALSE /\ n.host = k.host
    BY <1>1 DEF CallState, Fresh
  <2> HIDE DEF n, handled
  <2>5. Requested(n) /\ Caused(n)
    BY <1>1, <2>4 DEF Requested, Caused, Arrived
  <2>6. Placed(n)
    BY <1>1, <1>7, <2>1, <2>4 DEF Placed, Arrived
  <2>7. Handled(n)
    <3>1. Given(n) = Given(k)
      BY <2>4 DEF Given
    <3>2. Wrapped /\ TheMethod.input = "schema" => k.input = "good"
      BY <1>9 DEF Wrapped, ValidatesInput
    <3> QED
      BY <1>5, <1>9, <2>4, <3>1, <3>2 DEF Handled
  <2>8. Settled(n)
    BY <1>1, <1>7, <2>4 DEF Settled, Explained, Arrived
  <2>9. Traced(n)
    BY <1>1, <2>1, <2>4 DEF Traced
  <2> QED
    BY <2>2, <2>3, <2>4, <2>5, <2>6, <2>7, <2>8, <2>9 DEF CallOK
<1>10. CASE promised
  <2>1. Kind = "serverStream"
    BY <1>10 DEF promised
  <2>2. Begun(k, decision) = Says("raw", IF stopped THEN Decided(decision) ELSE "stream")
    BY <1>10 DEF Begun, traced, promised, stopped
  <2> HIDE DEF Says, Fine
  <2>3. Fine(Says("raw", IF stopped THEN Decided(decision) ELSE "stream"))
    BY <1>3, <1>8, <2>1 DEF HostTags
  <2> QED
    BY <2>2, <2>3 DEF Fine
<1>11. CASE ~promised /\ stopped
  <2>1. Begun(k, decision) = Says(Decided(decision), Decided(decision))
    BY <1>11 DEF Begun, traced, promised, stopped
  <2> HIDE DEF Says, Fine
  <2>2. Fine(Says(Decided(decision), Decided(decision)))
    BY <1>3, <1>8, <1>11 DEF HostTags
  <2> QED
    BY <2>1, <2>2 DEF Fine
<1>12. CASE ~promised /\ ~stopped /\ context = "throws"
  <2>1. Begun(k, decision) = Says(ContextFailure(Kind), ContextFailure(Kind))
    BY <1>12 DEF Begun, traced, promised, stopped, context
  <2>2. ContextFailure(Kind) \in {"raw", "__unknown__"}
    BY DEF ContextFailure
  <2> HIDE DEF Says, Fine
  <2>3. Fine(Says(ContextFailure(Kind), ContextFailure(Kind)))
    BY <1>8, <2>2 DEF HostTags
  <2> QED
    BY <2>1, <2>3 DEF Fine
<1>13. CASE ~promised /\ ~stopped /\ context # "throws"
  <2>1. CASE Kind \in {"unary", "serverStream"} /\ ~ValidatesInput(TheMethod, k.input)
    <3>1. Begun(k, decision) = Says("__validation__", "__validation__")
      BY <1>13, <2>1 DEF Begun, traced, promised, stopped, context
    <3> HIDE DEF Says, Fine
    <3>2. Fine(Says("__validation__", "__validation__"))
      BY <1>6, <1>8, <2>1 DEF HostTags
    <3> QED
      BY <3>1, <3>2 DEF Fine
  <2>2. CASE ~(Kind \in {"unary", "serverStream"} /\ ~ValidatesInput(TheMethod, k.input))
    <3>1. Begun(k, decision) = handled
      BY <1>13, <2>2 DEF Begun, traced, promised, stopped, context
    <3> HIDE DEF handled, Fine
    <3>2. Fine(handled)
      BY <1>9, <1>13, <2>2
    <3> QED
      BY <3>1, <3>2 DEF Fine
  <2> QED
    BY <2>1, <2>2
<1> QED
  BY <1>2, <1>10, <1>11, <1>12, <1>13

\* The handler says its last word.
LEMMA Saying ==
  ASSUME setup \in Setups, NEW k, CallOK(k), k.at = "handling", NEW result \in Results
  PROVE  LET n == HandlerSays(k, result)
         IN /\ CallOK(n) /\ n.pc = k.pc /\ n.answer = k.answer
            /\ n.at = "finished" /\ n.replied # "none"
<1> DEFINE tag == IF k.fault /\ result = "tagged" THEN "__validation__"
                  ELSE HostAnswer(TheMethod, result)
           s == ClosedSpan(k.hostSpan, tag)
           n == [Finished(k, tag) EXCEPT !.last = result, !.hostSpan = s]
<1>1. /\ k \in CallState /\ Requested(k) /\ Placed(k) /\ Handled(k) /\ Caused(k)
      /\ Settled(k) /\ Traced(k) /\ k.replied = "none" /\ ~k.decided /\ k.ran = 1
      /\ k.hostSpan \in {"none", "open"}
      /\ k.answer \in Local \cup {"raw", "none"}
  BY Undecided DEF CallOK, Placed
<1>2. /\ tag \in HostTags /\ tag # "none"
      /\ tag = "ok" => result \in {"good", "bad", "unencodable"}
      /\ tag = "ok" /\ result = "bad" => TheMethod.output = "void"
      /\ tag = "tagged" => result = "tagged"
      /\ tag = "__validation__" => result = "bad" \/ k.fault
  BY TheContract DEF HostAnswer, Results, HostTags
<1>3. /\ s \in Spans /\ s # "open"
      /\ s = "error" => tag # "ok"
      /\ s = "ok" /\ Kind = "unary" => tag = "ok"
  BY <1>1 DEF ClosedSpan, SpanEnd, Spans
<1>4. HandlerSays(k, result) = n
  BY <1>1 DEF HandlerSays, Finished, CallState
<1> HIDE DEF tag, s
<1>5. n \in CallState
  BY <1>1, <1>2, <1>3, Fields DEF Finished
<1>6. /\ n.at = "finished" /\ n.replied = tag /\ n.decided = FALSE /\ n.hostSpan = s
      /\ n.pc = k.pc /\ n.answer = k.answer /\ n.outcome = k.outcome /\ n.span = k.span
      /\ n.input = k.input /\ n.value = k.value /\ n.metadata = k.metadata /\ n.seen = k.seen
      /\ n.ran = 1 /\ n.last = result /\ n.fault = k.fault /\ n.host = k.host
  BY <1>1 DEF CallState, Finished
<1> HIDE DEF n
<1>7. Requested(n) /\ Placed(n)
  BY <1>1, <1>6 DEF Requested, Placed
<1>8. Handled(n) /\ Caused(n)
  BY <1>1, <1>2, <1>6 DEF Handled, Caused, Given
<1>9. Settled(n)
  BY <1>1, <1>6 DEF Settled, Explained
<1>10. Traced(n)
  BY <1>1, <1>3, <1>6 DEF Traced
<1> QED
  BY <1>2, <1>4, <1>5, <1>6, <1>7, <1>8, <1>9, <1>10 DEF CallOK

\* Over memory the host's answer is the client's.
LEMMA Returning ==
  ASSUME NEW k, CallOK(k), k.pc = "waiting", IsMemory <=> ~IsNats,
         k.at = "finished" => k.replied # "none"
  PROVE  CallOK(Returned(k))
<1>1. CASE k.at = "finished"
  <2>1. k.replied \in Tags \ {"__not_found__", "__kind_mismatch__"}
    BY <1>1 DEF CallOK, CallState, Tags, HostTags
  <2> QED
    BY <1>1, <2>1, Answering DEF Returned
<1> QED
  BY <1>1 DEF Returned

\* Over NATS an instance responds, with the handler's answer or with __internal__.
LEMMA Delivered ==
  ASSUME NEW k, CallOK(k), k.at = "finished", k.answer \in Local \cup {"raw", "none"},
         NEW h \in Hosts, NEW tag \in HostTags, tag \in {k.replied, "__internal__"}
  PROVE  CallOK([Finished(k, tag) EXCEPT !.host = h])
<1> DEFINE n == [Finished(k, tag) EXCEPT !.host = h]
<1>1. /\ k \in CallState /\ Requested(k) /\ Placed(k) /\ Handled(k) /\ Caused(k)
      /\ Settled(k) /\ Traced(k)
  BY DEF CallOK
<1>2. n \in CallState
  BY <1>1, Fields DEF Finished
<1>3. /\ n.at = "finished" /\ n.replied = tag /\ n.decided = k.decided /\ n.hostSpan = k.hostSpan
      /\ n.pc = k.pc /\ n.answer = k.answer /\ n.outcome = k.outcome /\ n.span = k.span
      /\ n.input = k.input /\ n.value = k.value /\ n.metadata = k.metadata /\ n.seen = k.seen
      /\ n.ran = k.ran /\ n.last = k.last /\ n.fault = k.fault
  BY <1>1 DEF CallState, Finished
<1> HIDE DEF n
<1>4. Requested(n) /\ Placed(n)
  BY <1>1, <1>3 DEF Requested, Placed
<1>5. Handled(n) /\ Caused(n)
  BY <1>1, <1>3 DEF Handled, Caused, Given
<1>6. Settled(n)
  BY <1>1, <1>3 DEF Settled, Explained
<1>7. Traced(n)
  BY <1>1, <1>3 DEF Traced
<1> QED
  BY <1>2, <1>4, <1>5, <1>6, <1>7 DEF CallOK, n

\* The instance that has taken a request is noted.
LEMMA Holding ==
  ASSUME NEW k, CallOK(k), k.at = "handling", NEW h \in Hosts
  PROVE  CallOK([k EXCEPT !.host = h])
<1> DEFINE n == [k EXCEPT !.host = h]
<1>1. k \in CallState
  BY DEF CallOK
<1>2. n \in CallState
  BY <1>1, Fields
<1>3. /\ n.at = "handling" /\ n.replied = k.replied /\ n.decided = k.decided
      /\ n.pc = k.pc /\ n.answer = k.answer /\ n.outcome = k.outcome /\ n.span = k.span
      /\ n.input = k.input /\ n.value = k.value /\ n.metadata = k.metadata /\ n.seen = k.seen
      /\ n.ran = k.ran /\ n.last = k.last /\ n.fault = k.fault /\ n.hostSpan = k.hostSpan
  BY <1>1 DEF CallState
<1> HIDE DEF n
<1>4. Requested(n) /\ Placed(n) /\ Handled(n) /\ Caused(n)
  BY <1>3 DEF CallOK, Requested, Placed, Handled, Caused, Given
<1>5. Settled(n) /\ Traced(n)
  BY <1>3 DEF CallOK, Settled, Explained, Traced
<1> QED
  BY <1>2, <1>4, <1>5 DEF CallOK, n

-------------------------------------------------------------------------------
(* All calls.                                                                  *)

\* An explained call stays explained while the contract of the run does.
LEMMA StillOK ==
  ASSUME UNCHANGED setup
  PROVE  /\ \A k : CallOK(k)' <=> CallOK(k)
         /\ IsNats' = IsNats /\ IsMemory' = IsMemory
<1>1. /\ TheMethod' = TheMethod /\ Kind' = Kind /\ Wrapped' = Wrapped
      /\ IsNats' = IsNats /\ IsMemory' = IsMemory
      /\ CallState' = CallState
  BY DEF TheMethod, Kind, Wrapped, IsNats, IsMemory, CallState
<1>2. \A k : Given(k)' = Given(k)
  BY <1>1 DEF Given
<1>3. \A k : /\ Requested(k)' <=> Requested(k)
             /\ Placed(k)' <=> Placed(k)
             /\ Handled(k)' <=> Handled(k)
             /\ Caused(k)' <=> Caused(k)
             /\ Settled(k)' <=> Settled(k)
             /\ Traced(k)' <=> Traced(k)
  BY <1>1, <1>2 DEF Requested, Placed, Fresh, Handled, Caused, Settled, Explained, Traced
<1> QED
  BY <1>1, <1>3 DEF CallOK

\* A step of one call leaves the others explained.
LEMMA OneCallMoves ==
  ASSUME CallsInv, UNCHANGED setup, NEW c \in Calls, NEW k, CallOK(k),
         call' = [call EXCEPT ![c] = k]
  PROVE  /\ call' \in [Calls -> CallState]
         /\ \A d \in Calls : CallOK(call[d])'
         /\ call'[c] = k
         /\ \A d \in Calls : d # c => call'[d] = call[d]
<1>1. call \in [Calls -> CallState] /\ \A d \in Calls : CallOK(call[d])
  BY DEF CallsInv
<1>2. k \in CallState
  BY DEF CallOK
<1>3. call'[c] = k /\ \A d \in Calls : d # c => call'[d] = call[d]
  BY <1>1
<1>4. \A d \in Calls : CallOK(call'[d])
  BY <1>1, <1>3
<1> QED
  BY <1>1, <1>2, <1>3, <1>4, StillOK

\* What a step of one call leaves alone for the hosts.
Keeps(k, n) ==
  /\ k.at = "finished" => n.at = "finished" /\ n.replied = k.replied
  /\ IsNats => /\ n.at = k.at /\ n.host = k.host /\ n.replied = k.replied
               /\ k.pc \notin {"idle", "sent"} =>
                    n.pc \notin {"idle", "sent"} /\ n.decided = k.decided /\ n.input = k.input

\* A step of one call that neither queues nor answers a request.
LEMMA CallAlone ==
  ASSUME CallsInv, UNCHANGED <<setup, host>>, setup \in Setups,
         net' \in NetState, net'.replies \subseteq net.replies,
         host \in [Hosts -> HostState],
         NEW c \in Calls, NEW k, CallOK(k), call' = [call EXCEPT ![c] = k], Keeps(call[c], k)
  PROVE  CallsInv'
<1>1. /\ call' \in [Calls -> CallState] /\ \A d \in Calls : CallOK(call[d])'
      /\ call'[c] = k /\ \A d \in Calls : d # c => call'[d] = call[d]
  BY OneCallMoves
<1>2. IsNats' = IsNats /\ IsMemory' = IsMemory /\ (IsMemory <=> ~IsNats)
  BY StillOK, TheContract
<1>3. NetState' = NetState
  BY DEF NetState
<1>4. \A r \in net.replies : r.call \in Calls
  BY DEF CallsInv, NetState
<1>5. RepliesAreTheHosts'
  BY <1>1, <1>4 DEF CallsInv, RepliesAreTheHosts, Keeps
<1>6. QueuesHoldRequests'
  <2>1. CASE IsMemory
    BY <1>2, <2>1 DEF CallsInv, QueuesHoldRequests
  <2>2. CASE IsNats
    <3>1. \A d \in Calls :
            /\ call'[d].at = call[d].at /\ call'[d].host = call[d].host
            /\ call[d].pc \notin {"idle", "sent"} =>
                 /\ call'[d].pc \notin {"idle", "sent"}
                 /\ call'[d].decided = call[d].decided /\ call'[d].input = call[d].input
      BY <1>1, <2>2 DEF Keeps
    <3>2. \A g \in Hosts : /\ \A i \in DOMAIN host[g].queue : host[g].queue[i] \in Calls
                           /\ host[g].serving \in Calls \cup {None}
      BY DEF HostState
    <3> QED
      BY <1>2, <2>2, <3>1, <3>2 DEF CallsInv, QueuesHoldRequests
  <2> QED
    BY <1>2, <2>1, <2>2
<1>7. Counted'
  <2>1. \A d \in Calls : IsNats => /\ call'[d].at = call[d].at /\ call'[d].host = call[d].host
                                   /\ call'[d].replied = call[d].replied
    BY <1>1 DEF Keeps
  <2>2. \A h \in Hosts : Mine(h)' = Mine(h)
    BY <1>2, <2>1 DEF Mine
  <2>3. \A h \in Hosts : Failed(h)' = Failed(h)
    BY <2>1, <2>2 DEF Failed, Mine
  <2> QED
    BY <2>2, <2>3 DEF CallsInv, Counted
<1> QED
  BY <1>1, <1>3, <1>5, <1>6, <1>7 DEF CallsInv

\* The request a host works on next: c, which leaves q in its queue.
WorksOn(h, c, q) ==
  \/ host[h].serving # None /\ c = host[h].serving /\ q = host[h].queue
  \/ /\ host[h].serving = None /\ host[h].queue # <<>>
     /\ c = Head(host[h].queue) /\ q = Tail(host[h].queue)

\* It is nobody else's.
LEMMA Taken ==
  ASSUME CallsInv, host \in [Hosts -> HostState], None \notin Calls, setup \in Setups,
         NEW h \in Hosts, NEW c, NEW q, WorksOn(h, c, q)
  PROVE  /\ IsNats /\ c \in Calls /\ q \in Seq(Calls) /\ call[c].at # "finished"
         /\ host[h].serving = None => Arrived(call[c])
         /\ host[h].serving # None => call[c].at = "handling"
         /\ \A i \in DOMAIN q : \E j \in DOMAIN host[h].queue : q[i] = host[h].queue[j]
         /\ \A i, j \in DOMAIN q : q[i] = q[j] => i = j
         /\ \A i \in DOMAIN q : q[i] # c
         /\ \A g \in Hosts \ {h} : /\ \A i \in DOMAIN host[g].queue : host[g].queue[i] # c
                                   /\ host[g].serving # c
<1>1. /\ host[h].queue \in Seq(Calls) /\ host[h].serving \in Calls \cup {None}
      /\ QueuesHoldRequests /\ (IsMemory <=> ~IsNats)
      /\ \A g \in Hosts : host[g].serving \in Calls \cup {None}
  BY TheContract DEF HostState, CallsInv
<1>2. IsNats
  BY <1>1 DEF QueuesHoldRequests, WorksOn
<1>3. CASE host[h].serving # None
  <2> USE DEF WorksOn
  <2>1. c \in Calls /\ q \in Seq(Calls) /\ call[c].at = "handling" /\ call[c].host = h
    BY <1>1, <1>3 DEF QueuesHoldRequests
  <2>2. \A g \in Hosts : \A i \in DOMAIN host[g].queue : host[g].queue[i] # c
    BY <1>1, <2>1 DEF QueuesHoldRequests
  <2>3. \A g \in Hosts \ {h} : host[g].serving # c
    BY <1>1, <1>3, <2>1 DEF QueuesHoldRequests
  <2>4. \A i, j \in DOMAIN q : q[i] = q[j] => i = j
    BY <1>1, <1>3 DEF QueuesHoldRequests
  <2> QED
    BY <1>2, <1>3, <2>1, <2>2, <2>3, <2>4
<1>4. CASE host[h].serving = None
  <2> USE DEF WorksOn
  <2> DEFINE p == host[h].queue
  <2>1. /\ p \in Seq(Calls) /\ p # <<>> /\ 1 \in DOMAIN p /\ c = p[1] /\ q \in Seq(Calls)
        /\ \A i \in DOMAIN q : i \in Nat /\ i + 1 \in DOMAIN p /\ i + 1 # 1 /\ q[i] = p[i + 1]
    BY <1>1, <1>4
  <2>2. c \in Calls /\ Arrived(call[c])
    BY <1>1, <1>2, <2>1 DEF QueuesHoldRequests, Arrived
  <2>3. \A i, j \in DOMAIN p : p[i] = p[j] => i = j
    BY <1>1 DEF QueuesHoldRequests
  <2>4. \A g \in Hosts \ {h} : \A i \in DOMAIN host[g].queue : host[g].queue[i] # c
    BY <1>1, <2>1 DEF QueuesHoldRequests
  <2>5. call[c].at = "none"
    BY <1>1, <2>1 DEF QueuesHoldRequests
  <2>6. \A g \in Hosts \ {h} : host[g].serving # c
    BY <1>1, <2>2, <2>5 DEF QueuesHoldRequests
  <2> HIDE DEF p
  <2>7. \A i, j \in DOMAIN q : q[i] = q[j] => i = j
    <3> SUFFICES ASSUME NEW i \in DOMAIN q, NEW j \in DOMAIN q, q[i] = q[j] PROVE i = j
      OBVIOUS
    <3>1. i + 1 = j + 1
      BY <2>1, <2>3
    <3> QED
      BY <2>1, <3>1
  <2>8. \A i \in DOMAIN q : q[i] # c
    BY <2>1, <2>3
  <2>9. \A i \in DOMAIN q : \E j \in DOMAIN p : q[i] = p[j]
    BY <2>1
  <2> QED
    BY <1>2, <1>4, <2>1, <2>2, <2>4, <2>5, <2>6, <2>7, <2>8, <2>9 DEF p
<1> QED
  BY <1>3, <1>4

\* A host takes a request, or answers one.
LEMMA Serving ==
  ASSUME CallsInv, UNCHANGED setup, setup \in Setups, None \notin Calls,
         host \in [Hosts -> HostState],
         NEW h \in Hosts, NEW c, NEW s \in HostState, WorksOn(h, c, s.queue),
         NEW k, CallOK(k), k.host = h,
         \/ /\ k.at = "handling" /\ s.serving = c
            /\ s.requests = host[h].requests /\ s.errors = host[h].errors
         \/ /\ k.at = "finished" /\ s.serving = None
            /\ s.requests = host[h].requests + 1
            /\ s.errors = host[h].errors + (IF k.replied = "ok" THEN 0 ELSE 1),
         call' = [call EXCEPT ![c] = k], host' = [host EXCEPT ![h] = s],
         net' \in NetState,
         \A r \in net'.replies : \/ r \in net.replies
                                 \/ r.call = c /\ k.at = "finished" /\ r.tag = k.replied
  PROVE  CallsInv'
<1>1. /\ IsNats /\ c \in Calls /\ s.queue \in Seq(Calls) /\ call[c].at # "finished"
      /\ \A i \in DOMAIN s.queue : \E j \in DOMAIN host[h].queue : s.queue[i] = host[h].queue[j]
      /\ \A i, j \in DOMAIN s.queue : s.queue[i] = s.queue[j] => i = j
      /\ \A i \in DOMAIN s.queue : s.queue[i] # c
      /\ \A g \in Hosts \ {h} : /\ \A i \in DOMAIN host[g].queue : host[g].queue[i] # c
                                /\ host[g].serving # c
  BY Taken
<1>2. /\ call' \in [Calls -> CallState] /\ \A d \in Calls : CallOK(call[d])'
      /\ call'[c] = k /\ \A d \in Calls : d # c => call'[d] = call[d]
  BY <1>1, OneCallMoves
<1>3. /\ IsNats' /\ ~IsMemory' /\ NetState' = NetState
  BY <1>1, StillOK, TheContract DEF NetState
<1>4. host'[h] = s /\ \A g \in Hosts \ {h} : host'[g] = host[g]
  OBVIOUS
<1>5. /\ \A g \in Hosts : /\ \A i \in DOMAIN host[g].queue : host[g].queue[i] \in Calls
                          /\ host[g].serving \in Calls \cup {None}
                          /\ host[g].requests \in Nat /\ host[g].errors \in Nat
      /\ \A i \in DOMAIN s.queue : s.queue[i] \in Calls
  BY <1>1 DEF HostState
<1>6. RepliesAreTheHosts'
  <2>1. \A r \in net.replies : r.call \in Calls /\ call[r.call].at = "finished"
                               /\ r.tag = call[r.call].replied
    BY DEF CallsInv, NetState, RepliesAreTheHosts
  <2>2. \A r \in net'.replies : call'[r.call].at = "finished" /\ r.tag = call'[r.call].replied
    BY <1>1, <1>2, <2>1
  <2> QED
    BY <2>2 DEF RepliesAreTheHosts
<1>7. QueuesHoldRequests'
  <2>1. QueuesHoldRequests
    BY DEF CallsInv
  <2>2. \A g \in Hosts : \A i \in DOMAIN host'[g].queue :
          /\ host'[g].queue[i] # c /\ host'[g].queue[i] \in Calls
          /\ \E j \in DOMAIN host[g].queue : host'[g].queue[i] = host[g].queue[j]
    BY <1>1, <1>4, <1>5
  <2>3. \A g \in Hosts : \A i \in DOMAIN host'[g].queue :
          LET d == call'[host'[g].queue[i]] IN
          d.at = "none" /\ d.pc \notin {"idle", "sent"} /\ ~d.decided /\ d.input # "unencodable"
    BY <1>2, <2>1, <2>2 DEF QueuesHoldRequests
  <2>4. \A f, g \in Hosts : \A i \in DOMAIN host'[f].queue : \A j \in DOMAIN host'[g].queue :
          host'[f].queue[i] = host'[g].queue[j] => f = g /\ i = j
    <3> SUFFICES ASSUME NEW f \in Hosts, NEW g \in Hosts, NEW i \in DOMAIN host'[f].queue,
                        NEW j \in DOMAIN host'[g].queue, host'[f].queue[i] = host'[g].queue[j]
                 PROVE  f = g /\ i = j
      OBVIOUS
    <3>1. f = g
      BY <2>1, <2>2 DEF QueuesHoldRequests
    <3>2. CASE f = h
      BY <1>1, <1>4, <3>1, <3>2
    <3>3. CASE f # h
      BY <1>4, <2>1, <3>1, <3>3 DEF QueuesHoldRequests
    <3> QED
      BY <3>1, <3>2, <3>3
  <2>5. \A g \in Hosts : host'[g].serving # None =>
          call'[host'[g].serving].at = "handling" /\ call'[host'[g].serving].host = g
    BY <1>1, <1>2, <1>4, <1>5, <2>1 DEF QueuesHoldRequests
  <2> QED
    BY <1>3, <2>3, <2>4, <2>5 DEF QueuesHoldRequests
<1>8. Counted'
  <2>1. \A g \in Hosts : /\ c \notin Mine(g) /\ IsFiniteSet(Mine(g))
                         /\ host[g].requests = Cardinality(Mine(g))
                         /\ host[g].errors = Cardinality(Failed(g))
                         /\ Failed(g) \subseteq Mine(g) /\ Mine(g) \subseteq Calls
    BY <1>1 DEF CallsInv, Counted, Mine, Failed
  <2>2. CASE k.at = "handling"
    <3>1. \A g \in Hosts : Mine(g)' = Mine(g)
      BY <1>1, <1>2, <1>3, <2>1, <2>2 DEF Mine
    <3>2. \A g \in Hosts : Failed(g)' = Failed(g)
      <4>1. \A g \in Hosts : \A d \in Mine(g) : call'[d] = call[d]
        BY <1>2, <2>1
      <4> QED
        BY <3>1, <4>1 DEF Failed
    <3>3. \A g \in Hosts : host'[g].requests = host[g].requests /\ host'[g].errors = host[g].errors
      BY <1>4, <2>2
    <3> QED
      BY <2>1, <3>1, <3>2, <3>3 DEF Counted
  <2>3. CASE k.at = "finished"
    <3>1. Mine(h)' = Mine(h) \cup {c} /\ \A g \in Hosts \ {h} : Mine(g)' = Mine(g)
      BY <1>1, <1>2, <1>3, <2>1, <2>3 DEF Mine
    <3>2. \A g \in Hosts : \A d \in Mine(g) : call'[d] = call[d]
      BY <1>2, <2>1
    <3>3. /\ \A g \in Hosts \ {h} : Failed(g)' = Failed(g)
          /\ Failed(h)' = IF k.replied = "ok" THEN Failed(h) ELSE Failed(h) \cup {c}
      <4>1. \A g \in Hosts \ {h} : Failed(g)' = Failed(g)
        BY <3>1, <3>2 DEF Failed
      <4>2. Failed(h)' = {d \in Mine(h) \cup {c} : call'[d].replied # "ok"}
        BY <3>1 DEF Failed
      <4>3. Failed(h)' = IF k.replied = "ok" THEN Failed(h) ELSE Failed(h) \cup {c}
        BY <1>2, <3>2, <4>2 DEF Failed
      <4> QED
        BY <4>1, <4>3
    <3>4. /\ IsFiniteSet(Mine(h) \cup {c})
          /\ Cardinality(Mine(h) \cup {c}) = Cardinality(Mine(h)) + 1
      BY <2>1, FS_AddElement
    <3>5. c \notin Failed(h) /\ IsFiniteSet(Failed(h))
      BY <2>1, FS_Subset
    <3>6. Cardinality(Failed(h) \cup {c}) = Cardinality(Failed(h)) + 1
      BY <3>5, FS_AddElement
    <3>7. s.errors = Cardinality(Failed(h)')
      BY <1>5, <2>1, <2>3, <3>3, <3>6
    <3> QED
      <4>1. \A g \in Hosts \ {h} : /\ IsFiniteSet(Mine(g)')
                                   /\ host'[g].requests = Cardinality(Mine(g)')
                                   /\ host'[g].errors = Cardinality(Failed(g)')
        BY <1>4, <2>1, <3>1, <3>3
      <4>2. /\ IsFiniteSet(Mine(h)')
            /\ host'[h].requests = Cardinality(Mine(h)')
            /\ host'[h].errors = Cardinality(Failed(h)')
        BY <1>4, <2>1, <2>3, <3>1, <3>4, <3>7
      <4> QED
        BY <4>1, <4>2 DEF Counted
  <2> QED
    BY <2>2, <2>3
<1> QED
  BY <1>2, <1>3, <1>6, <1>7, <1>8 DEF CallsInv

-------------------------------------------------------------------------------
(* Every step.                                                                 *)

\* A step of the hosts' life leaves calls and queues as they are.
LEMMA HostsLeaveCalls ==
  ASSUME CallsInv, UNCHANGED <<setup, call, net>>, setup \in Setups,
         \A h \in Hosts : /\ host'[h].queue \in {<<>>, host[h].queue}
                          /\ host'[h].serving = host[h].serving
                          /\ host'[h].requests = host[h].requests
                          /\ host'[h].errors = host[h].errors
  PROVE  CallsInv'
<1>1. /\ IsNats' = IsNats /\ IsMemory' = IsMemory /\ NetState' = NetState
      /\ CallState' = CallState
      /\ \A k : CallOK(k)' <=> CallOK(k)
  BY StillOK DEF NetState, CallState
<1>2. call' \in [Calls -> CallState] /\ \A d \in Calls : CallOK(call[d])'
  <2>1. \A d \in Calls : CallOK(call'[d])
    BY DEF CallsInv
  <2> QED
    BY <1>1, <2>1 DEF CallsInv
<1>3. RepliesAreTheHosts'
  BY DEF CallsInv, RepliesAreTheHosts
<1>4. QueuesHoldRequests'
  <2>1. QueuesHoldRequests
    BY DEF CallsInv
  <2>2. \A h \in Hosts : \A i \in DOMAIN host'[h].queue :
          i \in DOMAIN host[h].queue /\ host'[h].queue[i] = host[h].queue[i]
    OBVIOUS
  <2>3. IsMemory => \A h \in Hosts : host'[h].queue = <<>> /\ host'[h].serving = None
    BY <2>1 DEF QueuesHoldRequests
  <2> QED
    BY <1>1, <2>1, <2>2, <2>3 DEF QueuesHoldRequests
<1>5. Counted'
  <2>1. \A h \in Hosts : Mine(h)' = Mine(h)
    BY <1>1 DEF Mine
  <2>2. \A h \in Hosts : Failed(h)' = Failed(h)
    BY <2>1 DEF Failed
  <2> QED
    BY <2>1, <2>2 DEF CallsInv, Counted
<1> QED
  BY <1>1, <1>2, <1>3, <1>4, <1>5 DEF CallsInv

\* Starting, failing and stopping hosts.
LEMMA HostSteps ==
  ASSUME RegistryInv, CallsInv, HostsNext, UNCHANGED <<call, net>>
  PROVE  CallsInv'
<1>1. PICK h \in Hosts : CreateThrows(h) \/ RegisterMemory(h) \/ RegisterNats(h) \/ StopHost(h)
  BY DEF HostsNext
<1>2. host \in [Hosts -> HostState] /\ setup \in Setups /\ UNCHANGED setup
  BY <1>1 DEF RegistryInv, RegistryTypeOK, CreateThrows, RegisterMemory, RegisterNats, StopHost
<1>3. \A g \in Hosts : /\ host'[g].queue \in {<<>>, host[g].queue}
                       /\ host'[g].serving = host[g].serving
                       /\ host'[g].requests = host[g].requests
                       /\ host'[g].errors = host[g].errors
  <2>1. CASE \E pc : host' = [host EXCEPT ![h].pc = pc]
    BY <1>2, <2>1 DEF HostState
  <2>2. CASE CreateThrows(h)
    BY <2>1, <2>2 DEF CreateThrows, Life
  <2>3. CASE RegisterMemory(h)
    BY <2>1, <2>3 DEF RegisterMemory, Life
  <2>4. CASE RegisterNats(h)
    BY <1>2, <2>4 DEF RegisterNats, HostState
  <2>5. CASE StopHost(h)
    <3>1. PICK kept \in {<<>>, host[h].queue} :
            host' = [host EXCEPT ![h].pc = "stopped", ![h].stops = @ + 1,
                                 ![h].serves = {}, ![h].discovery = {}, ![h].queue = kept]
      BY <2>5 DEF StopHost
    <3> QED
      BY <1>2, <3>1 DEF HostState
  <2> QED
    BY <1>1, <2>2, <2>3, <2>4, <2>5
<1> QED
  BY <1>2, <1>3, HostsLeaveCalls

\* A fault of the connection alters no reply but those its step names.
LEMMA Faults ==
  ASSUME net \in NetState, NEW n \in NetState, Fault(n)
  PROVE  net' \in NetState /\ net'.replies = n.replies
<1>1. n.faults + 1 \in Nat
  BY DEF NetState
<1>2. net' = [n EXCEPT !.faults = @ + 1]
  BY DEF Fault
<1> QED
  BY <1>1, <1>2 DEF NetState

\* The client's own steps.
LEMMA ClientSteps ==
  ASSUME RegistryInv, CallsInv, ClientNext
  PROVE  CallsInv'
<1>1. PICK c \in Calls :
        \/ \E input \in Inputs, value \in Values, d \in Made(setup.clientMw) :
             ClientCalls(c, input, value, d)
        \/ ClientTakes(c)
        \/ ClientAbandons(c)
  BY DEF ClientNext
<1>2. /\ call \in [Calls -> CallState] /\ net \in NetState /\ CallOK(call[c])
      /\ setup \in Setups /\ host \in [Hosts -> HostState] /\ UNCHANGED <<setup, host, net>>
  BY <1>1 DEF RegistryInv, RegistryTypeOK, CallsInv, ClientCalls, ClientTakes, ClientAbandons
<1>3. IsMemory <=> ~IsNats
  BY <1>2, TheContract
<1>4. call[c] \in CallState /\ Placed(call[c])
  BY <1>2 DEF CallOK
<1>5. \A tag : /\ Ended(call[c], tag).at = call[c].at /\ Ended(call[c], tag).host = call[c].host
               /\ Ended(call[c], tag).replied = call[c].replied
               /\ Ended(call[c], tag).pc = "done"
               /\ Ended(call[c], tag).decided = call[c].decided
               /\ Ended(call[c], tag).input = call[c].input
  BY <1>4 DEF Ended, CallState
<1>6. CASE \E input \in Inputs, value \in Values, d \in Made(setup.clientMw) :
             ClientCalls(c, input, value, d)
  <2>1. PICK input \in Inputs, value \in Values, d \in Made(setup.clientMw) :
          ClientCalls(c, input, value, d)
    BY <1>6
  <2>2. d \in Decisions
    BY DEF Made, Decisions
  <2> DEFINE chain  == Chain(setup.clientMw, Kind)
             traced == Enters(chain, d, "trace")
             m == [call[c] EXCEPT
                    !.input = IF TheMethod.input = "void" THEN "good" ELSE input,
                    !.value = value,
                    !.metadata = Metadata(setup.scoped, setup.contractContext, TheMethod,
                                          value, setup.matching),
                    !.traced = traced, !.decided = Stopped(chain, d),
                    !.span = IF traced THEN "open" ELSE "none"]
             k == IF Stopped(chain, d) THEN Ended(m, Decided(d))
                  ELSE IF Kind # "unary" /\ ~setup.streams THEN Ended(m, "raw")
                  ELSE [m EXCEPT !.pc = "sent",
                                 !.span = IF Kind = "serverStream"
                                          THEN ClosedSpan(@, "stream") ELSE @]
  <2>3. call[c].pc = "idle" /\ call' = [call EXCEPT ![c] = k]
    BY <2>1 DEF ClientCalls, Change
  <2>4. CallOK(k)
    BY <1>2, <2>2, <2>3, Calling
  <2>5. m.at = call[c].at /\ m.host = call[c].host /\ m.replied = call[c].replied
    BY <1>4 DEF CallState
  <2>6. DOMAIN m = DOMAIN call[c] /\ "at" \in DOMAIN m /\ "host" \in DOMAIN m /\ "replied" \in DOMAIN m
    BY <1>4 DEF CallState
  <2> HIDE DEF m
  <2>7. k.at = call[c].at /\ k.host = call[c].host /\ k.replied = call[c].replied
    BY <2>5, <2>6 DEF Ended
  <2> HIDE DEF k
  <2>8. Keeps(call[c], k)
    BY <2>3, <2>7 DEF Keeps
  <2> QED
    BY <1>2, <2>3, <2>4, <2>8, CallAlone
<1>7. CASE ClientTakes(c)
  <2>1. call[c].pc = "answered" /\ call' = [call EXCEPT ![c] = Ended(call[c], call[c].answer)]
    BY <1>7 DEF ClientTakes, Change
  <2>2. Keeps(call[c], Ended(call[c], call[c].answer))
    BY <1>5 DEF Keeps
  <2> QED
    BY <1>2, <2>1, <2>2, Taking, CallAlone
<1>8. CASE ClientAbandons(c)
  <2> DEFINE k == [call[c] EXCEPT !.pc = "done", !.at = "finished", !.outcome = "abandoned",
                                  !.span = ClosedSpan(@, "stream")]
  <2>1. /\ call[c].pc = "waiting" /\ call[c].at = "handling" /\ Kind \in {"serverStream", "duplex"}
        /\ call' = [call EXCEPT ![c] = k]
    BY <1>8 DEF ClientAbandons, Change
  <2>2. CallOK(k)
    BY <1>2, <2>1, Abandoning
  <2> HIDE DEF k
  <2>3. ~IsNats
    BY <1>2, <2>1, TheContract
  <2>4. Keeps(call[c], k)
    BY <2>1, <2>3 DEF Keeps
  <2> QED
    BY <1>2, <2>1, <2>2, <2>4, CallAlone
<1> QED
  BY <1>1, <1>6, <1>7, <1>8

\* The steps of the handler of a streaming call.
LEMMA HandlerSteps ==
  ASSUME RegistryInv, CallsInv, HandlerNext
  PROVE  CallsInv'
<1>1. PICK c \in Calls : \/ \E input \in {"good", "bad"} : HandlerReads(c, input)
                         \/ HandlerYields(c)
  BY DEF HandlerNext
<1>2. /\ call \in [Calls -> CallState] /\ net \in NetState /\ CallOK(call[c])
      /\ setup \in Setups /\ host \in [Hosts -> HostState] /\ UNCHANGED <<setup, host, net>>
      /\ call[c].at = "handling"
  BY <1>1 DEF RegistryInv, RegistryTypeOK, CallsInv, HandlerReads, HandlerYields
<1>3. ~IsNats
  BY <1>1, <1>2, TheContract DEF HandlerReads, HandlerYields
<1>4. \A k : Keeps(call[c], k)
  BY <1>2, <1>3 DEF Keeps
<1>5. PICK k : CallOK(k) /\ call' = [call EXCEPT ![c] = k]
  <2>1. CASE HandlerYields(c)
    BY <1>2, <2>1, Streaming DEF HandlerYields, Change
  <2>2. CASE \E input \in {"good", "bad"} : HandlerReads(c, input)
    BY <1>2, <2>2, Streaming DEF HandlerReads, Change
  <2> QED
    BY <1>1, <2>1, <2>2
<1> QED
  BY <1>2, <1>4, <1>5, CallAlone

\* The steps of the memory transport.
LEMMA MemorySteps ==
  ASSUME RegistryInv, CallsInv, MemoryNext
  PROVE  CallsInv'
<1>1. PICK c \in Calls : \/ MemoryInvokes(c)
                         \/ \E d \in Made(setup.hostMw) : MemoryServes(c, d)
                         \/ \E r \in Results : MemoryHandled(c, r)
  BY DEF MemoryNext
<1>2. /\ call \in [Calls -> CallState] /\ net \in NetState /\ CallOK(call[c])
      /\ setup \in Setups /\ host \in [Hosts -> HostState] /\ UNCHANGED <<setup, host, net>>
      /\ bus \in [Methods -> Hosts \cup {None}]
  BY <1>1 DEF RegistryInv, RegistryTypeOK, CallsInv, MemoryInvokes, MemoryServes, MemoryHandled
<1>3. /\ IsMemory <=> ~IsNats
      /\ call[c] \in CallState /\ Placed(call[c]) /\ Settled(call[c]) /\ Requested(call[c])
  BY <1>2, TheContract DEF CallOK
<1>4. IsMemory /\ call[c].at # "finished"
  BY <1>1, <1>3 DEF MemoryInvokes, MemoryServes, MemoryHandled, Placed
<1>5. \A k : Keeps(call[c], k)
  BY <1>3, <1>4 DEF Keeps
<1>6. PICK k : CallOK(k) /\ call' = [call EXCEPT ![c] = k]
  <2>1. CASE MemoryInvokes(c)
    <3> DEFINE k == [call[c] EXCEPT !.pc = "waiting"]
    <3>1. call[c].pc = "sent" /\ call[c].at = "none"
      BY <1>3, <2>1 DEF MemoryInvokes, Placed
    <3>2. ASSUME NEW tag \in {"__not_found__", "__kind_mismatch__"},
                 call' = [call EXCEPT ![c] = [k EXCEPT !.pc = "answered", !.answer = tag]]
          PROVE  \E n : CallOK(n) /\ call' = [call EXCEPT ![c] = n]
      <4>1. [k EXCEPT !.pc = "answered", !.answer = tag]
              = [call[c] EXCEPT !.pc = "answered", !.answer = tag]
        BY <1>3 DEF CallState
      <4>2. CallOK([call[c] EXCEPT !.pc = "answered", !.answer = tag])
        BY <1>2, <1>3, <1>4, <3>1, Answering DEF Tags, Local
      <4> QED
        BY <3>2, <4>1, <4>2
    <3>3. CASE call' = [call EXCEPT ![c] = [k EXCEPT !.at = "hosted", !.host = Registered]]
               /\ Registered # None
      <4>1. Registered \in Hosts
        BY <1>2, <3>3 DEF Registered
      <4> QED
        BY <1>2, <1>3, <1>4, <3>1, <3>3, <4>1, Delivering
    <3> QED
      BY <2>1, <3>2, <3>3 DEF MemoryInvokes, Change
  <2>2. CASE \E d \in Made(setup.hostMw) : MemoryServes(c, d)
    <3>1. PICK d \in Made(setup.hostMw) : MemoryServes(c, d)
      BY <2>2
    <3>2. d \in Decisions
      BY DEF Made, Decisions
    <3>3. call[c].pc = "waiting" /\ Arrived(call[c])
      BY <1>3, <1>4, <3>1 DEF MemoryServes, Placed, Arrived, Requested
    <3>4. CallOK(Returned(Begun(call[c], d)))
      BY <1>2, <1>3, <3>2, <3>3, Beginning, Returning
    <3> QED
      BY <3>1, <3>4 DEF MemoryServes, Change
  <2>3. CASE \E r \in Results : MemoryHandled(c, r)
    <3>1. PICK r \in Results : MemoryHandled(c, r)
      BY <2>3
    <3>2. call[c].at = "handling" /\ call[c].pc = "waiting"
      BY <1>3, <1>4, <3>1 DEF MemoryHandled, Placed
    <3>3. CallOK(Returned(HandlerSays(call[c], r)))
      BY <1>2, <1>3, <3>2, Saying, Returning
    <3> QED
      BY <3>1, <3>3 DEF MemoryHandled, Change
  <2> QED
    BY <1>1, <2>1, <2>2, <2>3
<1> QED
  BY <1>2, <1>5, <1>6, CallAlone

\* The instance answers: what it holds of the call becomes the answer, or __internal__.
LEMMA RespondingStep ==
  ASSUME RegistryInv, CallsInv, UNCHANGED setup, NEW h \in Hosts, NEW s \in HostState, NEW c, NEW k,
         WorksOn(h, c, s.queue), s.requests = host[h].requests, s.errors = host[h].errors,
         CallOK(k), k.at = "finished", k.replied # "none", c \in Calls,
         k.answer \in Local \cup {"raw", "none"}, Responds(h, s, c, k)
  PROVE  CallsInv'
<1>1. /\ setup \in Setups /\ None \notin Calls /\ host \in [Hosts -> HostState]
      /\ net \in NetState /\ k \in CallState
  BY SetupsAssumption DEF RegistryInv, RegistryTypeOK, CallsInv, CallOK
<1>2. PICK tag \in HostTags :
        /\ tag \in {k.replied, "__internal__"}
        /\ call' = [call EXCEPT ![c] = [Finished(k, tag) EXCEPT !.host = h]]
        /\ host' = [host EXCEPT ![h] = Record(s, tag)]
        /\ net' \in NetState
        /\ net'.replies \subseteq net.replies \cup {[call |-> c, tag |-> tag]}
  <2> DEFINE t == IF k.replied = "raw" \/ (k.last = "unencodable" /\ k.replied = "ok")
                  THEN "__internal__" ELSE k.replied
             Says(u) == /\ call' = [call EXCEPT ![c] = [Finished(k, u) EXCEPT !.host = h]]
                        /\ host' = [host EXCEPT ![h] = Record(s, u)]
  <2>1. \/ Says(t) /\ net' = [net EXCEPT !.replies = @ \cup {[call |-> c, tag |-> t]}]
        \/ Says("__internal__") /\ Fault(net)
    BY DEF Responds, Change
  <2>2. t \in HostTags /\ t \in {k.replied, "__internal__"} /\ "__internal__" \in HostTags
    BY <1>1 DEF HostTags, CallState
  <2> HIDE DEF t
  <2>3. CASE Says(t) /\ net' = [net EXCEPT !.replies = @ \cup {[call |-> c, tag |-> t]}]
    <3>1. net' \in NetState /\ net'.replies = net.replies \cup {[call |-> c, tag |-> t]}
      BY <1>1, <2>2, <2>3 DEF NetState
    <3> QED
      BY <2>2, <2>3, <3>1
  <2>4. CASE Says("__internal__") /\ Fault(net)
    <3>1. net' \in NetState /\ net'.replies = net.replies
      BY <1>1, <2>4, Faults
    <3> QED
      BY <2>2, <2>4, <3>1
  <2> QED
    BY <2>1, <2>3, <2>4
<1> DEFINE n == [Finished(k, tag) EXCEPT !.host = h]
           r == Record(s, tag)
<1>3. CallOK(n)
  BY <1>2, Delivered
<1>4. n.host = h /\ n.at = "finished" /\ n.replied = tag
  BY <1>1 DEF Finished, CallState
<1>5. /\ r \in HostState /\ r.queue = s.queue /\ r.serving = None
      /\ r.requests = s.requests + 1
      /\ r.errors = s.errors + (IF tag = "ok" THEN 0 ELSE 1)
  BY Recorded DEF Record, HostState
<1>6. \A x \in net'.replies : x \in net.replies
                              \/ (x.call = c /\ n.at = "finished" /\ x.tag = n.replied)
  BY <1>2, <1>4
<1>7. WorksOn(h, c, r.queue)
  BY <1>5
<1>8. /\ r.requests = host[h].requests + 1
      /\ r.errors = host[h].errors + (IF n.replied = "ok" THEN 0 ELSE 1)
  BY <1>4, <1>5
<1>9. call' = [call EXCEPT ![c] = n] /\ host' = [host EXCEPT ![h] = r] /\ net' \in NetState
  BY <1>2
<1> HIDE DEF n, r
<1> QED
  BY <1>1, <1>3, <1>4, <1>5, <1>6, <1>7, <1>8, <1>9, Serving

\* The request leaves the client and reaches one subscribed instance, or none.
LEMMA RequestStep ==
  ASSUME RegistryInv, CallsInv, NEW c \in Calls, NatsRequests(c)
  PROVE  CallsInv'
<1>1. /\ call \in [Calls -> CallState] /\ net \in NetState /\ CallOK(call[c])
      /\ setup \in Setups /\ host \in [Hosts -> HostState] /\ UNCHANGED <<setup, net>>
      /\ IsNats /\ call[c].pc = "sent"
  BY DEF RegistryInv, RegistryTypeOK, CallsInv, NatsRequests
<1>2. /\ ~IsMemory /\ IsNats' /\ ~IsMemory'
      /\ call[c] \in CallState /\ call[c].at = "none" /\ ~call[c].decided
  BY <1>1, TheContract, StillOK DEF CallOK, Placed
<1>3. \A k : k.at = "none" /\ k.host = call[c].host /\ k.replied = call[c].replied =>
        Keeps(call[c], k)
  BY <1>1, <1>2 DEF Keeps
<1>4. CASE UNCHANGED host /\ call' = [call EXCEPT ![c] = Ended(call[c], "raw")]
  <2>1. CallOK(Ended(call[c], "raw"))
    <3> DEFINE k == call[c]
               d == [k EXCEPT !.pc = "done"]
    <3>1. /\ k \in CallState /\ Requested(k) /\ Placed(k) /\ Handled(k) /\ Caused(k)
          /\ Settled(k) /\ Traced(k)
      BY <1>1 DEF CallOK
    <3>2. /\ d.pc = "done" /\ d.at = k.at /\ d.host = k.host /\ d.ran = k.ran /\ d.last = k.last
          /\ d.fault = k.fault /\ d.decided = k.decided /\ d.replied = k.replied
          /\ d.hostSpan = k.hostSpan
      BY <3>1 DEF CallState
    <3>3. Placed(d) /\ Explained(d, "raw")
      BY <1>1, <1>2, <3>1, <3>2 DEF Placed, Fresh, Explained
    <3>4. /\ k.value # "none"
          /\ k.metadata = Metadata(setup.scoped, setup.contractContext, TheMethod, k.value,
                                   setup.matching)
      BY <1>1, <3>1 DEF Requested
    <3>5. /\ Kind = "unary" => k.span \in {"none", "open"}
          /\ Wrapped /\ setup.clientMw # <<>> /\ setup.clientMw[1] = "trace" => k.span # "none"
      BY <1>1, <3>1 DEF Traced
    <3> HIDE DEF k
    <3>6. k.pc = "sent" /\ "raw" \in Tags
      BY <1>1 DEF k, Tags, HostTags
    <3>7. CallOK(Ended(k, "raw"))
      BY <3>1, <3>3, <3>4, <3>5, <3>6, Ending
    <3> QED
      BY <3>7 DEF k
  <2>2. Keeps(call[c], Ended(call[c], "raw"))
    <3> DEFINE e == Ended(call[c], "raw")
    <3>1. e.at = "none" /\ e.host = call[c].host /\ e.replied = call[c].replied
      BY <1>2 DEF Ended, CallState
    <3> HIDE DEF e
    <3>2. Keeps(call[c], e)
      BY <1>3, <3>1
    <3> QED
      BY <3>2 DEF e
  <2> QED
    BY <1>1, <1>4, <2>1, <2>2, CallAlone
<1>5. CASE /\ UNCHANGED host
           /\ call' = [call EXCEPT ![c] = [call[c] EXCEPT !.pc = "answered",
                                                          !.answer = "__transport__"]]
  <2> DEFINE k == [call[c] EXCEPT !.pc = "answered", !.answer = "__transport__"]
  <2>1. CallOK(k)
    BY <1>1, <1>2, Answering DEF Tags, Local
  <2>2. k.at = "none" /\ k.host = call[c].host /\ k.replied = call[c].replied
    BY <1>2 DEF CallState
  <2> HIDE DEF k
  <2>3. Keeps(call[c], k)
    BY <1>3, <2>2
  <2>4. call' = [call EXCEPT ![c] = k]
    BY <1>5 DEF k
  <2>5. net' \in NetState /\ net'.replies \subseteq net.replies /\ UNCHANGED <<setup, host>>
    BY <1>1, <1>5
  <2> QED
    BY <1>1, <2>1, <2>3, <2>4, <2>5, CallAlone
<1>6. CASE /\ call[c].input # "unencodable"
           /\ \E h \in Subscribed : host' = [host EXCEPT ![h].queue = Append(@, c)]
           /\ call' = [call EXCEPT ![c] = [call[c] EXCEPT !.pc = "waiting"]]
  <2> DEFINE k == [call[c] EXCEPT !.pc = "waiting"]
  <2>1. PICK h \in Hosts : host' = [host EXCEPT ![h].queue = Append(@, c)]
    BY <1>6 DEF Subscribed
  <2>2. CallOK(k)
    BY <1>1, <2>1, Delivering
  <2>3. /\ k.pc = "waiting" /\ k.at = "none" /\ k.decided = FALSE /\ k.input = call[c].input
        /\ k.host = call[c].host /\ k.replied = call[c].replied
    BY <1>2 DEF CallState
  <2> HIDE DEF k
  <2>4. /\ call' \in [Calls -> CallState] /\ \A d \in Calls : CallOK(call[d])'
        /\ call'[c] = k /\ \A d \in Calls : d # c => call'[d] = call[d]
    BY <1>1, <1>6, <2>2, OneCallMoves DEF k
  <2>5. /\ host'[h].queue = Append(host[h].queue, c)
        /\ \A g \in Hosts \ {h} : host'[g].queue = host[g].queue
        /\ \A g \in Hosts : /\ host'[g].serving = host[g].serving
                            /\ host'[g].requests = host[g].requests
                            /\ host'[g].errors = host[g].errors
    BY <1>1, <2>1 DEF HostState
  <2>6. /\ \A g \in Hosts : /\ host[g].queue \in Seq(Calls)
                            /\ host[g].serving \in Calls \cup {None}
        /\ None \notin Calls
    BY <1>1, SetupsAssumption DEF HostState
  <2>7. QueuesHoldRequests
    BY DEF CallsInv
  <2>8. \A g \in Hosts : \A i \in DOMAIN host[g].queue : host[g].queue[i] # c
    BY <1>1, <2>7 DEF QueuesHoldRequests
  <2>9. \A g \in Hosts : \A i \in DOMAIN host'[g].queue :
          \/ i \in DOMAIN host[g].queue /\ host'[g].queue[i] = host[g].queue[i]
          \/ g = h /\ i = Len(host[g].queue) + 1 /\ host'[g].queue[i] = c
    <3> TAKE g \in Hosts
    <3>1. CASE g = h
      <4> DEFINE q == host[g].queue
      <4>1. q \in Seq(Calls) /\ host'[g].queue = Append(q, c)
        BY <2>5, <2>6, <3>1
      <4> HIDE DEF q
      <4>2. \A i \in DOMAIN Append(q, c) : \/ i \in DOMAIN q /\ Append(q, c)[i] = q[i]
                                           \/ i = Len(q) + 1 /\ Append(q, c)[i] = c
        BY <4>1
      <4> QED
        BY <3>1, <4>1, <4>2 DEF q
    <3>2. CASE g # h
      BY <2>5, <3>2
    <3> QED
      BY <3>1, <3>2
  <2>10. QueuesHoldRequests'
    <3>1. \A g \in Hosts : \A i \in DOMAIN host'[g].queue :
            LET d == call'[host'[g].queue[i]] IN
            d.at = "none" /\ d.pc \notin {"idle", "sent"} /\ ~d.decided /\ d.input # "unencodable"
      <4> SUFFICES ASSUME NEW g \in Hosts, NEW i \in DOMAIN host'[g].queue
                   PROVE  LET d == call'[host'[g].queue[i]] IN
                          /\ d.at = "none" /\ d.pc \notin {"idle", "sent"}
                          /\ ~d.decided /\ d.input # "unencodable"
        OBVIOUS
      <4>1. CASE host'[g].queue[i] = c
        BY <1>6, <2>3, <2>4, <4>1
      <4>2. CASE i \in DOMAIN host[g].queue /\ host'[g].queue[i] = host[g].queue[i]
        <5>1. host[g].queue[i] \in Calls /\ host[g].queue[i] # c
          BY <2>6, <2>8, <4>2
        <5> QED
          BY <2>4, <2>7, <4>2, <5>1 DEF QueuesHoldRequests
      <4> QED
        BY <2>9, <4>1, <4>2
    <3>2. \A f, g \in Hosts : \A i \in DOMAIN host'[f].queue : \A j \in DOMAIN host'[g].queue :
            host'[f].queue[i] = host'[g].queue[j] => f = g /\ i = j
      BY <2>7, <2>8, <2>9 DEF QueuesHoldRequests
    <3>3. \A g \in Hosts : host'[g].serving # None =>
            call'[host'[g].serving].at = "handling" /\ call'[host'[g].serving].host = g
      BY <1>2, <2>4, <2>5, <2>6, <2>7 DEF QueuesHoldRequests
    <3> QED
      BY <1>2, <3>1, <3>2, <3>3 DEF QueuesHoldRequests
  <2>11. Counted'
    <3>1. \A d \in Calls : call'[d].at = call[d].at /\ call'[d].host = call[d].host
                           /\ call'[d].replied = call[d].replied
      BY <1>2, <2>3, <2>4
    <3>2. \A g \in Hosts : Mine(g)' = Mine(g)
      BY <1>1, <1>2, <3>1 DEF Mine
    <3>3. \A g \in Hosts : Failed(g)' = Failed(g)
      BY <3>1, <3>2 DEF Failed, Mine
    <3> QED
      BY <2>5, <3>2, <3>3 DEF CallsInv, Counted
  <2>12. RepliesAreTheHosts'
    <3>1. \A x \in net.replies : x.call \in Calls
      BY <1>1 DEF NetState
    <3>2. \A x \in net.replies : x.call # c
      BY <1>2 DEF CallsInv, RepliesAreTheHosts
    <3> QED
      BY <1>1, <2>4, <3>1, <3>2 DEF CallsInv, RepliesAreTheHosts
  <2> QED
    BY <1>1, <2>4, <2>10, <2>11, <2>12 DEF CallsInv, NetState
<1> QED
  BY <1>4, <1>5, <1>6 DEF NatsRequests, Change

\* The reply reaches the client, once.
LEMMA AnswerStep ==
  ASSUME RegistryInv, CallsInv, NEW c \in Calls, UNCHANGED <<setup, host>>,
         net' \in NetState, net'.replies \subseteq net.replies,
         call[c].pc = "waiting", NEW tag \in Tags \ {"__not_found__", "__kind_mismatch__"},
         tag \in Local \/ tag = call[c].replied, IsNats \/ call[c].at = "finished",
         call' = [call EXCEPT ![c] = [call[c] EXCEPT !.pc = "answered", !.answer = tag]]
  PROVE  CallsInv'
<1> DEFINE k == [call[c] EXCEPT !.pc = "answered", !.answer = tag]
<1>1. /\ call \in [Calls -> CallState] /\ CallOK(call[c])
      /\ setup \in Setups /\ host \in [Hosts -> HostState]
  BY DEF RegistryInv, RegistryTypeOK, CallsInv
<1>2. IsMemory <=> ~IsNats
  BY <1>1, TheContract
<1>3. CallOK(k)
  BY <1>1, <1>2, Answering
<1>4. Keeps(call[c], k)
  BY <1>1 DEF CallState, Keeps
<1> QED
  BY <1>1, <1>3, <1>4, CallAlone

\* The steps of the NATS transport.
LEMMA NatsSteps ==
  ASSUME RegistryInv, CallsInv, NatsNext
  PROVE  CallsInv'
<1>1. /\ call \in [Calls -> CallState] /\ net \in NetState /\ \A c \in Calls : CallOK(call[c])
      /\ setup \in Setups /\ host \in [Hosts -> HostState] /\ None \notin Calls
  BY SetupsAssumption DEF RegistryInv, RegistryTypeOK, CallsInv
<1>2. IsMemory <=> ~IsNats
  BY <1>1, TheContract
<1>3. ASSUME NEW c \in Calls, NatsTimesOut(c) PROVE CallsInv'
  BY <1>1, <1>3, AnswerStep, TheContract DEF NatsTimesOut, Change, Tags, Local
<1>4. ASSUME NEW c \in Calls, NatsCloses(c) PROVE CallsInv'
  <2>1. net' \in NetState /\ net'.replies = net.replies
    BY <1>1, <1>4, Faults DEF NatsCloses
  <2> QED
    BY <1>1, <1>4, <2>1, AnswerStep DEF NatsCloses, Change, Tags, Local
<1>5. ASSUME NEW h \in Hosts, NEW d \in Made(setup.hostMw), NatsTakes(h, d) PROVE CallsInv'
  <2> DEFINE c == Head(host[h].queue)
             s == [host[h] EXCEPT !.queue = Tail(@)]
             k == Begun(call[c], d)
  <2>1. /\ host[h].serving = None /\ host[h].queue # <<>> /\ UNCHANGED setup
        /\ host[h] \in HostState /\ s \in HostState
        /\ s.queue = Tail(host[h].queue) /\ s.requests = host[h].requests
        /\ s.errors = host[h].errors
    BY <1>1, <1>5, Dequeued DEF NatsTakes, HostState
  <2>2. WorksOn(h, c, s.queue)
    BY <2>1 DEF WorksOn
  <2> HIDE DEF s
  <2>3. c \in Calls /\ Arrived(call[c])
    BY <1>1, <2>1, <2>2, Taken
  <2>4. d \in Decisions
    BY DEF Made, Decisions
  <2>5. /\ CallOK(k) /\ k.answer = call[c].answer
        /\ k.at = "handling" \/ (k.at = "finished" /\ k.replied # "none")
    BY <1>1, <2>3, <2>4, Beginning
  <2>6. CallOK(call[c]) /\ call[c].replied = "none" /\ ~call[c].decided
    BY <1>1, <2>3 DEF Arrived, CallOK, Placed, Fresh
  <2>7. k.answer \in Local \cup {"raw", "none"}
    BY <2>5, <2>6, Undecided
  <2>8. CASE k.at = "finished"
    <3>1. Responds(h, s, c, k)
      BY <1>5, <2>8 DEF NatsTakes, s
    <3> HIDE DEF c, k
    <3> QED
      BY <2>1, <2>2, <2>3, <2>5, <2>7, <2>8, <3>1, RespondingStep
  <2>9. CASE k.at = "handling"
    <3> DEFINE n == [k EXCEPT !.host = h]
               t == [s EXCEPT !.serving = c]
    <3>1. /\ call' = [call EXCEPT ![c] = n] /\ host' = [host EXCEPT ![h] = t] /\ UNCHANGED net
      BY <1>5, <2>9 DEF NatsTakes, s, Change
    <3>2. k \in CallState
      BY <2>5 DEF CallOK
    <3> HIDE DEF c, k
    <3>3. CallOK(n)
      BY <2>5, <2>9, Holding
    <3>4. n.host = h /\ n.at = "handling"
      BY <2>9, <3>2 DEF CallState
    <3>5. /\ t \in HostState /\ t.queue = s.queue /\ t.serving = c
          /\ t.requests = s.requests /\ t.errors = s.errors
      BY <2>1, <2>3 DEF HostState
    <3>6. WorksOn(h, c, t.queue)
      BY <2>2, <3>5
    <3> HIDE DEF n, t
    <3> QED
      BY <1>1, <2>1, <3>1, <3>3, <3>4, <3>5, <3>6, Serving
  <2> QED
    BY <2>5, <2>8, <2>9
<1>6. ASSUME NEW h \in Hosts, NatsTakesGarbled(h) PROVE CallsInv'
  <2> DEFINE c == Head(host[h].queue)
             s == [host[h] EXCEPT !.queue = Tail(@)]
             t == Record(s, "__serde__")
             n == [Finished(call[c], "__serde__") EXCEPT !.host = h]
             m == [net EXCEPT !.replies = @ \cup {[call |-> c, tag |-> "__serde__"]}]
  <2>1. /\ host[h].serving = None /\ host[h].queue # <<>> /\ UNCHANGED setup
        /\ host[h] \in HostState /\ s \in HostState
        /\ s.queue = Tail(host[h].queue) /\ s.requests = host[h].requests
        /\ s.errors = host[h].errors
    BY <1>1, <1>6, Dequeued DEF NatsTakesGarbled, HostState
  <2>2. WorksOn(h, c, s.queue)
    BY <2>1 DEF WorksOn
  <2>3. /\ call' = [call EXCEPT ![c] = n] /\ host' = [host EXCEPT ![h] = t] /\ Fault(m)
    BY <1>6 DEF NatsTakesGarbled, Change
  <2> HIDE DEF s
  <2>4. c \in Calls /\ Arrived(call[c])
    BY <1>1, <2>1, <2>2, Taken
  <2> HIDE DEF c
  <2>5. /\ CallOK(call[c]) /\ call[c] \in CallState /\ call[c].hostSpan = "none"
        /\ call[c].decided = FALSE /\ call[c].replied = "none"
    BY <1>1, <2>4 DEF Arrived, CallOK, Placed, Fresh
  <2>6. n \in CallState
    BY <2>5, Fields DEF Finished, HostTags
  <2>7. /\ n.at = "finished" /\ n.replied = "__serde__" /\ n.decided = FALSE
        /\ n.hostSpan = "none" /\ n.host = h
        /\ n.pc = call[c].pc /\ n.answer = call[c].answer /\ n.outcome = call[c].outcome
        /\ n.span = call[c].span /\ n.input = call[c].input /\ n.value = call[c].value
        /\ n.metadata = call[c].metadata /\ n.ran = call[c].ran /\ n.last = call[c].last
        /\ n.fault = call[c].fault
    BY <2>5 DEF Finished, CallState
  <2> HIDE DEF n
  <2>8. CallOK(n)
    BY <1>2, <2>4, <2>5, <2>6, <2>7, Refusing
  <2>9. /\ t \in HostState /\ t.queue = s.queue /\ t.serving = None
        /\ t.requests = s.requests + 1 /\ t.errors = s.errors + 1
    BY <2>1, Recorded DEF Record, HostState
  <2>10. m \in NetState /\ m.replies = net.replies \cup {[call |-> c, tag |-> "__serde__"]}
    BY <1>1, <2>4 DEF NetState, HostTags
  <2> HIDE DEF m
  <2>11. net' \in NetState /\ net'.replies = m.replies
    BY <1>1, <2>3, <2>10, Faults
  <2>12. WorksOn(h, c, t.queue)
    BY <2>2, <2>9
  <2>13. \A x \in net'.replies : x \in net.replies
                                 \/ (x.call = c /\ n.at = "finished" /\ x.tag = n.replied)
    BY <2>7, <2>10, <2>11
  <2>14. /\ t.requests = host[h].requests + 1
         /\ t.errors = host[h].errors + (IF n.replied = "ok" THEN 0 ELSE 1)
    BY <2>1, <2>7, <2>9
  <2>15. UNCHANGED setup /\ t \in HostState /\ t.serving = None /\ net' \in NetState
         /\ n.at = "finished" /\ n.host = h
    BY <2>1, <2>7, <2>9, <2>11
  <2>16. call' = [call EXCEPT ![c] = n] /\ host' = [host EXCEPT ![h] = t]
    BY <2>3
  <2> HIDE DEF t
  <2> QED
    BY <1>1, <2>8, <2>12, <2>13, <2>14, <2>15, <2>16, Serving
<1>7. ASSUME NEW h \in Hosts, NEW r \in Results, NatsHandled(h, r) PROVE CallsInv'
  <2> DEFINE c == host[h].serving
             k == HandlerSays(call[c], r)
  <2>1. c # None /\ UNCHANGED setup /\ host[h] \in HostState /\ Responds(h, host[h], c, k)
    BY <1>1, <1>7 DEF NatsHandled
  <2>2. WorksOn(h, c, host[h].queue)
    BY <2>1 DEF WorksOn
  <2>3. c \in Calls /\ call[c].at = "handling"
    BY <1>1, <2>1, <2>2, Taken
  <2> HIDE DEF c
  <2>4. CallOK(k) /\ k.answer = call[c].answer /\ k.at = "finished" /\ k.replied # "none"
    BY <1>1, <2>3, Saying
  <2>5. call[c].replied = "none"
    BY <1>1, <2>3 DEF CallOK, Placed
  <2>6. k.answer \in Local \cup {"raw", "none"}
    BY <1>1, <2>3, <2>4, <2>5, Undecided
  <2> HIDE DEF k
  <2> QED
    BY <2>1, <2>2, <2>3, <2>4, <2>6, RespondingStep
<1>8. ASSUME NEW r \in net.replies, NatsReplies(r) PROVE CallsInv'
  <2> DEFINE n == [net EXCEPT !.replies = @ \ {r}]
             c == r.call
  <2>1. /\ UNCHANGED <<setup, host>> /\ c \in Calls /\ call[c].at = "finished"
        /\ r.tag = call[c].replied /\ r.tag \in HostTags
    BY <1>1, <1>8 DEF NatsReplies, CallsInv, NetState, RepliesAreTheHosts
  <2>2. n \in NetState /\ n.replies \subseteq net.replies
    BY <1>1 DEF NetState
  <2> HIDE DEF n
  <2>3. net' \in NetState /\ net'.replies \subseteq net.replies
    BY <1>1, <1>8, <2>2, Faults DEF NatsReplies, n
  <2>4. CASE UNCHANGED call
    <3>1. call' = [call EXCEPT ![c] = call[c]] /\ Keeps(call[c], call[c])
      BY <1>1, <2>4 DEF Keeps
    <3> QED
      BY <1>1, <2>1, <2>3, <3>1, CallAlone
  <2>5. ASSUME NEW tag \in {r.tag, "__serde__"}, call[c].pc = "waiting",
               call' = [call EXCEPT ![c] = [call[c] EXCEPT !.pc = "answered", !.answer = tag]]
        PROVE  CallsInv'
    <3>1. tag \in Tags \ {"__not_found__", "__kind_mismatch__"}
      BY <2>1 DEF Tags, HostTags, Local
    <3>2. tag \in Local \/ tag = call[c].replied
      BY <2>1 DEF Local
    <3> QED
      BY <2>1, <2>3, <2>5, <3>1, <3>2, AnswerStep
  <2>6. \/ UNCHANGED call
        \/ /\ call[c].pc = "waiting"
           /\ \E tag \in {r.tag, "__serde__"} :
                call' = [call EXCEPT ![c] = [call[c] EXCEPT !.pc = "answered", !.answer = tag]]
    BY <1>8 DEF NatsReplies, Change
  <2> QED
    BY <2>4, <2>5, <2>6
<1> QED
  BY <1>3, <1>4, <1>5, <1>6, <1>7, <1>8, RequestStep DEF NatsNext

\* No call is under way at first.
LEMMA CallsBegin == Init => CallsInv
<1> SUFFICES ASSUME Init PROVE CallsInv
  OBVIOUS
<1> DEFINE k == [pc |-> "idle", at |-> "none", input |-> "good", value |-> "none",
                 metadata |-> "none", traced |-> FALSE, host |-> None, ran |-> 0,
                 seen |-> "none", last |-> "none", items |-> 0, fault |-> FALSE,
                 decided |-> FALSE, answer |-> "none", replied |-> "none",
                 outcome |-> "none", presented |-> "none", span |-> "none",
                 hostSpan |-> "none"]
<1>1. /\ call = [c \in Calls |-> k] /\ net = [replies |-> {}, faults |-> 0]
      /\ \A h \in Hosts : /\ host[h].queue = <<>> /\ host[h].serving = None
                          /\ host[h].requests = 0 /\ host[h].errors = 0
  BY DEF Init, InitHosts
<1>2. k \in CallState
  BY DEF CallState, Spans
<1>3. CallOK(k)
  BY <1>2 DEF CallOK, Requested, Placed, Fresh, Handled, Caused, Settled, Traced
<1> HIDE DEF k
<1>4. call \in [Calls -> CallState] /\ \A c \in Calls : call[c] = k /\ CallOK(call[c])
  BY <1>1, <1>2, <1>3
<1>5. net \in NetState /\ net.replies = {}
  BY <1>1 DEF NetState
<1>6. RepliesAreTheHosts /\ QueuesHoldRequests
  BY <1>1, <1>5 DEF RepliesAreTheHosts, QueuesHoldRequests
<1>7. Counted
  <2>1. \A h \in Hosts : Mine(h) = {} /\ Failed(h) = {}
    BY <1>4 DEF Mine, Failed, k
  <2> QED
    BY <1>1, <2>1, FS_EmptySet DEF Counted
<1> QED
  BY <1>4, <1>5, <1>6, <1>7 DEF CallsInv

\* The calls' invariant is inductive, given the registry's.
LEMMA CallsKept == RegistryInv /\ CallsInv /\ [Next]_vars => CallsInv'
<1> SUFFICES ASSUME RegistryInv, CallsInv, [Next]_vars PROVE CallsInv'
  OBVIOUS
<1>1. CASE UNCHANGED vars
  <2>1. setup \in Setups
    BY DEF RegistryInv, RegistryTypeOK
  <2> QED
    BY <1>1, <2>1, HostsLeaveCalls DEF vars
<1> QED
  BY <1>1, HostSteps, ClientSteps, HandlerSteps, MemorySteps, NatsSteps DEF Next

\* Both invariants hold in every reachable state.
LEMMA CallsAreExplained == Spec => [](RegistryInv /\ CallsInv)
<1>1. RegistryInv /\ [Next]_vars => RegistryInv'
  BY RegistryMoves
<1> QED
  BY <1>1, RegistryBegins, CallsBegin, CallsKept, PTL DEF Spec

\* The tag that an application gets tells what happened to its call (client/index.ts,
\* client/request.ts, host/handler.ts, the two transports), for any number of calls,
\* hosts, faults and any middleware.
THEOREM AnswersMatchTheirCause == Spec => []AnswerMatchesCause
<1>1. RegistryInv /\ CallsInv => AnswerMatchesCause
  <2> SUFFICES ASSUME RegistryInv, CallsInv, NEW c \in Calls
               PROVE  LET k == call[c] IN
                 /\ k.ran > 0 => /\ k.ran = 1
                                 /\ k.seen = Given(k)
                                 /\ Wrapped /\ TheMethod.input = "schema" => k.input = "good"
                 /\ k.outcome = "ok" => k.decided \/ k.last \in {"good", "bad", "unencodable"}
                 /\ k.outcome = "ok" /\ k.last = "bad" => TheMethod.output = "void"
                 /\ k.outcome = "tagged" => k.decided \/ k.last = "tagged"
                 /\ k.outcome \in {"__not_found__", "__kind_mismatch__"} => k.ran = 0
                 /\ k.outcome = "__validation__" => k.last = "bad" \/ k.input = "bad"
                 /\ k.outcome = "__validation__" /\ Wrapped /\ k.input = "bad" => k.ran = 0
    BY DEF AnswerMatchesCause
  <2> DEFINE k == call[c]
  <2>1. /\ Requested(k) /\ Placed(k) /\ Handled(k) /\ Caused(k) /\ Settled(k)
        /\ setup \in Setups
    BY DEF CallsInv, CallOK, RegistryInv, RegistryTypeOK
  <2> HIDE DEF k
  <2>2. /\ k.ran \in {0, 1}
        /\ k.ran > 0 => /\ k.ran = 1
                        /\ k.seen = Given(k)
                        /\ Wrapped /\ TheMethod.input = "schema" => k.input = "good"
    BY <2>1 DEF Handled
  <2>3. k.outcome \notin {"none", "abandoned"} =>
          k.outcome = k.answer /\ k.pc = "done" /\ Explained(k, k.answer)
    BY <2>1 DEF Settled
  <2>4. k.outcome = "ok" => k.decided \/ k.last \in {"good", "bad", "unencodable"}
    BY <2>1, <2>3 DEF Explained, Caused, Local
  <2>5. k.outcome = "ok" /\ k.last = "bad" => TheMethod.output = "void"
    BY <2>1, <2>3 DEF Explained, Caused, Local
  <2>6. k.outcome = "tagged" => k.decided \/ k.last = "tagged"
    BY <2>1, <2>3 DEF Explained, Caused, Local
  <2>7. k.outcome \in {"__not_found__", "__kind_mismatch__"} => k.ran = 0
    BY <2>1, <2>3 DEF Settled, Placed, Fresh
  <2>8. k.outcome = "__validation__" => k.last = "bad" \/ k.input = "bad"
    BY <2>1, <2>3 DEF Explained, Caused, Local
  <2>9. Wrapped /\ k.input = "bad" => k.ran = 0
    BY <2>1, <2>2, TheContract DEF Requested
  <2> QED
    BY <2>2, <2>4, <2>5, <2>6, <2>7, <2>8, <2>9 DEF k
<1> QED
  BY <1>1, CallsAreExplained, PTL

\* The spans of both ends are closed with what became of the call (rpc-otel/src).
THEOREM SpansTellOutcomes == Spec => []SpansTellTheOutcome
<1>1. CallsInv => SpansTellTheOutcome
  BY DEF CallsInv, CallOK, Traced, SpansTellTheOutcome
<1> QED
  BY <1>1, CallsAreExplained, PTL

\* The published statistics count every answered request once (discovery.ts and the
\* recording in host-transport.ts).
THEOREM StatisticsAgree == Spec => []StatsAgree
<1>1. CallsInv => StatsAgree
  <2> SUFFICES ASSUME CallsInv PROVE StatsAgree
    OBVIOUS
  <2>1. \A h \in Hosts :
          LET mine == {c \in Calls : IsNats /\ call[c].host = h /\ call[c].at = "finished"}
          IN /\ host[h].requests = Cardinality(mine)
             /\ host[h].errors = Cardinality({c \in mine : call[c].replied # "ok"})
    BY DEF CallsInv, Counted, Mine, Failed
  <2>2. ASSUME NEW c \in Calls, call[c].outcome = "ok", call[c].host # None
        PROVE  call[c].replied = "ok"
    <3>1. Placed(call[c]) /\ Settled(call[c])
      BY DEF CallsInv, CallOK
    <3>2. call[c].at # "none" /\ call[c].answer = "ok" /\ Explained(call[c], "ok")
      BY <2>2, <3>1 DEF Placed, Settled
    <3> QED
      BY <3>2 DEF Explained, Local
  <2> QED
    BY <2>1, <2>2 DEF StatsAgree
<1> QED
  BY <1>1, CallsAreExplained, PTL
===============================================================================
