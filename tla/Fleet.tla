-------------------------------- MODULE Fleet --------------------------------
(* Service declarations (@insler/service) and the manifest of a fleet of them *)
(* (platform/src/fleet).                                                      *)
(*                                                                            *)
(* A text is a sequence of words and separators, "orders.api" being           *)
(* <<"orders", ".", "api">>: what the code splits, joins and replaces are the *)
(* separators.  An omitted field is None.  The scale bounds are integers.     *)
EXTENDS Integers, FiniteSets, SequencesExt

CONSTANT None

ASSUME NoneAssumption == None \notin Int

\* a ?? b
Given(a, b) == IF a = None THEN b ELSE a

ServiceKinds == {"ephemeral", "persistent", "workflow"}

\* What the types of defineService() promise of a declaration.
IsTyped(d) ==
    /\ d.name \in Seq(STRING) /\ d.kind \in ServiceKinds
    /\ d.needs \in Seq(Seq(STRING)) /\ d.calls \in Seq([kind : Seq(STRING), method : STRING])
    /\ d.scale.min \in Int \cup {None} /\ d.scale.max \in Int \cup {None}

ServiceKindProfiles ==
    [ephemeral  |-> [minReplicas |-> 0, scalingSignal |-> "queue-depth"],
     persistent |-> [minReplicas |-> 1, scalingSignal |-> "cpu"],
     workflow   |-> [minReplicas |-> 1, scalingSignal |-> "task-queue-backlog"]]

------------------------------------------------------------------------------
(* Declarations *)

\* Mutant of ResolveScale: the fallback for `min` is 0.
ResolveScaleByFloorZero(d) ==
    [on  |-> Given(d.scale.on, ServiceKindProfiles[d.kind].scalingSignal),
     min |-> Given(d.scale.min, 0),
     max |-> d.scale.max]

\* The effective scale: the kind's signal and floor where the author gives none.
ResolveScale(d) ==
    [on  |-> Given(d.scale.on, ServiceKindProfiles[d.kind].scalingSignal),
     min |-> Given(d.scale.min, ServiceKindProfiles[d.kind].minReplicas),
     max |-> d.scale.max]

ResolveIsolation(d) == Given(d.isolation, "default")

\* max is compared with the declared min only, not with the kind's floor.
ScaleIsValid(d) ==
    /\ d.scale.min # None => /\ d.scale.min >= 0
                             /\ d.kind # "ephemeral" => d.scale.min >= 1
    /\ d.scale.max # None => /\ d.scale.max >= 0
                             /\ d.scale.min # None => d.scale.max >= d.scale.min

KindIsValid(d) ==
    /\ d.kind = "workflow" => d.taskQueue \notin {None, <<>>}
    /\ d.kind # "ephemeral" /\ d.scale.min # None => d.scale.min >= 1

Subject(kind, method) == kind \o <<".", method>>

CallSubjects(d) == [i \in DOMAIN d.calls |-> Subject(d.calls[i].kind, d.calls[i].method)]

\* The http routes in the order declared, then the websocket endpoint.
ExposeRoutes(d) ==
    [i \in DOMAIN d.http |-> [transport |-> "http"] @@ d.http[i]] \o
    (IF d.websocket = None
     THEN <<>>
     ELSE <<[transport |-> "websocket", method |-> None, stream |-> None] @@ d.websocket>>)

RouteKey(route) == <<route.transport, route.method, route.path>>

\* What is wrong with a sequence of [service, route]: every blank path, and once
\* for each key its first two claims.
ExposeIssues(owned) ==
    LET named == {i \in DOMAIN owned : owned[i].route.path # <<>>}
        Claims(k) == {i \in named : RouteKey(owned[i].route) = k}
        keys == {RouteKey(owned[i].route) : i \in named}
        FirstTwo(k) == {i \in Claims(k) : Cardinality({j \in Claims(k) : j < i}) < 2}
    IN  {[kind |-> "malformed-expose-route", services |-> {owned[i].service}] :
            i \in DOMAIN owned \ named} \cup
        {[kind |-> "duplicate-expose-route",
          services |-> {owned[i].service : i \in FirstTwo(k)}] :
            k \in {k \in keys : Cardinality(Claims(k)) > 1}}

OwnedRoutes(d) == [i \in DOMAIN ExposeRoutes(d) |-> [service |-> d.name, route |-> ExposeRoutes(d)[i]]]

\* defineService() returns a declaration, it does not throw.
DefineService(d) ==
    /\ IsInjective(d.needs)
    /\ IsInjective(CallSubjects(d)) /\ <<>> \notin ToSet(CallSubjects(d))
    /\ ExposeIssues(OwnedRoutes(d)) = {}
    /\ ScaleIsValid(d)
    /\ KindIsValid(d)

------------------------------------------------------------------------------
(* Identity *)

EnvironmentTokens == [production |-> "prod", development |-> "dev", test |-> "test"]

\* The text after the last dot, and what is before it.
SplitName(name) ==
    LET dots == {i \in DOMAIN name : name[i] = "."}
        last == CHOOSE i \in dots : \A j \in dots : j <= i
    IN  IF dots = {}
        THEN [namespace |-> <<"default">>, name |-> name]
        ELSE [namespace |-> SubSeq(name, 1, last - 1), name |-> SubSeq(name, last + 1, Len(name))]

DeriveIdentity(d, serviceEnv) ==
    LET split == SplitName(d.name)
        env == EnvironmentTokens[serviceEnv]
    IN  [name |-> split.name, namespace |-> split.namespace, environment |-> env,
         qualifiedName |-> <<env, ".">> \o split.namespace \o <<".">> \o split.name]

------------------------------------------------------------------------------
(* The fleet: scanned is a sequence of [service, file] in discovery order. *)

\* filesByName, filesByIdentity: an error for each value two declarations share.
Shared(scanned, kind, values) ==
    LET Group(v) == {i \in DOMAIN scanned : values[i] = v}
    IN  {[kind |-> kind, files |-> {scanned[i].file : i \in Group(v)}] :
            v \in {v \in ToSet(values) : Cardinality(Group(v)) > 1}}

OwnSubjects(d) == {Subject(d.contract, m) : m \in d.methods}

\* Whoever serves the subject last in discovery order.
SubjectOwner(scanned, subject) ==
    LET serving == {i \in DOMAIN scanned : subject \in OwnSubjects(scanned[i].service)}
    IN  IF serving = {}
        THEN None
        ELSE scanned[CHOOSE i \in serving : \A j \in serving : j <= i].service.name

UnknownCalls(scanned) ==
    {[kind |-> "unknown-call-subject", files |-> {scanned[i].file}] :
        i \in {i \in DOMAIN scanned :
                 \E s \in ToSet(CallSubjects(scanned[i].service)) : SubjectOwner(scanned, s) = None}}

RouteErrors(scanned) ==
    LET owned == FlattenSeq([i \in DOMAIN scanned |-> OwnedRoutes(scanned[i].service)])
        FileOf(service) == scanned[CHOOSE i \in DOMAIN scanned :
                                      /\ scanned[i].service.name = service
                                      /\ \A j \in 1..(i - 1) : scanned[j].service.name # service].file
    IN  {[kind |-> e.kind, files |-> {FileOf(s) : s \in e.services}] : e \in ExposeIssues(owned)}

FleetErrors(scanned, serviceEnv) ==
    LET names == [i \in DOMAIN scanned |-> scanned[i].service.name]
        identities == [i \in DOMAIN scanned |->
                         DeriveIdentity(scanned[i].service, serviceEnv).qualifiedName]
    IN  Shared(scanned, "duplicate-service-name", names) \cup
        Shared(scanned, "duplicate-service-identity", identities) \cup
        UnknownCalls(scanned) \cup
        RouteErrors(scanned)

Edges(scanned) ==
    LET Of(d) == [i \in DOMAIN d.needs |-> [from |-> d.name, to |-> d.needs[i], type |-> "needs"]] \o
                 [i \in DOMAIN d.calls |-> [from |-> d.name, type |-> "calls",
                                            to |-> SubjectOwner(scanned, CallSubjects(d)[i])]]
    IN  FlattenSeq([i \in DOMAIN scanned |-> Of(scanned[i].service)])

\* The manifest of a fleet without errors, or the errors.
BuildFleetManifest(scanned, serviceEnv) ==
    LET errors == FleetErrors(scanned, serviceEnv)
    IN  [errors |-> errors,
         manifest |-> IF errors # {}
                      THEN None
                      ELSE [services |-> [i \in DOMAIN scanned |-> scanned[i].service],
                            edges    |-> Edges(scanned),
                            routes   |-> FlattenSeq([i \in DOMAIN scanned |->
                                                        OwnedRoutes(scanned[i].service)])]]
==============================================================================
