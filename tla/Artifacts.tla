------------------------------ MODULE Artifacts ------------------------------
(* What the generator and its plugins (platform/src/generator) make of a      *)
(* manifest.  A generated file is [path, content], the content a record of    *)
(* the names, references and bounds the document carries; quoting, ports,     *)
(* probes, resources and other constant text are left out, and so is the      *)
(* order of the files, which the plugins and collect() sort by path.          *)
EXTENDS Fleet

\* A deployment run: environment is free text, target is kubernetes or serverless;
\* platform is the serverless platform's bounds, registered and provision the
\* configuration of the data-store claims.
CONSTANTS Platform, Registered, Provision

\* A platform's window has room for one instance.
ASSUME PlatformAssumption ==
    /\ Platform.minScaleFloor \in Nat /\ Platform.maxScaleCeiling \in Nat \ {0}
    /\ Platform.minScaleFloor <= Platform.maxScaleCeiling

\* The one spelling that is not in lower case already.
LowerCase(environment) == IF environment = "Dev" THEN "dev" ELSE environment

EnvironmentOf(environment) ==
    CASE environment \in {"dev", "development"} -> "development"
      [] environment = "test" -> "test"
      [] OTHER -> "production"

\* kubernetes.ts lowers the name first, nats-credentials.ts does not.
KubernetesEnv(environment) == EnvironmentOf(LowerCase(environment))
NatsEnv(environment) == EnvironmentOf(environment)

\* A text has its words in lower case and no two separators side by side, at its
\* start or at its end: on such a text the lower-casing, the collapsing of runs and
\* the trimming of dnsSafe do nothing, and each separator becomes one dash.
Dash(text, separators) ==
    [i \in DOMAIN text |-> IF text[i] \in separators THEN "-" ELSE text[i]]
DnsSafe(text) == Dash(text, {".", "_"})

File(dir, name, leaf, content) == [path |-> <<dir, name, leaf>>, content |-> content]

\* A plugin's files, service by service.
Each(manifest, files) ==
    FlattenSeq([i \in DOMAIN manifest.services |-> files[manifest.services[i]]])

------------------------------------------------------------------------------
(* kubernetes.ts *)

ResourceName(id) ==
    DnsSafe(IF id.namespace = <<"default">> THEN id.name ELSE id.namespace \o <<".">> \o id.name)

SelectorLabel(id) == DnsSafe(id.name)

Labels(id) == [name |-> DnsSafe(id.name), partOf |-> DnsSafe(id.namespace),
               environment |-> id.environment]

RuntimeClassName(isolation) == IF isolation = "default" THEN None ELSE isolation

\* The secret an envFrom names: the own name of the identity, not the full name.
SecretNameFor(id, need) == DnsSafe(id.name \o <<"-">> \o need)

ServiceAccount(id) ==
    [kind |-> "ServiceAccount", name |-> ResourceName(id), labels |-> Labels(id),
     workloadIdentity |-> id.qualifiedName]

Deployment(d, id) ==
    [kind |-> "Deployment", name |-> ResourceName(id), labels |-> Labels(id),
     serviceAccountName |-> ResourceName(id), runtimeClassName |-> RuntimeClassName(ResolveIsolation(d)),
     replicas |-> ResolveScale(d).min, selector |-> SelectorLabel(id),
     serviceName |-> d.name, queueGroup |-> id.qualifiedName,
     taskQueue |-> IF d.kind = "workflow" THEN d.taskQueue ELSE None,
     envFrom |-> [i \in DOMAIN d.needs |-> SecretNameFor(id, d.needs[i])]]

ClusterService(id) ==
    [kind |-> "Service", name |-> ResourceName(id), labels |-> Labels(id),
     selector |-> SelectorLabel(id)]

ConfigMap(d, id) ==
    [kind |-> "ConfigMap", name |-> ResourceName(id), labels |-> Labels(id),
     serviceName |-> d.name, serviceKind |-> d.kind, queueGroup |-> id.qualifiedName,
     taskQueue |-> IF d.kind = "workflow" THEN d.taskQueue ELSE None]

Kubernetes(manifest, options) ==
    LET FilesOf(d) == LET id == DeriveIdentity(d, KubernetesEnv(options.environment))
                          At(leaf, content) == File("kubernetes", ResourceName(id), leaf, content)
                      IN  <<At("serviceaccount.yaml", ServiceAccount(id)),
                            At("deployment.yaml", Deployment(d, id)),
                            At("service.yaml", ClusterService(id)),
                            At("configmap.yaml", ConfigMap(d, id))>>
    IN  Each(manifest, [d \in ToSet(manifest.services) |-> FilesOf(d)])

------------------------------------------------------------------------------
(* autoscaler.ts *)

DefaultMaxReplicas == 50

TriggerFor(d) ==
    LET on == ResolveScale(d).on
    IN  CASE on = "queue-depth" -> [type |-> "nats-jetstream", watches |-> d.name]
          [] on = "cpu" -> [type |-> "cpu", watches |-> None]
          [] on = "task-queue-backlog" -> [type |-> "external", watches |-> Given(d.taskQueue, d.name)]
          [] OTHER -> [type |-> "external", watches |-> d.name]

\* Named, and aimed at a workload, by the declared name with its dots.
ScaledObject(d) ==
    [kind |-> "ScaledObject", name |-> d.name, scaleTargetRef |-> d.name,
     minReplicaCount |-> ResolveScale(d).min,
     maxReplicaCount |-> Given(ResolveScale(d).max, DefaultMaxReplicas),
     trigger |-> TriggerFor(d)]

Autoscaler(manifest, options) ==
    Each(manifest, [d \in ToSet(manifest.services) |->
                      <<File("keda", d.name, "yaml", ScaledObject(d))>>])

------------------------------------------------------------------------------
(* secret-binding.ts *)

ExternalSecret(d, need, environment) ==
    [kind |-> "ExternalSecret", name |-> Dash(d.name, {"."}) \o <<"-">> \o need,
     remoteKey |-> <<environment, d.name, need>>]

SecretBinding(manifest, options) ==
    LET FileOf(d, need) == LET secret == ExternalSecret(d, need, options.environment)
                           IN  File("secret-bindings", secret.name, "yaml", secret)
    IN  Each(manifest, [d \in ToSet(manifest.services) |->
                          [i \in DOMAIN d.needs |-> FileOf(d, d.needs[i])]])

------------------------------------------------------------------------------
(* nats-credentials.ts *)

Wire(subject) == <<"rpc", ".">> \o subject
ReplyInbox == <<"_INBOX", ".", ">">>

\* Mutant of AuthUser: the subjects a client publishes lose their prefix.
AuthUserUnprefixed(d, serviceEnv) ==
    LET id == DeriveIdentity(d, serviceEnv)
    IN  [user |-> id.qualifiedName, queue |-> d.name,
         publish |-> ToSet(CallSubjects(d)) \cup {ReplyInbox},
         subscribe |-> {Wire(s) : s \in OwnSubjects(d)} \cup {ReplyInbox}]

AuthUser(d, serviceEnv) ==
    LET id == DeriveIdentity(d, serviceEnv)
    IN  [user |-> id.qualifiedName, queue |-> d.name,
         publish |-> {Wire(s) : s \in ToSet(CallSubjects(d))} \cup {ReplyInbox},
         subscribe |-> {Wire(s) : s \in OwnSubjects(d)} \cup {ReplyInbox}]

NatsCredentials(manifest, options) ==
    <<File("nats", <<"credentials">>, "json",
           [kind |-> "credentials",
            users |-> {AuthUser(d, NatsEnv(options.environment)) : d \in ToSet(manifest.services)}])>>

------------------------------------------------------------------------------
(* edge-routing.ts *)

\* The handler defaults to the service's name, and the subject is built from that
\* name and not from the kind of the service's contract.
EdgeRoute(owned) ==
    LET handler == Given(owned.route.handler, owned.service)
    IN  [transport |-> owned.route.transport, method |-> owned.route.method,
         path |-> owned.route.path, service |-> owned.service, handler |-> handler,
         stream |-> IF owned.route.transport = "websocket" THEN "ws" ELSE owned.route.stream,
         natsSubject |-> <<"rpc", ".">> \o owned.service \o <<".">> \o handler]

RouteConflict(routes) ==
    \E r, s \in ToSet(routes) : RouteKey(r) = RouteKey(s) /\ r.service # s.service

EdgeRouting(manifest, options) ==
    <<File("edge", <<"routing-table">>, "json",
           [kind |-> "routes",
            routes |-> {EdgeRoute(r) : r \in ToSet(manifest.routes)}])>>

------------------------------------------------------------------------------
(* data-store-claims.ts *)

\* A store type is known for a name that ends in -db; others are not configured.
IsDatabase(need) == Len(need) >= 2 /\ SubSeq(need, Len(need) - 1, Len(need)) = <<"-", "db">>

Unbound(manifest) ==
    {e.to : e \in {e \in ToSet(manifest.edges) : e.type = "needs"}} \ Registered

PlanErrors(manifest) ==
    {need \in Unbound(manifest) : Provision = "bind" \/ ~IsDatabase(need)}

DataStoreClaims(manifest, options) ==
    [i \in DOMAIN SetToSeq(Unbound(manifest) \ PlanErrors(manifest)) |->
        LET need == SetToSeq(Unbound(manifest) \ PlanErrors(manifest))[i]
        IN  File("data-store-claims", need, "yaml",
                 [kind |-> "PostgreSQLInstance", name |-> need, connectionSecret |-> need])]
    \o (IF PlanErrors(manifest) = {}
        THEN <<>>
        ELSE <<File("data-store-claims", <<"plan", "-", "errors">>, "yaml",
                    [kind |-> "planErrors", unboundNeeds |-> PlanErrors(manifest)])>>)

------------------------------------------------------------------------------
(* serverless.ts *)

AtLeast(a, b) == IF a >= b THEN a ELSE b
AtMost(a, b) == IF a <= b THEN a ELSE b
Clamp(v, lo, hi) == AtMost(AtLeast(v, lo), hi)

ServerlessScale(d) ==
    LET declaredMin == Given(d.scale.min, IF d.kind = "ephemeral" THEN 0 ELSE 1)
        declaredMax == Given(d.scale.max, AtLeast(declaredMin, 1))
        minScale == Clamp(declaredMin, Platform.minScaleFloor, Platform.maxScaleCeiling)
    IN  [minScale |-> minScale,
         maxScale |-> Clamp(AtLeast(declaredMax, minScale), minScale, Platform.maxScaleCeiling)]

\* The variable of a need: every separator becomes an underscore.
SecretEnv(need) == [i \in DOMAIN need |-> IF need[i] \in {"-", ".", "_"} THEN "_" ELSE need[i]]

ServerlessService(d, environment) ==
    [kind |-> "CloudRun", name |-> d.name, environment |-> environment, serviceKind |-> d.kind,
     scale |-> ServerlessScale(d),
     secrets |-> {[path |-> <<environment, d.name, need>>, env |-> SecretEnv(need)] :
                    need \in ToSet(d.needs)}]

Serverless(manifest, options) ==
    IF options.target = "serverless"
    THEN Each(manifest, [d \in ToSet(manifest.services) |->
                           <<File("cloud-run", d.name, "service.yaml",
                                  ServerlessService(d, options.environment))>>])
    ELSE <<>>

------------------------------------------------------------------------------
(* generator.ts and example-plugin.ts *)

FleetInventory(manifest, options) ==
    <<File("fleet", <<"inventory">>, "json",
           [kind |-> "inventory", environment |-> options.environment, target |-> options.target,
            services |-> {[kind |-> d.kind, name |-> d.name] : d \in ToSet(manifest.services)}])>>

\* Two files of one path: collect() throws.
Collides(files) == \E i, j \in DOMAIN files : i # j /\ files[i].path = files[j].path

\* Mutant of Collect: of two files of one path the later one wins.
CollectLastWins(files) ==
    [thrown |-> FALSE,
     files |-> {files[i] : i \in {i \in DOMAIN files : \A j \in (i + 1)..Len(files) :
                                                         files[j].path # files[i].path}}]

Collect(files) ==
    IF Collides(files) THEN [thrown |-> TRUE, files |-> {}]
                       ELSE [thrown |-> FALSE, files |-> ToSet(files)]

\* A generator with every plugin, as an application composes it.
GenerateAll(manifest, options) ==
    IF RouteConflict([i \in DOMAIN manifest.routes |-> EdgeRoute(manifest.routes[i])])
    THEN [thrown |-> TRUE, files |-> {}]
    ELSE Collect(Kubernetes(manifest, options) \o Autoscaler(manifest, options) \o
                 SecretBinding(manifest, options) \o NatsCredentials(manifest, options) \o
                 EdgeRouting(manifest, options) \o DataStoreClaims(manifest, options) \o
                 Serverless(manifest, options) \o FleetInventory(manifest, options))
==============================================================================
