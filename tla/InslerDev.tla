------------------------------ MODULE InslerDev ------------------------------
(* The insler command (platform/cli/src) over the declarations on disk: the *)
(* dev session, which watches them and converges a state snapshot, and the  *)
(* generation of every artifact by a process of its own.                    *)
(*                                                                          *)
(* disk is what each declaration file holds: a declaration, Absent or       *)
(* Broken (it does not parse).  modules is the module cache of the session's*)
(* process.  A dev session and a generation share nothing but the disk, so a*)
(* behaviour of the model has one or the other.                             *)
EXTENDS Artifacts

CONSTANTS Files,          \* the declaration files, a sequence in path order
          DevDisks,       \* what the disk may hold when a dev session starts
          ScriptDisks,    \* and when the artifacts are generated
          Contents,       \* what the author may save in the midst of a session
          Environments,   \* the values of --env
          MaxSaves, MaxInterrupts,
          Absent, Broken, \* what a file may hold that is no declaration
          Missing, Corrupt \* a snapshot that is not there, or is not JSON

ASSUME BoundsAssumption == MaxSaves \in Nat /\ MaxInterrupts \in Nat
ASSUME FilesAssumption == Files \in Seq(ToSet(Files))
ASSUME DisksAssumption ==
    \A d \in ScriptDisks : \A f \in ToSet(Files) : d[f] \notin {Absent, Broken} => IsTyped(d[f])

VARIABLES disk, modules, dev, snapshot, generated, saves, interrupts

vars == <<disk, modules, dev, snapshot, generated, saves, interrupts>>

FileSet == ToSet(Files)
Unloaded == [f \in FileSet |-> None]

\* pc is where the session is: "off", "idle", or a step of converge().  todo and
\* scanned are discoverServices()'s, planned the plan of this cycle.  unseen is a
\* history variable: the disk changed when nothing was watching, after the glob.
DevOff == [pc |-> "off", initial |-> TRUE, watching |-> FALSE, event |-> FALSE,
           queued |-> FALSE, todo |-> <<>>, scanned |-> <<>>, planned |-> None,
           environment |-> "dev", unseen |-> FALSE]

IsDeclaration(content) == content \notin {Absent, Broken}

Init ==
    /\ modules = Unloaded
    /\ snapshot = Missing
    /\ generated = None
    /\ saves = 0 /\ interrupts = 0
    /\ \/ disk \in DevDisks /\ dev = DevOff
       \/ disk \in ScriptDisks /\ dev = [DevOff EXCEPT !.pc = "script"]

------------------------------------------------------------------------------
(* scanner.ts *)

\* glob.scan, sorted: the files there now.
Globbed ==
    LET among[n \in 0..Len(Files)] ==
          IF n = 0 THEN <<>>
          ELSE IF disk[Files[n]] = Absent THEN among[n - 1] ELSE Append(among[n - 1], Files[n])
    IN  among[Len(Files)]

\* A cycle begins.
GlobFrom(d) == [d EXCEPT !.pc = "import", !.scanned = <<>>, !.unseen = FALSE, !.todo = Globbed]

\* What import() answers: the cached module, or the file as it is now.  A file that
\* is gone or does not parse rejects, and so does one whose defineService() throws.
Imported(f) == IF modules[f] # None THEN modules[f] ELSE disk[f]
Loads(content) == IsDeclaration(content) /\ DefineService(content)

Scanned(f) == [service |-> Imported(f), file |-> f]

\* The inventory file that deriveDesiredState() generates, the only resource.
Desired(scanned) ==
    FleetInventory(BuildFleetManifest(scanned, "production").manifest,
                   [target |-> "kubernetes", environment |-> dev.environment])

------------------------------------------------------------------------------
(* reconcile-shared.ts: the snapshot file *)

\* Mutant of ReadSnapshot: what cannot be read is empty.
ReadSnapshotFresh == [ok |-> TRUE, actual |-> IF snapshot \in {Missing, Corrupt}
                                              THEN <<>> ELSE snapshot.actual]

\* Only a missing file reads as empty; one that is not JSON is refused.
ReadSnapshot ==
    [ok |-> snapshot # Corrupt,
     actual |-> IF snapshot \in {Missing, Corrupt} THEN <<>> ELSE snapshot.actual]

------------------------------------------------------------------------------
(* dev.ts *)

\* runDev: production is refused; otherwise the initial converge begins, with no
\* watcher yet.
StartDev ==
    /\ dev.pc = "off"
    /\ \E e \in Environments \ {"production"} :
         dev' = GlobFrom([DevOff EXCEPT !.environment = e])
    /\ modules' = Unloaded
    /\ UNCHANGED <<disk, snapshot, generated, saves, interrupts>>

RefuseProduction ==
    /\ dev.pc = "off" /\ "production" \in Environments
    /\ UNCHANGED vars

\* Mutant of Converged: the cycle un-marks itself at its end.
ConvergedUnmarks(ok) ==
    IF dev.initial /\ ~ok
    THEN DevOff
    ELSE [dev EXCEPT !.pc = "idle", !.initial = FALSE, !.watching = TRUE, !.queued = FALSE,
                     !.scanned = <<>>, !.todo = <<>>, !.planned = None]

\* The end of converge().  After the initial one the watcher is registered; main()
\* stops a session whose initial converge failed, which ends the process.
Converged(ok) ==
    IF dev.initial /\ ~ok
    THEN DevOff
    ELSE [dev EXCEPT !.pc = "idle", !.initial = FALSE, !.watching = TRUE,
                     !.scanned = <<>>, !.todo = <<>>, !.planned = None]

\* One import, awaited; the first that rejects ends the cycle.
Import ==
    /\ dev.pc = "import" /\ dev.todo # <<>>
    /\ LET f == Head(dev.todo)
       IN  IF Loads(Imported(f))
           THEN /\ dev' = [dev EXCEPT !.todo = Tail(@), !.scanned = Append(@, Scanned(f))]
                /\ modules' = [modules EXCEPT ![f] = Imported(f)]
           ELSE dev' = Converged(FALSE) /\ UNCHANGED modules
    /\ UNCHANGED <<disk, snapshot, generated, saves, interrupts>>

\* The manifest, the desired state and the plan against the snapshot.
PlanCycle ==
    /\ dev.pc = "import" /\ dev.todo = <<>>
    /\ dev' = IF BuildFleetManifest(dev.scanned, "production").errors = {} /\ ReadSnapshot.ok
              THEN [dev EXCEPT !.pc = "apply",
                               !.planned = [desired |-> Desired(dev.scanned),
                                            actual  |-> ReadSnapshot.actual]]
              ELSE Converged(FALSE)
    /\ UNCHANGED <<disk, modules, snapshot, generated, saves, interrupts>>

\* applyAuto: the snapshot is read again; a stale plan throws, a plan without
\* changes writes nothing, and writeFile begins by truncating the file.
Apply ==
    /\ dev.pc = "apply"
    /\ \/ /\ ~ReadSnapshot.ok \/ ReadSnapshot.actual # dev.planned.actual
          /\ dev' = Converged(FALSE)
          /\ UNCHANGED snapshot
       \/ /\ ReadSnapshot.ok /\ ReadSnapshot.actual = dev.planned.actual
          /\ IF dev.planned.desired = dev.planned.actual
             THEN dev' = Converged(TRUE) /\ UNCHANGED snapshot
             ELSE dev' = [dev EXCEPT !.pc = "write"] /\ snapshot' = Corrupt
    /\ UNCHANGED <<disk, modules, generated, saves, interrupts>>

WriteSnapshot ==
    /\ dev.pc = "write"
    /\ snapshot' = [actual |-> dev.planned.desired, lastApplied |-> dev.planned.desired]
    /\ dev' = Converged(TRUE)
    /\ UNCHANGED <<disk, modules, generated, saves, interrupts>>

\* The watcher calls enqueue(), which adds a cycle unless one is queued already.
Notify ==
    /\ dev.event
    /\ dev' = [dev EXCEPT !.event = FALSE, !.queued = TRUE]
    /\ UNCHANGED <<disk, modules, snapshot, generated, saves, interrupts>>

\* The queued cycle starts when the one before it is over; it un-marks itself first.
StartCycle ==
    /\ dev.pc = "idle" /\ dev.queued
    /\ dev' = GlobFrom([dev EXCEPT !.queued = FALSE])
    /\ UNCHANGED <<disk, modules, snapshot, generated, saves, interrupts>>

------------------------------------------------------------------------------
(* The author and the machine *)

\* A file is saved, created or removed; the watcher hears of it if there is one.
Save ==
    /\ saves < MaxSaves
    /\ dev.pc # "script"
    /\ \E f \in FileSet, content \in Contents :
         /\ content # disk[f]
         /\ disk' = [disk EXCEPT ![f] = content]
         /\ dev' = IF dev.watching THEN [dev EXCEPT !.event = TRUE]
                                   ELSE [dev EXCEPT !.unseen = dev.pc # "off"]
    /\ saves' = saves + 1
    /\ UNCHANGED <<modules, snapshot, generated, interrupts>>

\* Ctrl-C, or the process dies: a snapshot being written stays truncated.
Interrupt ==
    /\ interrupts < MaxInterrupts
    /\ dev.pc \notin {"off", "script"}
    /\ dev' = DevOff
    /\ modules' = Unloaded
    /\ interrupts' = interrupts + 1
    /\ UNCHANGED <<disk, snapshot, generated, saves>>

\* The user removes a snapshot the tool refuses to read.
RemoveSnapshot ==
    /\ snapshot = Corrupt /\ dev.pc # "write"
    /\ snapshot' = Missing
    /\ UNCHANGED <<disk, modules, dev, generated, saves, interrupts>>

\* A process of its own scans the disk and runs every plugin over the manifest.
Script ==
    /\ dev.pc = "script" /\ generated = None
    /\ \A f \in FileSet : disk[f] # Absent => Loads(disk[f])
    /\ LET fleet == BuildFleetManifest([i \in DOMAIN Globbed |-> Scanned(Globbed[i])], "production")
       IN  \E e \in Environments, t \in {"kubernetes", "serverless"} :
             generated' = [manifest |-> fleet.manifest, environment |-> e, target |-> t,
                           result |-> IF fleet.errors # {}
                                      THEN None
                                      ELSE GenerateAll(fleet.manifest,
                                                       [environment |-> e, target |-> t])]
    /\ UNCHANGED <<disk, modules, dev, snapshot, saves, interrupts>>

DevSteps == Import \/ PlanCycle \/ Apply \/ WriteSnapshot \/ Notify \/ StartCycle

Next == StartDev \/ RefuseProduction \/ DevSteps \/ Save \/ Interrupt \/ RemoveSnapshot \/ Script

Fairness == WF_vars(Import \/ PlanCycle \/ Apply \/ WriteSnapshot) /\ WF_vars(Notify) /\ WF_vars(StartCycle)

Spec == Init /\ [][Next]_vars /\ Fairness

------------------------------------------------------------------------------
(* Properties *)

Written == generated # None /\ generated.result # None /\ ~generated.result.thrown

Of(kind) == {f.content : f \in {f \in generated.result.files : f.content.kind = kind}}

\* A generation that succeeds loses no service: each has its own Deployment, with
\* its name and queue group, its ScaledObject and one ExternalSecret per need, even
\* when names of different services flatten to the same text (generator.ts collect,
\* kubernetes.ts resourceName, secret-binding.ts generate).
EveryServiceIsDeployed ==
    Written => \A d \in ToSet(generated.manifest.services) :
        /\ Cardinality({o \in Of("Deployment") : o.serviceName = d.name}) = 1
        /\ \A n \in ToSet(d.needs) :
             \E o \in Of("ExternalSecret") : o.remoteKey = <<generated.environment, d.name, n>>
        /\ Cardinality({o \in Of("ScaledObject") : o.name = d.name}) = 1
        /\ Cardinality({o.queueGroup : o \in Of("Deployment")}) = Len(generated.manifest.services)

\* Whatever a service declares that it calls it may publish to, and somebody whom
\* the manifest's graph names may subscribe to it (manifest.ts, nats-credentials.ts).
CallsAreGranted ==
    Written => \A d \in ToSet(generated.manifest.services) : \A s \in ToSet(CallSubjects(d)) :
        \E c \in Of("credentials") : \E u, v \in c.users :
            /\ u.queue = d.name /\ Wire(s) \in u.publish \cap v.subscribe
            /\ [from |-> d.name, to |-> v.queue, type |-> "calls"] \in ToSet(generated.manifest.edges)

\* The targets agree on the floor of a service: a persistent or workflow service is
\* never scaled to zero by any of them, and a serverless window is never empty
\* (scale.ts, kubernetes.ts, autoscaler.ts, serverless.ts).
FloorsHold ==
    Written => \A d \in ToSet(generated.manifest.services) :
        LET floor == IF d.kind = "ephemeral" THEN 0 ELSE 1
        IN  /\ \A o \in Of("Deployment") : o.serviceName = d.name =>
                 /\ o.replicas >= floor
                 /\ \A k \in Of("ScaledObject") : k.name = d.name => k.minReplicaCount = o.replicas
            /\ \A o \in Of("CloudRun") : o.name = d.name =>
                 /\ floor <= o.scale.minScale /\ o.scale.minScale <= o.scale.maxScale
                 /\ o.scale.maxScale <= Platform.maxScaleCeiling

\* The Secret that a Deployment takes its environment from is one that the
\* secret-binding plugin binds for that service and need.
SecretsAreBound ==
    Written => \A o \in Of("Deployment") : \A secret \in ToSet(o.envFrom) :
        \E x \in Of("ExternalSecret") : x.name = secret /\ x.remoteKey[2] = o.serviceName

\* What a crash has left of a snapshot is never written over: no write begins until
\* the user has removed it (reconcile-shared.ts readSnapshot, dev.ts converge).
SnapshotSurvives ==
    [][snapshot = Corrupt /\ dev.pc # "write" =>
         snapshot' \in {Corrupt, Missing} /\ dev'.pc # "write"]_vars

\* What the session could see of the disk: it watches, nothing changed behind its
\* back, and no file was edited after the process first loaded it.
Watched ==
    /\ dev.watching /\ ~dev.unseen
    /\ snapshot # Corrupt \/ dev.pc = "write"
    /\ \A f \in FileSet : /\ disk[f] # Absent => Loads(disk[f]) /\ modules[f] \in {None, disk[f]}

OnDisk == LET present == SelectSeq(Files, LAMBDA f : IsDeclaration(disk[f]))
          IN  [i \in DOMAIN present |-> [service |-> disk[present[i]], file |-> present[i]]]

\* Files that come and go while the session watches are followed: when the author
\* rests on a valid fleet the snapshot becomes its inventory, whatever was saved in
\* the midst of which cycle (dev.ts runDev, enqueue).
FilesFollowed ==
    LET valid == BuildFleetManifest(OnDisk, "production").errors = {}
    IN  <>[](Watched /\ valid)
          => <>[](valid /\ snapshot # Corrupt /\ ReadSnapshot.actual = Desired(OnDisk))
==============================================================================
