----------------------------- MODULE Singleton -----------------------------
(***************************************************************************)
(* singleton(factory) of @insler/di: containers that start, use and stop   *)
(* share one reference-counted instance.  The code runs on one JavaScript  *)
(* thread, so an action is the code between two awaits.  A user is a       *)
(* container with a binding on the singleton; it leaves by running the     *)
(* stop callback of the Managed it was given.                              *)
(***************************************************************************)
EXTENDS Naturals, FiniteSets

CONSTANTS
  Users,          \* the containers that bind the singleton
  MaxInstances,   \* bound: how often the factory is called
  MayFail,        \* whether the factory's promise may reject
  MayThrow        \* whether the factory may throw before it returns a promise

ASSUME UsersFinite == IsFiniteSet(Users)
ASSUME MaxInstancesNat == MaxInstances \in Nat
ASSUME Switches == MayFail \in BOOLEAN /\ MayThrow \in BOOLEAN

VARIABLES
  state,          \* `state`: the current instance and its refCount
  initializing,   \* `initializing`: nothing, a pending or a rejected promise
  user,           \* where each container is
  instance,       \* the number of the instance each container was given
  created,        \* how often the factory was called
  phase,          \* what became of each instance
  twice           \* a container has released a second time what it held once

vars == <<state, initializing, user, instance, created, phase, twice>>

Instances == 1..MaxInstances

NoState == [id |-> 0, refCount |-> 0]   \* `state` is undefined
Defined == state # NoState

Holders == {u \in Users : user[u] = "in"}
Waiting == {u \in Users : user[u] = "waiting"}

TypeOK ==
  /\ state \in [id : 0..MaxInstances, refCount : 0..Cardinality(Users)]
  /\ initializing \in {"none", "pending", "rejected"}
  /\ user \in [Users -> {"out", "waiting", "in", "failed", "stopped"}]
  /\ instance \in [Users -> 0..MaxInstances]
  /\ created \in 0..MaxInstances
  /\ phase \in [Instances -> {"absent", "creating", "live", "stopping", "gone"}]
  /\ twice \in BOOLEAN

Init ==
  /\ state = NoState
  /\ initializing = "none"
  /\ user = [u \in Users |-> "out"]
  /\ instance = [u \in Users |-> 0]
  /\ created = 0
  /\ phase = [i \in Instances |-> "absent"]
  /\ twice = FALSE

(***************************************************************************)
(* The shared wrapper is called by a container that starts.                *)
(***************************************************************************)

\* There is an instance: count one more reference to it.
AcquireShared(u) ==
  /\ user[u] = "out"
  /\ Defined
  /\ state' = [state EXCEPT !.refCount = @ + 1]
  /\ user' = [user EXCEPT ![u] = "in"]
  /\ instance' = [instance EXCEPT ![u] = state.id]
  /\ UNCHANGED <<initializing, created, phase, twice>>

\* A creation is in flight: wait for the same promise.
AcquireJoins(u) ==
  /\ user[u] = "out"
  /\ ~Defined
  /\ initializing = "pending"
  /\ user' = [user EXCEPT ![u] = "waiting"]
  /\ UNCHANGED <<state, initializing, instance, created, phase, twice>>

\* Nothing is there: call the factory and wait for it.
AcquireCreates(u) ==
  /\ user[u] = "out"
  /\ ~Defined
  /\ initializing = "none"
  /\ created < MaxInstances
  /\ created' = created + 1
  /\ phase' = [phase EXCEPT ![created + 1] = "creating"]
  /\ initializing' = "pending"
  /\ user' = [user EXCEPT ![u] = "waiting"]
  /\ UNCHANGED <<state, instance, twice>>

\* The factory throws before its first await: the finally block clears
\* `initializing` first and the assignment of the rejected promise follows.
AcquireThrows(u) ==
  /\ MayThrow
  /\ user[u] = "out"
  /\ ~Defined
  /\ initializing = "none"
  /\ created < MaxInstances
  /\ created' = created + 1
  /\ phase' = [phase EXCEPT ![created + 1] = "gone"]
  /\ initializing' = "rejected"
  /\ user' = [user EXCEPT ![u] = "failed"]
  /\ UNCHANGED <<state, instance, twice>>

\* `initializing` is a promise that is already rejected: the start fails.
AcquireRejected(u) ==
  /\ user[u] = "out"
  /\ ~Defined
  /\ initializing = "rejected"
  /\ user' = [user EXCEPT ![u] = "failed"]
  /\ UNCHANGED <<state, initializing, instance, created, phase, twice>>

Acquire(u) ==
  \/ AcquireShared(u)
  \/ AcquireJoins(u)
  \/ AcquireCreates(u)
  \/ AcquireThrows(u)
  \/ AcquireRejected(u)

\* Mutant: the count is one for the container that created the instance.
ResolvesForOne ==
  /\ initializing = "pending"
  /\ initializing' = "none"
  /\ phase' = [phase EXCEPT ![created] = "live"]
  /\ state' = [id |-> created, refCount |-> 1]
  /\ user' = [u \in Users |-> IF user[u] = "waiting" THEN "in" ELSE user[u]]
  /\ instance' = [u \in Users |-> IF user[u] = "waiting" THEN created ELSE instance[u]]
  /\ UNCHANGED <<created, twice>>

(***************************************************************************)
(* The factory settles.  Everyone who waits resumes in the microtasks that *)
(* follow, before any of them can release.                                 *)
(***************************************************************************)

\* Mutant: a rejected creation stays in `initializing`.
RejectsForGood ==
  /\ MayFail
  /\ initializing = "pending"
  /\ initializing' = "rejected"
  /\ phase' = [phase EXCEPT ![created] = "gone"]
  /\ user' = [u \in Users |-> IF user[u] = "waiting" THEN "failed" ELSE user[u]]
  /\ UNCHANGED <<state, instance, created, twice>>

\* Mutant: the creation fails and nobody who waits for it is told.
RejectsSilently ==
  /\ MayFail
  /\ initializing = "pending"
  /\ initializing' = "none"
  /\ phase' = [phase EXCEPT ![created] = "gone"]
  /\ UNCHANGED <<state, user, instance, created, twice>>

FactoryResolves ==
  /\ initializing = "pending"
  /\ initializing' = "none"
  /\ phase' = [phase EXCEPT ![created] = "live"]
  /\ state' = [id |-> created, refCount |-> Cardinality(Waiting)]
  /\ user' = [u \in Users |-> IF user[u] = "waiting" THEN "in" ELSE user[u]]
  /\ instance' = [u \in Users |-> IF user[u] = "waiting" THEN created ELSE instance[u]]
  /\ UNCHANGED <<created, twice>>

FactoryRejects ==
  /\ MayFail
  /\ initializing = "pending"
  /\ initializing' = "none"
  /\ phase' = [phase EXCEPT ![created] = "gone"]
  /\ user' = [u \in Users |-> IF user[u] = "waiting" THEN "failed" ELSE user[u]]
  /\ UNCHANGED <<state, instance, created, twice>>

(***************************************************************************)
(* A container stops: the callback counts down whatever `state` is then.   *)
(***************************************************************************)

\* References are left after this one.
CountDown ==
  /\ state' = [state EXCEPT !.refCount = @ - 1]
  /\ UNCHANGED phase

\* Mutant: the last user forgets the instance and never runs its stop.
LastOneForgets ==
  /\ state' = NoState
  /\ UNCHANGED phase

\* The last reference: forget the instance, then await its stop.
LastOneStops ==
  /\ state' = NoState
  /\ phase' = [phase EXCEPT ![state.id] = "stopping"]

CountRelease ==
  \/ state.refCount > 1 /\ CountDown
  \/ state.refCount = 1 /\ LastOneStops

Release(u) ==
  /\ user[u] = "in"
  /\ \/ Defined /\ CountRelease
     \/ ~Defined /\ UNCHANGED <<state, phase>>      \* `state!` throws
  /\ user' = [user EXCEPT ![u] = "stopped"]
  /\ instance' = [instance EXCEPT ![u] = 0]
  /\ UNCHANGED <<initializing, created, twice>>

\* ResolvedContainer.stop() runs its callbacks again whenever it is called again;
\* where `state` is undefined the callback throws and nothing happens.
ReleaseAgain(u) ==
  /\ user[u] = "stopped"
  /\ Defined
  /\ CountRelease
  /\ twice' = TRUE
  /\ UNCHANGED <<initializing, user, instance, created>>

\* A container that failed to start or was stopped is given up, and another may
\* start in its place.
Leave(u) ==
  /\ user[u] \in {"failed", "stopped"}
  /\ user' = [user EXCEPT ![u] = "out"]
  /\ UNCHANGED <<state, initializing, instance, created, phase, twice>>

\* The instance's own stop settles.
StopSettles(i) ==
  /\ phase[i] = "stopping"
  /\ phase' = [phase EXCEPT ![i] = "gone"]
  /\ UNCHANGED <<state, initializing, user, instance, created, twice>>

Next ==
  \/ \E u \in Users : Acquire(u) \/ Release(u) \/ ReleaseAgain(u) \/ Leave(u)
  \/ FactoryResolves
  \/ FactoryRejects
  \/ \E i \in Instances : StopSettles(i)

\* A factory and a stop settle some time (external code); nothing forces a
\* container to start or to stop.
Fairness ==
  /\ WF_vars(FactoryResolves)
  /\ \A i \in Instances : WF_vars(StopSettles(i))

Spec == Init /\ [][Next]_vars /\ Fairness

(***************************************************************************)
(* Properties.                                                             *)
(***************************************************************************)

\* What a container was given lives until it releases it: no sequence of
\* starts, failures and stops of the others closes an instance in use, until
\* some container is stopped a second time.  (Then one may: the second release
\* counts for a reference of somebody else.)
HeldIsLive ==
  ~twice => \A u \in Holders : instance[u] \in Instances /\ phase[instance[u]] = "live"

\* Two containers that run at the same time use the same instance, until some
\* container is stopped a second time.
OneInstance ==
  ~twice => \A u, v \in Holders : instance[u] = instance[v]

\* The reference count is the number of containers that hold the instance,
\* and there is an instance only while somebody holds it, until some container
\* is stopped a second time.
CountIsHolders ==
  ~twice => /\ Defined => state.refCount = Cardinality(Holders) /\ state.refCount > 0
            /\ ~Defined => Holders = {}

\* An instance outlives its last user only while its stop runs: nothing that
\* was created is forgotten without being stopped, until some container is
\* stopped a second time.
NothingLeaks ==
  ~twice => \A i \in Instances : phase[i] = "live" => \E u \in Holders : instance[u] = i

\* A user that comes when there is no instance and no creation in flight has
\* the factory called again.
NextUseCreates ==
  [][\A u \in Users :
       (Acquire(u) /\ ~Defined /\ ~ \E i \in Instances : phase[i] = "creating")
          => created' = created + 1]_vars

\* Whoever waits for a creation gets an instance or an error.
WaitersSettle ==
  \A u \in Users : user[u] = "waiting" ~> user[u] # "waiting"
=============================================================================
