-------------------------- MODULE SingletonProofs --------------------------
(***************************************************************************)
(* For any finite set of containers and any number of creations: until a   *)
(* container runs its stop callback a second time the reference count is   *)
(* exact, and whoever holds the instance holds the only one, alive.        *)
(***************************************************************************)
EXTENDS Singleton, FiniteSetTheorems, TLAPS

\* The count is the number of holders.
Exact ==
  /\ Defined => state.refCount = Cardinality(Holders) /\ state.refCount > 0
  /\ ~Defined => Holders = {}

\* The current instance is alive and is the one every holder has; it is the
\* only live one.
Current ==
  /\ Defined => /\ state.id \in Instances
                /\ phase[state.id] = "live"
                /\ initializing # "pending"
  /\ \A u \in Holders : instance[u] = state.id
  /\ \A i \in Instances : phase[i] = "live" => Defined /\ i = state.id

\* A creation in flight is the last one, has somebody waiting for it, and
\* nobody waits otherwise.
InFlight ==
  /\ initializing = "pending" => /\ created \in Instances
                                 /\ phase[created] = "creating"
                                 /\ Waiting # {}
  /\ Waiting # {} => initializing = "pending"

SharedInv == TypeOK /\ Exact /\ Current /\ InFlight

\* A second release counts for somebody else's reference: nothing is claimed after it.
UntilTwice == ~twice => SharedInv

\* What one container's move does to the set of containers with a status.
LEMMA OneMoves ==
  ASSUME NEW status \in [Users -> {"out", "waiting", "in", "failed", "stopped"}],
         NEW u \in Users, NEW s, NEW k
  PROVE  {v \in Users : [status EXCEPT ![u] = s][v] = k}
           = IF s = k THEN {v \in Users : status[v] = k} \cup {u}
                      ELSE {v \in Users : status[v] = k} \ {u}
  OBVIOUS

LEMMA HoldersFinite ==
  /\ IsFiniteSet(Holders) /\ IsFiniteSet(Waiting) /\ IsFiniteSet(Users)
  /\ Cardinality(Holders) \in 0..Cardinality(Users)
  /\ Cardinality(Waiting) \in 0..Cardinality(Users)
  /\ Cardinality(Users) \in Nat
<1>1. Holders \subseteq Users /\ Waiting \subseteq Users
  BY DEF Holders, Waiting
<1>2. IsFiniteSet(Users)
  BY UsersFinite
<1>3. /\ IsFiniteSet(Holders) /\ Cardinality(Holders) <= Cardinality(Users)
      /\ IsFiniteSet(Waiting) /\ Cardinality(Waiting) <= Cardinality(Users)
  BY <1>1, <1>2, FS_Subset
<1>4. /\ Cardinality(Users) \in Nat /\ Cardinality(Holders) \in Nat
      /\ Cardinality(Waiting) \in Nat
  BY <1>2, <1>3, FS_CardinalityType
<1> QED
  BY <1>2, <1>3, <1>4

\* A container that enters, or one that leaves, changes the count by one.
LEMMA Enters ==
  ASSUME TypeOK, NEW u \in Users, user[u] = "out", user' = [user EXCEPT ![u] = "in"]
  PROVE  /\ Holders' = Holders \cup {u}
         /\ Waiting' = Waiting
         /\ Cardinality(Holders') = Cardinality(Holders) + 1
         /\ Cardinality(Holders') \in 0..Cardinality(Users)
<1>1. Holders' = Holders \cup {u} /\ Waiting' = Waiting /\ u \notin Holders
  BY DEF Holders, Waiting, TypeOK
<1>2. Cardinality(Holders') = Cardinality(Holders) + 1
  BY <1>1, HoldersFinite, FS_AddElement
<1>3. Holders' \subseteq Users
  BY DEF Holders
<1>4. Cardinality(Holders') <= Cardinality(Users) /\ Cardinality(Holders') \in Nat
  BY <1>3, HoldersFinite, FS_Subset, FS_CardinalityType
<1> QED
  BY <1>1, <1>2, <1>4, HoldersFinite

LEMMA Leaves ==
  ASSUME TypeOK, NEW u \in Users, user[u] = "in", NEW s \in {"out", "stopped"},
         user' = [user EXCEPT ![u] = s]
  PROVE  /\ Holders' = Holders \ {u}
         /\ Waiting' = Waiting
         /\ Cardinality(Holders') = Cardinality(Holders) - 1
         /\ Cardinality(Holders) > 0
<1>1. Holders' = Holders \ {u} /\ Waiting' = Waiting /\ u \in Holders
  BY DEF Holders, Waiting, TypeOK
<1>2. Cardinality(Holders') = Cardinality(Holders) - 1
  BY <1>1, HoldersFinite, FS_RemoveElement
<1>3. Cardinality(Holders) > 0
  BY <1>1, HoldersFinite, FS_EmptySet
<1> QED
  BY <1>1, <1>2, <1>3

\* The invariant holds at the start.
LEMMA SharedInit == Init => SharedInv
<1> SUFFICES ASSUME Init PROVE SharedInv
  OBVIOUS
<1>1. Holders = {} /\ Waiting = {} /\ ~Defined
  BY DEF Init, Holders, Waiting, Defined, NoState
<1>2. TypeOK
  <2>1. twice \in BOOLEAN
    BY DEF Init
  <2>2. state \in [id : 0..MaxInstances, refCount : 0..Cardinality(Users)]
    BY MaxInstancesNat, HoldersFinite DEF Init, NoState
  <2> QED
    BY <2>1, <2>2, MaxInstancesNat DEF Init, TypeOK, Instances
<1>3. initializing = "none" /\ \A i \in Instances : phase[i] = "absent"
  BY DEF Init
<1>4. Current /\ InFlight /\ Exact
  BY <1>1, <1>3 DEF Current, InFlight, Exact
<1> QED
  BY <1>2, <1>4 DEF SharedInv

\* A start that finds the instance.
LEMMA SharedKept ==
  ASSUME SharedInv, NEW u \in Users, AcquireShared(u)
  PROVE  SharedInv'
<1>1. /\ user[u] = "out" /\ Defined /\ user' = [user EXCEPT ![u] = "in"]
      /\ instance' = [instance EXCEPT ![u] = state.id]
      /\ UNCHANGED <<initializing, created, phase, twice>>
      /\ state' = [state EXCEPT !.refCount = @ + 1]
      /\ TypeOK
  BY DEF AcquireShared, SharedInv
<1>2. /\ Holders' = Holders \cup {u} /\ Waiting' = Waiting
      /\ Cardinality(Holders') = Cardinality(Holders) + 1
      /\ Cardinality(Holders') \in 0..Cardinality(Users)
  BY <1>1, Enters
<1>3. /\ state.id \in Instances /\ state.refCount = Cardinality(Holders)
      /\ state.refCount > 0
  BY <1>1 DEF SharedInv, Current, Exact
<1>4. /\ state'.id = state.id /\ state'.refCount = Cardinality(Holders')
      /\ state' \in [id : 0..MaxInstances, refCount : 0..Cardinality(Users)]
      /\ state'.refCount > 0
  BY <1>1, <1>2, <1>3, HoldersFinite DEF TypeOK
<1>5. Defined'
  BY <1>4, <1>3, MaxInstancesNat DEF Defined, NoState, Instances
<1>6. TypeOK'
  BY <1>1, <1>4 DEF TypeOK
<1>7. Exact'
  BY <1>4, <1>5 DEF Exact
<1>8. Current'
  <2>1. \A v \in Holders' : instance'[v] = state'.id
    BY <1>1, <1>2, <1>4 DEF SharedInv, Current, TypeOK, Holders
  <2> QED
    BY <1>1, <1>4, <1>5, <2>1 DEF SharedInv, Current
<1>9. InFlight'
  BY <1>1, <1>2 DEF SharedInv, InFlight, TypeOK
<1> QED
  BY <1>6, <1>7, <1>8, <1>9 DEF SharedInv

\* A move of one container that changes neither who holds nor who waits.
LEMMA BystanderKept ==
  ASSUME SharedInv, TypeOK',
         Holders' = Holders, Waiting' = Waiting,
         UNCHANGED <<state, instance>>,
         \/ UNCHANGED <<initializing, created, phase>>
         \/ /\ ~Defined /\ initializing # "pending" /\ initializing' # "pending"
            /\ \A i \in Instances : phase'[i] = "live" => phase[i] = "live"
         \/ /\ UNCHANGED <<initializing, created>>
            /\ \E i \in Instances : /\ phase[i] = "stopping"
                                    /\ phase' = [phase EXCEPT ![i] = "gone"]
  PROVE  SharedInv'
<1>1. TypeOK /\ Exact /\ Current /\ InFlight
  BY DEF SharedInv
<1>2. Defined' = Defined /\ Exact'
  BY <1>1 DEF Defined, NoState, Exact
<1>3. Current' /\ InFlight'
  <2>1. CASE UNCHANGED <<initializing, created, phase>>
    BY <1>1, <1>2, <2>1 DEF Current, InFlight
  <2>2. CASE /\ ~Defined /\ initializing # "pending" /\ initializing' # "pending"
             /\ \A i \in Instances : phase'[i] = "live" => phase[i] = "live"
    BY <1>1, <1>2, <2>2 DEF Current, InFlight
  <2>3. CASE /\ UNCHANGED <<initializing, created>>
             /\ \E i \in Instances : /\ phase[i] = "stopping"
                                     /\ phase' = [phase EXCEPT ![i] = "gone"]
    <3>1. PICK i \in Instances : /\ phase[i] = "stopping"
                                 /\ phase' = [phase EXCEPT ![i] = "gone"]
      BY <2>3
    <3>2. \A j \in Instances : /\ (phase'[j] = "live") = (phase[j] = "live")
                               /\ (phase'[j] = "creating") = (phase[j] = "creating")
      BY <3>1, <1>1 DEF TypeOK
    <3> QED
      BY <1>1, <1>2, <2>3, <3>2 DEF Current, InFlight
  <2> QED
    BY <2>1, <2>2, <2>3
<1> QED
  BY <1>1, <1>2, <1>3 DEF SharedInv

\* A start that waits for the creation in flight.
LEMMA JoinsKept ==
  ASSUME SharedInv, NEW u \in Users, AcquireJoins(u)
  PROVE  SharedInv'
<1>1. /\ user[u] = "out" /\ ~Defined /\ initializing = "pending"
      /\ user' = [user EXCEPT ![u] = "waiting"]
      /\ UNCHANGED <<state, initializing, instance, created, phase, twice>>
      /\ TypeOK /\ Exact /\ Current /\ InFlight
  BY DEF AcquireJoins, SharedInv
<1>2. Holders' = Holders /\ Waiting' = Waiting \cup {u}
  BY <1>1 DEF Holders, Waiting, TypeOK
<1>3. TypeOK'
  BY <1>1 DEF TypeOK
<1>4. Exact' /\ Current' /\ InFlight'
  BY <1>1, <1>2 DEF Exact, Current, InFlight, Defined, NoState
<1> QED
  BY <1>3, <1>4 DEF SharedInv

\* A start that calls the factory.
LEMMA CreatesKept ==
  ASSUME SharedInv, NEW u \in Users, AcquireCreates(u)
  PROVE  SharedInv'
<1>1. /\ user[u] = "out" /\ ~Defined /\ initializing = "none"
      /\ created < MaxInstances /\ created' = created + 1
      /\ phase' = [phase EXCEPT ![created + 1] = "creating"]
      /\ initializing' = "pending"
      /\ user' = [user EXCEPT ![u] = "waiting"]
      /\ UNCHANGED <<state, instance, twice>>
      /\ TypeOK /\ Exact /\ Current /\ InFlight
  BY DEF AcquireCreates, SharedInv
<1>2. Holders' = Holders /\ Waiting' = Waiting \cup {u}
  BY <1>1 DEF Holders, Waiting, TypeOK
<1>3. created' \in Instances /\ created' \in 0..MaxInstances
  BY <1>1, MaxInstancesNat DEF TypeOK, Instances
<1>4. TypeOK'
  BY <1>1, <1>3 DEF TypeOK
<1>5. /\ phase'[created'] = "creating"
      /\ \A i \in Instances : phase'[i] = "live" => phase[i] = "live"
  BY <1>1, <1>3 DEF TypeOK
<1>6. Exact' /\ Current' /\ InFlight'
  BY <1>1, <1>2, <1>3, <1>5 DEF Exact, Current, InFlight, Defined, NoState
<1> QED
  BY <1>4, <1>6 DEF SharedInv

\* A start that fails at once, because the factory throws or has thrown.
LEMMA FailedStartKept ==
  ASSUME SharedInv, NEW u \in Users, AcquireThrows(u) \/ AcquireRejected(u)
  PROVE  SharedInv'
<1>1. /\ user[u] = "out" /\ ~Defined
      /\ user' = [user EXCEPT ![u] = "failed"]
      /\ UNCHANGED <<state, instance, twice>>
      /\ TypeOK
  BY DEF AcquireThrows, AcquireRejected, SharedInv
<1>2. Holders' = Holders /\ Waiting' = Waiting
  BY <1>1 DEF Holders, Waiting, TypeOK
<1>3. CASE AcquireThrows(u)
  <2>1. created + 1 \in Instances /\ created' \in 0..MaxInstances
    BY <1>1, <1>3, MaxInstancesNat DEF AcquireThrows, TypeOK, Instances
  <2>2. TypeOK'
    BY <1>1, <1>3, <2>1 DEF AcquireThrows, TypeOK
  <2>3. /\ initializing # "pending" /\ initializing' # "pending"
        /\ \A i \in Instances : phase'[i] = "live" => phase[i] = "live"
    BY <1>1, <1>3, <2>1 DEF AcquireThrows, TypeOK
  <2> QED
    BY <1>1, <1>2, <2>2, <2>3, BystanderKept
<1>4. CASE AcquireRejected(u)
  <2>1. TypeOK' /\ UNCHANGED <<initializing, created, phase>>
    BY <1>1, <1>4 DEF AcquireRejected, TypeOK
  <2> QED
    BY <1>1, <1>2, <2>1, BystanderKept
<1> QED
  BY <1>3, <1>4

\* The creation succeeds: every waiter becomes a holder of the new instance.
LEMMA ResolvesKept ==
  ASSUME SharedInv, FactoryResolves
  PROVE  SharedInv'
<1>1. /\ initializing = "pending" /\ initializing' = "none"
      /\ phase' = [phase EXCEPT ![created] = "live"]
      /\ state' = [id |-> created, refCount |-> Cardinality(Waiting)]
      /\ user' = [u \in Users |-> IF user[u] = "waiting" THEN "in" ELSE user[u]]
      /\ instance' = [u \in Users |-> IF user[u] = "waiting" THEN created ELSE instance[u]]
      /\ UNCHANGED <<created, twice>>
      /\ TypeOK /\ Exact /\ Current /\ InFlight
  BY DEF FactoryResolves, SharedInv
<1>2. created \in Instances /\ Waiting # {} /\ ~Defined /\ Holders = {}
  BY <1>1 DEF InFlight, Current, Exact
<1>3. Holders' = Waiting /\ Waiting' = {}
  <2>1. \A u \in Users : /\ (user'[u] = "in") = (user[u] = "waiting")
                         /\ user'[u] # "waiting"
    BY <1>1, <1>2 DEF Holders
  <2> QED
    BY <2>1 DEF Holders, Waiting
<1>4. Cardinality(Waiting) > 0 /\ Cardinality(Waiting) \in 0..Cardinality(Users)
  BY <1>2, HoldersFinite, FS_EmptySet
<1>5. TypeOK'
  BY <1>1, <1>2, <1>4 DEF TypeOK
<1>6. /\ state'.id = created /\ state'.refCount = Cardinality(Waiting)
      /\ phase'[created] = "live" /\ created # 0
  BY <1>1, <1>2, MaxInstancesNat DEF TypeOK, Instances
<1>7. Defined'
  BY <1>6 DEF Defined, NoState
<1>8. Exact' /\ InFlight'
  BY <1>1, <1>3, <1>4, <1>6, <1>7 DEF Exact, InFlight
<1>9. Current'
  <2>1. \A u \in Holders' : instance'[u] = state'.id
    BY <1>1, <1>3, <1>6 DEF Waiting
  <2>2. \A i \in Instances : phase'[i] = "live" => i = state'.id
    BY <1>1, <1>2, <1>6 DEF Current, TypeOK
  <2> QED
    BY <1>1, <1>2, <1>6, <1>7, <2>1, <2>2 DEF Current
<1> QED
  BY <1>5, <1>8, <1>9 DEF SharedInv

\* The creation fails: nobody holds anything and nobody waits any more.
LEMMA RejectsKept ==
  ASSUME SharedInv, FactoryRejects
  PROVE  SharedInv'
<1>1. /\ initializing = "pending" /\ initializing' = "none"
      /\ phase' = [phase EXCEPT ![created] = "gone"]
      /\ user' = [u \in Users |-> IF user[u] = "waiting" THEN "failed" ELSE user[u]]
      /\ UNCHANGED <<state, instance, created, twice>>
      /\ TypeOK /\ Exact /\ Current /\ InFlight
  BY DEF FactoryRejects, SharedInv
<1>2. created \in Instances /\ ~Defined /\ Holders = {}
  BY <1>1 DEF InFlight, Current, Exact
<1>3. Holders' = {} /\ Waiting' = {}
  BY <1>1, <1>2 DEF Holders, Waiting
<1>4. TypeOK'
  BY <1>1, <1>2 DEF TypeOK
<1>5. \A i \in Instances : phase'[i] = "live" => phase[i] = "live"
  BY <1>1, <1>2 DEF TypeOK
<1>6. Exact' /\ Current' /\ InFlight'
  BY <1>1, <1>2, <1>3, <1>5 DEF Exact, Current, InFlight, Defined, NoState
<1> QED
  BY <1>4, <1>6 DEF SharedInv

\* A container stops: the count goes down, and the last one closes.
LEMMA ReleaseKept ==
  ASSUME SharedInv, NEW u \in Users, Release(u)
  PROVE  SharedInv'
<1>1. /\ user[u] = "in" /\ user' = [user EXCEPT ![u] = "stopped"]
      /\ instance' = [instance EXCEPT ![u] = 0]
      /\ UNCHANGED <<initializing, created, twice>>
      /\ TypeOK /\ Exact /\ Current /\ InFlight
  BY DEF Release, SharedInv
<1>2. /\ Holders' = Holders \ {u} /\ Waiting' = Waiting
      /\ Cardinality(Holders') = Cardinality(Holders) - 1
      /\ Cardinality(Holders) > 0
  BY <1>1, Leaves
<1>3. u \in Holders /\ Defined
  BY <1>1 DEF Holders, Exact
<1>4. /\ state.refCount = Cardinality(Holders) /\ state.id \in Instances
      /\ phase[state.id] = "live" /\ initializing # "pending"
  BY <1>1, <1>3 DEF Exact, Current
<1>5. instance' \in [Users -> 0..MaxInstances]
  BY <1>1, MaxInstancesNat DEF TypeOK
<1>6. user' \in [Users -> {"out", "waiting", "in", "failed", "stopped"}]
  BY <1>1 DEF TypeOK
<1>7. CASE state.refCount > 1 /\ CountDown
  <2>1. /\ state'.id = state.id /\ state'.refCount = Cardinality(Holders')
        /\ state'.refCount > 0 /\ phase' = phase
        /\ state' \in [id : 0..MaxInstances, refCount : 0..Cardinality(Users)]
    BY <1>1, <1>2, <1>4, <1>7, HoldersFinite DEF CountDown, TypeOK
  <2>2. Defined'
    BY <1>4, <2>1 DEF Defined, NoState, Instances
  <2>3. TypeOK' /\ Exact'
    BY <1>1, <1>5, <1>6, <2>1, <2>2 DEF TypeOK, Exact
  <2>4. Current'
    <3>1. \A v \in Holders' : instance'[v] = state'.id
      BY <1>1, <1>2, <2>1 DEF Current, TypeOK, Holders
    <3> QED
      BY <1>1, <1>4, <2>1, <2>2, <3>1 DEF Current
  <2>5. InFlight'
    BY <1>1, <1>2, <1>4 DEF InFlight
  <2> QED
    BY <2>3, <2>4, <2>5 DEF SharedInv
<1>8. CASE state.refCount = 1 /\ LastOneStops
  <2>1. /\ state' = NoState /\ phase' = [phase EXCEPT ![state.id] = "stopping"]
        /\ ~Defined'
    BY <1>8 DEF LastOneStops, Defined
  <2>2. Holders' = {}
    <3>1. IsFiniteSet(Holders')
      BY <1>2, HoldersFinite, FS_RemoveElement
    <3>2. Cardinality(Holders') = 0
      BY <1>2, <1>4, <1>8
    <3> QED
      BY <3>1, <3>2, FS_EmptySet
  <2>3. TypeOK'
    <3>1. state' \in [id : 0..MaxInstances, refCount : 0..Cardinality(Users)]
      BY <2>1, HoldersFinite, MaxInstancesNat DEF NoState
    <3>2. phase' \in [Instances -> {"absent", "creating", "live", "stopping", "gone"}]
      BY <1>1, <2>1 DEF TypeOK
    <3> QED
      BY <1>1, <1>5, <1>6, <3>1, <3>2 DEF TypeOK
  <2>4. \A i \in Instances : phase'[i] # "live"
    BY <1>1, <1>4, <2>1 DEF Current, TypeOK
  <2>5. Exact' /\ Current' /\ InFlight'
    BY <1>1, <1>2, <1>4, <2>1, <2>2, <2>4 DEF Exact, Current, InFlight
  <2> QED
    BY <2>3, <2>5 DEF SharedInv
<1> QED
  BY <1>3, <1>7, <1>8 DEF Release, CountRelease

LEMMA SharedNext ==
  ASSUME UntilTwice, [Next]_vars
  PROVE  UntilTwice'
<1> SUFFICES ASSUME ~twice' PROVE SharedInv'
  BY DEF UntilTwice
<1>0. ~twice /\ SharedInv
  <2>1. twice => twice'
    BY DEF Next, Acquire, AcquireShared, AcquireJoins, AcquireCreates, AcquireThrows,
           AcquireRejected, Release, ReleaseAgain, Leave, FactoryResolves, FactoryRejects,
           StopSettles, vars
  <2> QED
    BY <2>1 DEF UntilTwice
<1>1. ASSUME NEW u \in Users, Acquire(u) PROVE SharedInv'
  BY <1>0, <1>1, SharedKept, JoinsKept, CreatesKept, FailedStartKept DEF Acquire
<1>2. ASSUME NEW u \in Users, Release(u) PROVE SharedInv'
  BY <1>0, <1>2, ReleaseKept
<1>3. ASSUME NEW u \in Users, ReleaseAgain(u) PROVE SharedInv'
  BY <1>3 DEF ReleaseAgain
<1>4. ASSUME NEW u \in Users, Leave(u) PROVE SharedInv'
  <2>1. /\ user[u] \in {"failed", "stopped"} /\ user' = [user EXCEPT ![u] = "out"]
        /\ UNCHANGED <<state, initializing, instance, created, phase, twice>>
        /\ TypeOK
    BY <1>0, <1>4 DEF Leave, SharedInv
  <2>2. Holders' = Holders /\ Waiting' = Waiting /\ TypeOK'
    BY <2>1 DEF Holders, Waiting, TypeOK
  <2> QED
    BY <1>0, <2>1, <2>2, BystanderKept
<1>5. CASE FactoryResolves
  BY <1>0, <1>5, ResolvesKept
<1>6. CASE FactoryRejects
  BY <1>0, <1>6, RejectsKept
<1>7. ASSUME NEW i \in Instances, StopSettles(i) PROVE SharedInv'
  <2>1. /\ phase[i] = "stopping" /\ phase' = [phase EXCEPT ![i] = "gone"]
        /\ UNCHANGED <<state, initializing, user, instance, created, twice>>
        /\ TypeOK
    BY <1>0, <1>7 DEF StopSettles, SharedInv
  <2>2. Holders' = Holders /\ Waiting' = Waiting /\ TypeOK'
    BY <2>1 DEF Holders, Waiting, TypeOK
  <2> QED
    BY <1>0, <2>1, <2>2, BystanderKept
<1>8. CASE UNCHANGED vars
  <2>1. Holders' = Holders /\ Waiting' = Waiting
    BY <1>8 DEF vars, Holders, Waiting
  <2>2. TypeOK'
    BY <1>0, <1>8 DEF vars, SharedInv, TypeOK
  <2> QED
    BY <1>0, <1>8, <2>1, <2>2, BystanderKept DEF vars
<1> QED
  BY <1>1, <1>2, <1>3, <1>4, <1>5, <1>6, <1>7, <1>8 DEF Next

LEMMA SharedAlways == Spec => []UntilTwice
<1>1. Init => UntilTwice
  BY SharedInit DEF UntilTwice
<1>2. UntilTwice /\ [Next]_vars => UntilTwice'
  BY SharedNext
<1> QED
  BY <1>1, <1>2, PTL DEF Spec

\* The reference count is exact whatever containers start, fail and stop, until one
\* is stopped a second time (singleton.ts, the wrapper and the Managed it returns).
THEOREM CountExact == Spec => []CountIsHolders
<1>1. UntilTwice => CountIsHolders
  BY DEF UntilTwice, SharedInv, Exact, CountIsHolders
<1> QED
  BY <1>1, SharedAlways, PTL

\* No container's instance is closed under it by the others, until one of them is
\* stopped a second time.
THEOREM HoldersKeepInstance == Spec => []HeldIsLive
<1>1. UntilTwice => HeldIsLive
  <2> SUFFICES ASSUME SharedInv, NEW u \in Holders
               PROVE  instance[u] \in Instances /\ phase[instance[u]] = "live"
    BY DEF UntilTwice, HeldIsLive
  <2>1. Defined
    BY DEF SharedInv, Exact
  <2> QED
    BY <2>1 DEF SharedInv, Current
<1> QED
  BY <1>1, SharedAlways, PTL

\* Containers that run at the same time share one instance, until one is stopped a
\* second time.
THEOREM OneForAll == Spec => []OneInstance
<1>1. UntilTwice => OneInstance
  BY DEF UntilTwice, SharedInv, Current, OneInstance
<1> QED
  BY <1>1, SharedAlways, PTL

\* An instance nobody holds is being stopped: none is forgotten alive, until a
\* container is stopped a second time.
THEOREM NothingForgotten == Spec => []NothingLeaks
<1>1. UntilTwice => NothingLeaks
  <2> SUFFICES ASSUME SharedInv, NEW i \in Instances, phase[i] = "live"
               PROVE  \E u \in Holders : instance[u] = i
    BY DEF UntilTwice, NothingLeaks
  <2>1. Defined /\ i = state.id /\ state.refCount = Cardinality(Holders) /\ state.refCount > 0
    BY DEF SharedInv, Current, Exact
  <2>2. Holders # {}
    BY <2>1, HoldersFinite, FS_EmptySet
  <2> QED
    BY <2>1, <2>2 DEF SharedInv, Current
<1> QED
  BY <1>1, SharedAlways, PTL

=============================================================================
