----------------------------- MODULE Container -----------------------------
(***************************************************************************)
(* The life of one container of @insler/di: start() resolves the eager     *)
(* bindings level by level, each level in parallel, then runs the          *)
(* initializers; a ResolvedContainer expands lazy tokens on demand and     *)
(* stop() runs the cleanups, all of them whenever it is called, also while *)
(* another call is under way.  An action is the code between two awaits.   *)
(* What factories, initializers and cleanups do is external: they settle   *)
(* either way, in any order.                                               *)
(***************************************************************************)
EXTENDS Integers, Sequences, SequencesExt, FiniteSetsExt

CONSTANTS
  Order,          \* the eager bindings, in the order topologicalSort returns
  LazyOrder,      \* the lazy tokens; one may depend on those before it
  Programs,       \* the sets of tokens to consider
  Initializers,   \* how many .init() callbacks there are
  MaxStops        \* bound: calls of stop() by the application

ASSUME OrdersAreDisjoint ==
  /\ Order \in Seq(ToSet(Order)) /\ IsInjective(Order)
  /\ LazyOrder \in Seq(ToSet(LazyOrder)) /\ IsInjective(LazyOrder)
  /\ ToSet(Order) \cap ToSet(LazyOrder) = {}
ASSUME ProgramsHaveTokens == \A p \in Programs : p \subseteq ToSet(Order) \cup ToSet(LazyOrder)
ASSUME InitializersNat == Initializers \in Nat /\ MaxStops \in Nat

VARIABLES
  deps,        \* what each binding depends on (deps and afterDeps)
  phase,       \* how far start() is; it ends in "up" or "failed"
  level,       \* the level being resolved
  status,      \* each token's value: absent, on its way, there or failed
  callbacks,   \* stopCallbacks: the managed tokens, in insertion order
  stopOrder,   \* the array the stop loops walk
  loops,       \* the stop loops that were begun, of start() and of each stop():
               \* whether it awaits a cleanup or is done, its index into the
               \* array, and how often it has called each token's cleanup
  ran,         \* initializers that have run
  late         \* a resolution was in flight when the container was stopped,
               \* or was asked for since

vars == <<deps, phase, level, status, callbacks, stopOrder, loops, ran, late>>

Tokens == DOMAIN deps
Eager == ToSet(Order) \cap Tokens
Lazy == ToSet(LazyOrder) \cap Tokens

Managed == ToSet(callbacks)

\* nodeLevel of the i-th eager binding.
Level(t) ==
  LET depth[i \in DOMAIN Order] ==
        Max({-1} \cup {depth[j] : j \in {j \in 1..(i - 1) : Order[j] \in deps[Order[i]]}}) + 1
  IN  depth[CHOOSE i \in DOMAIN Order : Order[i] = t]

AtLevel(n) == {t \in Eager : Level(t) = n}

\* The tokens a token needs, directly or through others.
Needs(t) ==
  LET within[n \in 0..Cardinality(Tokens)] ==
        IF n = 0 THEN deps[t]
        ELSE LET near == within[n - 1] IN near \cup UNION {deps[d] : d \in near}
  IN  within[Cardinality(Tokens)]

InFlight == {t \in Tokens : status[t] \in {"expanding", "building"}}
Built == {t \in Tokens : status[t] = "built"}

TypeOK ==
  /\ deps \in [Tokens -> SUBSET Tokens]
  /\ phase \in {"new", "levels", "cleanup", "init", "abandon", "failed", "up"}
  /\ level \in 0..Len(Order)
  /\ status \in [Tokens -> {"absent", "expanding", "building", "built", "failed"}]
  /\ IsInjective(callbacks) /\ Managed \subseteq Built
  /\ ~late => IsInjective(stopOrder)
  /\ ToSet(stopOrder) \subseteq ToSet(Order) \cup Tokens
  /\ loops \in Seq([pc : {"walking", "awaiting", "done"}, next : 0..Len(stopOrder),
                     calls : [Tokens -> Nat]])
  /\ ran \in 0..Initializers
  /\ late \in BOOLEAN

\* A graph the container accepts: everything a binding needs is provided and
\* comes before it.
Before(s, t) == {s[i] : i \in {i \in DOMAIN s : \E j \in DOMAIN s : s[j] = t /\ i < j}}

Init ==
  /\ \E tokens \in Programs : deps \in [tokens -> SUBSET tokens]
  /\ \A t \in Eager : deps[t] \subseteq Before(Order, t)
  /\ \A t \in Lazy : deps[t] \subseteq Eager \cup Before(LazyOrder, t)
  /\ phase = "new"
  /\ level = 0
  /\ status = [t \in Tokens |-> "absent"]
  /\ callbacks = <<>>
  /\ stopOrder = <<>>
  /\ loops = <<>>
  /\ ran = 0
  /\ late = FALSE

(***************************************************************************)
(* start(): the levels.                                                    *)
(***************************************************************************)

\* The factories of a level are all called before any of them is awaited.
Resolving(n) ==
  status' = [t \in Tokens |-> IF t \in AtLevel(n) THEN "building" ELSE status[t]]

\* A stop loop begins: an iterator of its own.
BeginLoop == loops' = Append(loops, [pc |-> "walking", next |-> 0,
                                     calls |-> [t \in Tokens |-> 0]])

Start ==
  /\ phase = "new"
  /\ phase' = "levels"
  /\ Resolving(0)
  /\ UNCHANGED <<deps, level, callbacks, stopOrder, loops, ran, late>>

\* A factory's promise resolves, to a plain value or a Managed with a stop.
FactoryResolves(t) ==
  /\ t \in Eager
  /\ status[t] = "building"
  /\ status' = [status EXCEPT ![t] = "built"]
  /\ \/ callbacks' = Append(callbacks, t)
     \/ UNCHANGED callbacks
  /\ UNCHANGED <<deps, phase, level, stopOrder, loops, ran, late>>

FactoryRejects(t) ==
  /\ t \in Eager
  /\ status[t] = "building"
  /\ status' = [status EXCEPT ![t] = "failed"]
  /\ UNCHANGED <<deps, phase, level, callbacks, stopOrder, loops, ran, late>>

\* Mutant of Settled: Promise.all, which the first rejection settles.
SettledByFirst ==
  \/ \A t \in AtLevel(level) : status[t] = "built"
  \/ \E t \in AtLevel(level) : status[t] = "failed"

\* Promise.allSettled over the level has settled.
Settled == \A t \in AtLevel(level) : status[t] \in {"built", "failed"}

Failed == \E t \in AtLevel(level) : status[t] = "failed"

NextLevel ==
  /\ phase = "levels" /\ Settled /\ ~Failed
  /\ AtLevel(level + 1) # {}
  /\ level' = level + 1
  /\ Resolving(level + 1)
  /\ UNCHANGED <<deps, phase, callbacks, stopOrder, loops, ran, late>>

\* The cleanup of a failed start walks the callbacks backwards.
\* Mutant of CleanupOrder: it walks them as they were inserted.
CleanupForwards == callbacks

CleanupOrder == Reverse(callbacks)

LevelFails ==
  /\ phase = "levels" /\ Settled /\ Failed
  /\ phase' = "cleanup"
  /\ stopOrder' = CleanupOrder
  /\ BeginLoop
  /\ UNCHANGED <<deps, level, status, callbacks, ran, late>>

\* All levels are there: the ResolvedContainer is made.
Resolved ==
  /\ phase = "levels" /\ Settled /\ ~Failed
  /\ AtLevel(level + 1) = {}
  /\ stopOrder' = Reverse(Order)
  /\ phase' = IF Initializers > 0 THEN "init" ELSE "up"
  /\ UNCHANGED <<deps, level, status, callbacks, loops, ran, late>>

(***************************************************************************)
(* start(): the initializers, one after the other.                         *)
(***************************************************************************)

InitializerReturns ==
  /\ phase = "init"
  /\ ran' = ran + 1
  /\ phase' = IF ran + 1 = Initializers THEN "up" ELSE "init"
  /\ UNCHANGED <<deps, level, status, callbacks, stopOrder, loops, late>>

\* One throws: start() stops the container, then throws too.
InitializerThrows ==
  /\ phase = "init"
  /\ phase' = "abandon"
  /\ late' = (InFlight # {})
  /\ BeginLoop
  /\ UNCHANGED <<deps, level, status, callbacks, stopOrder, ran>>

(***************************************************************************)
(* Lazy tokens: #resolveAny and #lazyExpand.                               *)
(***************************************************************************)

\* A first resolve() expands the token and, in the same call, every lazy token
\* it needs that was not asked for before.  Nothing keeps a program from asking
\* a container that is being stopped or has been.
Resolve(t) ==
  /\ t \in Lazy
  /\ phase \in {"init", "up", "abandon"}
  /\ status[t] = "absent"
  /\ status' = [u \in Tokens |->
       IF u \in {t} \cup Needs(t) /\ status[u] = "absent" THEN "expanding" ELSE status[u]]
  /\ late' = (late \/ loops # <<>>)
  /\ UNCHANGED <<deps, phase, level, callbacks, stopOrder, loops, ran>>

\* Mutant of DepsResolved: dependencies on their way are not awaited.
DepsAskedFor(t) == \A d \in deps[t] : status[d] # "absent"

\* The await on all the dependencies resolves: the factory is called.
DepsResolved(t) == deps[t] \subseteq Built

LazyCalls(t) ==
  /\ t \in Lazy
  /\ status[t] = "expanding"
  /\ DepsResolved(t)
  /\ status' = [status EXCEPT ![t] = "building"]
  /\ UNCHANGED <<deps, phase, level, callbacks, stopOrder, loops, ran, late>>

\* Where a lazy token goes in the order of the cleanups: before all others.
PutFirst(t) == <<t>> \o stopOrder

LazyResolves(t) ==
  /\ t \in Lazy
  /\ status[t] = "building"
  /\ status' = [status EXCEPT ![t] = "built"]
  /\ \/ /\ callbacks' = Append(callbacks, t)
        /\ stopOrder' = PutFirst(t)
     \/ UNCHANGED <<callbacks, stopOrder>>
  /\ UNCHANGED <<deps, phase, level, loops, ran, late>>

\* Mutant of LazyRejects: the rejection of a dependency goes unnoticed.
LazyRejectsItself(t) ==
  /\ t \in Lazy
  /\ status[t] = "building"
  /\ status' = [status EXCEPT ![t] = "failed"]
  /\ UNCHANGED <<deps, phase, level, callbacks, stopOrder, loops, ran, late>>

\* The factory rejects, or a dependency did: #resolving keeps the rejection.
LazyRejects(t) ==
  /\ t \in Lazy
  /\ \/ status[t] = "building"
     \/ status[t] = "expanding" /\ \E d \in deps[t] : status[d] = "failed"
  /\ status' = [status EXCEPT ![t] = "failed"]
  /\ UNCHANGED <<deps, phase, level, callbacks, stopOrder, loops, ran, late>>

(***************************************************************************)
(* The stop loops, the same for a failed level, a failed initializer and   *)
(* the application's stop().                                               *)
(***************************************************************************)

\* Nothing keeps the application from calling stop() once more, after another call
\* or during it: each call walks the array from its start.
Stop ==
  /\ phase = "up"
  /\ Len(loops) < MaxStops
  /\ BeginLoop
  /\ late' = (late \/ InFlight # {})
  /\ UNCHANGED <<deps, phase, level, status, callbacks, stopOrder, ran>>

Loop(k, l) == loops' = [loops EXCEPT ![k] = l]

\* The loop's next element; tokens without a cleanup are passed over.
StopNext(k) ==
  /\ loops[k].pc = "walking"
  /\ loops[k].next < Len(stopOrder)
  /\ LET t == stopOrder[loops[k].next + 1] IN
       \/ /\ t \in Managed
          /\ Loop(k, [loops[k] EXCEPT !.pc = "awaiting", !.next = @ + 1, !.calls[t] = @ + 1])
       \/ /\ t \notin Managed
          /\ Loop(k, [loops[k] EXCEPT !.next = @ + 1])
  /\ UNCHANGED <<deps, phase, level, status, callbacks, stopOrder, ran, late>>

\* A cleanup returns, or throws, which is swallowed or collected: the loop goes on.
StopSettles(k) ==
  /\ loops[k].pc = "awaiting"
  /\ Loop(k, [loops[k] EXCEPT !.pc = "walking"])
  /\ UNCHANGED <<deps, phase, level, status, callbacks, stopOrder, ran, late>>

LoopEnds(k) ==
  /\ loops[k].pc = "walking"
  /\ loops[k].next = Len(stopOrder)
  /\ Loop(k, [loops[k] EXCEPT !.pc = "done"])
  /\ phase' = IF phase = "up" THEN "up" ELSE "failed"
  /\ UNCHANGED <<deps, level, status, callbacks, stopOrder, ran, late>>

StopLoop(k) == StopNext(k) \/ StopSettles(k) \/ LoopEnds(k)

\* The container is stopped or was never there.
Over ==
  /\ loops # <<>> /\ \A k \in DOMAIN loops : loops[k].pc = "done"
  /\ UNCHANGED vars

Run ==
  \/ Start
  \/ \E t \in Eager : FactoryResolves(t) \/ FactoryRejects(t)
  \/ NextLevel
  \/ LevelFails
  \/ Resolved
  \/ InitializerReturns
  \/ InitializerThrows
  \/ \E t \in Lazy : LazyCalls(t) \/ LazyResolves(t) \/ LazyRejects(t)
  \/ \E k \in DOMAIN loops : StopLoop(k)

Next ==
  \/ Run
  \/ \E t \in Lazy : Resolve(t)
  \/ Stop
  \/ Over

\* Whatever was called settles; nobody has to call resolve() or stop().
Fairness ==
  /\ WF_vars(Run)
  /\ \A t \in ToSet(Order) : WF_vars(FactoryResolves(t) \/ FactoryRejects(t))
  /\ \A t \in ToSet(LazyOrder) : WF_vars(LazyCalls(t) \/ LazyResolves(t) \/ LazyRejects(t))
  /\ \A k \in 1..MaxStops : WF_vars(k \in DOMAIN loops /\ StopLoop(k))

Spec == Init /\ [][Next]_vars /\ Fairness

(***************************************************************************)
(* Properties.                                                             *)
(***************************************************************************)

\* A factory runs only when everything it needs is there, and no call of stop()
\* has shut it down unless the program resolves in the face of a stop.
FactoryAfterDeps ==
  [][\A t \in Tokens : status[t] # "building" /\ status'[t] = "building" =>
       \A d \in Needs(t) :
         /\ status[d] = "built"
         /\ late \/ \A k \in DOMAIN loops : loops[k].calls[d] = 0]_vars

\* A stop loop runs a cleanup only when it has run those of everything that needs
\* the token, through however many others, and nothing that needs it is on its way:
\* in a failed start, after a failed initializer and in each call of stop() alike,
\* if the program has awaited its resolutions.
DependentsFirst ==
  [][\A k \in DOMAIN loops : \A t, u \in Tokens :
       loops'[k].calls[t] # loops[k].calls[t] /\ t \in Needs(u) /\ ~late =>
         /\ u \in Managed => loops[k].calls[u] > 0
         /\ status[u] # "building"]_vars

\* When start() has thrown or a call of stop() is done, that loop has called every
\* cleanup there is, also after one that threw, and none twice, if the program has
\* awaited its resolutions; those of eager bindings it has called in any case.
\* (Two calls of stop() call each cleanup twice, one for each.)
NothingLeft ==
  /\ phase = "failed" => \E k \in DOMAIN loops : loops[k].pc = "done"
  /\ \A k \in DOMAIN loops :
       /\ loops[k].pc = "done" =>
            \A t \in Managed : loops[k].calls[t] > 0 \/ (late /\ t \in Lazy)
       /\ ~late => \A t \in Tokens : loops[k].calls[t] <= 1

\* start() and every stop() settle, and so does every resolve().
Settles ==
  /\ phase = "levels" ~> phase \in {"up", "failed"}
  /\ \A k \in 1..MaxStops :
       k \in DOMAIN loops ~> k \in {i \in DOMAIN loops : loops[i].pc = "done"}
  /\ \A t \in ToSet(LazyOrder) :
       t \in {u \in Lazy : status[u] = "expanding"}
         ~> t \in {u \in Lazy : status[u] \in {"built", "failed"}}
=============================================================================
