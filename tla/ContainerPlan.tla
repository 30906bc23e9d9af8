--------------------------- MODULE ContainerPlan ---------------------------
(***************************************************************************)
(* What start() of @insler/di works out before it calls a single factory:  *)
(* what deferred functions register, the bindings that factories are       *)
(* expanded into, the ordering that link rules add, the check that         *)
(* everything is provided, the topological order and the levels; and what  *)
(* manifest() says of the same builder.                                    *)
(***************************************************************************)
EXTENDS TopologicalSort

CONSTANTS
  Names,       \* the names tokens may have
  MaxGiven,    \* bound: dependencies, orderings and deferred registrations in all
  MaxDeferred  \* bound: how many registrations the deferred functions make

ASSUME NamesAreFinite == IsFiniteSet(Names)
ASSUME BoundsAreNat == MaxGiven \in Nat /\ MaxDeferred \in Nat

VARIABLES
  stage,      \* how far start() is
  deferred,   \* what the deferred functions have yet to register
  provided,   \* what provide() has bound
  factories,  \* tokens a registered factory can make a binding for
  needs,      \* the dependencies of each token's binding, or of the one its factory makes
  links,      \* what the link rules return: pairs <<token, token to wait for>>
  bound,      \* the keys of `bindings`, in insertion order
  after,      \* afterDeps
  walk,       \* topologicalSort, called by start()
  nodeLevel,
  showing,    \* how far manifest() is
  seen,       \* the copies it works on
  shown       \* topologicalSort, called by manifest()

given == <<deferred, provided, factories, needs, links>>
manifestVars == <<showing, seen, shown>>
planVars == <<given, stage, bound, after, walk, nodeLevel, manifestVars>>

Bound == ToSet(bound)
AllDeps == [t \in Names |-> needs[t] \cup after[t]]

\* What manifest() copies of a builder, `bindings` and `factories`.
Builder == [bound |-> bound, factories |-> factories, needs |-> needs, after |-> after]

\* No walk: topologicalSort has not been called.
NoWalk == Begin(<<>>, [t \in Names |-> {}])

\* Registrations: provide() or factory(), of a token, with dependencies.
Registrations == [call : {"provide", "factory"}, token : Names, deps : SUBSET Names]

\* What a list of them counts for.
Weight(list) == Len(list) + Cardinality(UNION {{i} \X list[i].deps : i \in DOMAIN list})

Deferrals ==
  {list \in UNION {[1..n -> Registrations] : n \in 0..MaxDeferred} : Weight(list) <= MaxGiven}

\* Sets of at most n dependencies or orderings.
Edges(n) == UNION {kSubset(k, Names \X Names) : k \in 0..n}

PlanInit ==
  /\ stage = "deferring"
  /\ deferred \in Deferrals
  /\ provided \in {s \in UNION {[1..n -> Names] : n \in 0..Cardinality(Names)} : IsInjective(s)}
  /\ factories \in SUBSET (Names \ ToSet(provided))
  /\ \E edges \in Edges(MaxGiven - Weight(deferred)) :
       /\ \A e \in edges : e[1] \in ToSet(provided) \cup factories
       /\ needs = [t \in Names |-> {d \in Names : <<t, d>> \in edges}]
       /\ links \in Edges(MaxGiven - Weight(deferred) - Cardinality(edges))
  /\ bound = provided
  /\ after = [t \in Names |-> {}]
  /\ walk = NoWalk
  /\ nodeLevel = [t \in Names |-> -1]
  /\ showing = "no"
  /\ seen = Builder
  /\ shown = NoWalk

\* start() runs the deferred functions first: their registrations are made one
\* by one, and a name that is bound, or that has a factory, stays as it is.
DeferredProvides ==
  /\ stage = "deferring"
  /\ deferred # <<>>
  /\ LET r == Head(deferred)
     IN  /\ r.call = "provide"
         /\ IF r.token \in Bound
            THEN UNCHANGED <<provided, bound, needs>>
            ELSE /\ provided' = Append(provided, r.token)
                 /\ bound' = Append(bound, r.token)
                 /\ needs' = [needs EXCEPT ![r.token] = r.deps]
  /\ deferred' = Tail(deferred)
  /\ UNCHANGED <<stage, factories, links, after, walk, nodeLevel, manifestVars>>

DeferredFactory ==
  /\ stage = "deferring"
  /\ deferred # <<>>
  /\ LET r == Head(deferred)
     IN  /\ r.call = "factory"
         /\ factories' = factories \cup {r.token}
         /\ needs' = IF r.token \in Bound \cup factories THEN needs
                     ELSE [needs EXCEPT ![r.token] = r.deps]
  /\ deferred' = Tail(deferred)
  /\ UNCHANGED <<stage, provided, links, bound, after, walk, nodeLevel, manifestVars>>

DeferredDone ==
  /\ stage = "deferring"
  /\ deferred = <<>>
  /\ stage' = "expanding"
  /\ UNCHANGED <<given, bound, after, walk, nodeLevel, manifestVars>>

\* Mutant of Expandable: only the bindings that were provided are looked at.
ExpandableOnce(b, t) ==
  {d \in b.needs[t] : t \in ToSet(provided) /\ d \notin ToSet(b.bound) /\ d \in b.factories}

\* Dependencies of a binding that are not bound and that a factory can make.
Expandable(b, t) == {d \in b.needs[t] : d \notin ToSet(b.bound) /\ d \in b.factories}

\* The loop is at the first binding, in insertion order, that has any.
Expansions(b) ==
  UNION {{Append(b.bound, d) : d \in Expandable(b, b.bound[i])} :
           i \in {k \in DOMAIN b.bound : \A j \in 1..(k - 1) : Expandable(b, b.bound[j]) = {}}}

ExpandBinding ==
  /\ stage = "expanding"
  /\ bound' \in Expansions(Builder)
  /\ UNCHANGED <<given, stage, after, walk, nodeLevel, manifestVars>>

Expanded ==
  /\ stage = "expanding"
  /\ Expansions(Builder) = {}
  /\ stage' = "linking"
  /\ UNCHANGED <<given, bound, after, walk, nodeLevel, manifestVars>>

\* A deferred function, or a factory that is to make a binding, throws.
Throws ==
  /\ \/ stage = "deferring" /\ deferred # <<>>
     \/ stage = "expanding" /\ Expansions(Builder) # {}
  /\ stage' = "rejected"
  /\ UNCHANGED <<given, bound, after, walk, nodeLevel, manifestVars>>

\* A rule's result counts only for tokens that are bound.
LinkedAfter(t) == {d \in Bound : <<t, d>> \in links}

ApplyLinkRules ==
  /\ stage = "linking"
  /\ after' = [t \in Names |-> IF t \in Bound THEN LinkedAfter(t) ELSE {}]
  /\ stage' = "validating"
  /\ UNCHANGED <<given, bound, walk, nodeLevel, manifestVars>>

Missing == {d \in UNION {AllDeps[t] : t \in Bound} : d \notin Bound}

Reject ==
  /\ stage = "validating"
  /\ Missing # {}
  /\ stage' = "missing"
  /\ UNCHANGED <<given, bound, after, walk, nodeLevel, manifestVars>>

Validate ==
  /\ stage = "validating"
  /\ Missing = {}
  /\ stage' = "sorting"
  /\ walk' = Begin(bound, AllDeps)
  /\ UNCHANGED <<given, bound, after, nodeLevel, manifestVars>>

SortBindings ==
  /\ stage = "sorting"
  /\ ~Ended(walk)
  /\ walk' \in Steps(walk)
  /\ UNCHANGED <<given, stage, bound, after, nodeLevel, manifestVars>>

SortEnds ==
  /\ stage = "sorting"
  /\ Ended(walk)
  /\ stage' = IF walk.cycle # <<>> THEN "circular" ELSE "levels"
  /\ UNCHANGED <<given, bound, after, walk, nodeLevel, manifestVars>>

AssignLevels ==
  /\ stage = "levels"
  /\ nodeLevel' = LET node == Levels(walk.sorted, AllDeps)
                  IN  [t \in Names |-> IF t \in Bound THEN node[t] ELSE -1]
  /\ stage' = "planned"
  /\ UNCHANGED <<given, bound, after, walk, manifestVars>>

(***************************************************************************)
(* manifest() of a builder that was not started, whose deferred functions  *)
(* are being awaited, or whose plan is made.  It copies what is registered *)
(* by then, runs no deferred function, and expands, sorts and levels the   *)
(* copies; the link rules' orderings are in its sort if start() has added  *)
(* them, and never in its levels.  What it does to its copies is deferred  *)
(* here until start() has its plan: neither reads what the other writes.   *)
(***************************************************************************)

\* start() has thrown on what it has worked out, or goes on to call the factories.
Planned == stage \in {"missing", "circular", "planned"}

CallManifest ==
  /\ showing = "no"
  /\ stage = "deferring" \/ Planned
  /\ showing' = "expanding"
  /\ seen' = Builder
  /\ UNCHANGED <<given, stage, bound, after, walk, nodeLevel, shown>>

ExpandManifest ==
  /\ Planned
  /\ showing = "expanding"
  /\ \E b \in Expansions(seen) : seen' = [seen EXCEPT !.bound = b]
  /\ UNCHANGED <<given, stage, bound, after, walk, nodeLevel, showing, shown>>

Seen == ToSet(seen.bound)

\* Mutant of ManifestDeps: what factories provide is not looked at.
ManifestDepsGiven == [t \in Names |-> seen.needs[t] \cap ToSet(provided)]

ManifestDeps == [t \in Names |-> seen.needs[t] \cap Seen]

SortableDeps == [t \in Names |-> ManifestDeps[t] \cup seen.after[t]]

ManifestExpanded ==
  /\ Planned
  /\ showing = "expanding"
  /\ Expansions(seen) = {}
  /\ showing' = "sorting"
  /\ shown' = Begin(seen.bound, SortableDeps)
  /\ UNCHANGED <<given, stage, bound, after, walk, nodeLevel, seen>>

SortManifest ==
  /\ Planned
  /\ showing = "sorting"
  /\ ~Ended(shown)
  /\ shown' \in Steps(shown)
  /\ UNCHANGED <<given, stage, bound, after, walk, nodeLevel, showing, seen>>

ManifestOrder == IF shown.cycle # <<>> THEN seen.bound ELSE shown.sorted

ManifestLevel == Levels(ManifestOrder, ManifestDeps)

\* The manifest is there.
Shown == showing = "sorting" /\ Ended(shown)

PlanNext ==
  \/ DeferredProvides
  \/ DeferredFactory
  \/ DeferredDone
  \/ ExpandBinding
  \/ Expanded
  \/ Throws
  \/ ApplyLinkRules
  \/ Reject
  \/ Validate
  \/ SortBindings
  \/ SortEnds
  \/ AssignLevels
  \/ CallManifest
  \/ ExpandManifest
  \/ ManifestExpanded
  \/ SortManifest
  \/ (stage = "rejected" \/ Shown) /\ UNCHANGED planVars

PlanSpec == PlanInit /\ [][PlanNext]_planVars

(***************************************************************************)
(* Properties.                                                             *)
(***************************************************************************)

\* Everything the provided bindings need through factories, and no more: what
\* every set has that holds them and what a factory makes for its members.
FactoriesClose(S) ==
  /\ ToSet(provided) \subseteq S
  /\ \A t \in S : needs[t] \cap factories \subseteq S

Reachable == {t \in Names : \A S \in SUBSET Names : FactoriesClose(S) => t \in S}

PlanTypeOK ==
  /\ stage \in {"deferring", "expanding", "rejected", "linking", "validating", "sorting", "levels",
                "missing", "circular", "planned"}
  /\ provided \in Seq(Names) /\ bound \in Seq(Names) /\ IsInjective(bound)
  /\ after \in [Names -> SUBSET Bound]
  /\ nodeLevel \in [Names -> Nat \cup {-1}]

\* The expansion binds exactly what is needed, however deep the factories
\* lead and in whatever order they were registered.  start() complains of a
\* missing token exactly when a needed binding depends on one: orderings from
\* link rules never make a container fail.
ExpandsWhatIsNeeded ==
  /\ stage \notin {"deferring", "expanding", "rejected"} => Bound = Reachable
  /\ stage = "missing" => \E t \in Reachable : ~ needs[t] \subseteq Reachable
  /\ stage \in {"sorting", "levels", "circular", "planned"} =>
       \A t \in Reachable : needs[t] \subseteq Reachable

\* A list that has each binding once, after all it depends on.
Topological(order, deps) ==
  /\ ToSet(order) = Bound /\ IsInjective(order)
  /\ \A i \in DOMAIN order : \A d \in deps[order[i]] : \E j \in 1..(i - 1) : order[j] = d

\* A round of dependencies that ends where it begins.
IsCycle(cycle, deps) ==
  /\ Len(cycle) > 1 /\ Head(cycle) = Last(cycle)
  /\ \A i \in 1..(Len(cycle) - 1) : cycle[i + 1] \in deps[cycle[i]]

\* The order lists each binding once, after all it depends on; a cycle that is
\* reported instead is one.
OrderIsTopological ==
  /\ stage = "planned" => Topological(walk.sorted, AllDeps)
  /\ stage = "circular" => IsCycle(walk.cycle, AllDeps)

\* Every binding is resolved after all it depends on and no later than that:
\* something of the level below holds it back.
LevelsAreTight ==
  stage = "planned" =>
    \A t \in Bound :
      /\ \A d \in AllDeps[t] : nodeLevel[d] < nodeLevel[t]
      /\ nodeLevel[t] > 0 => \E d \in AllDeps[t] : nodeLevel[d] = nodeLevel[t] - 1

\* Nothing the manifest shows has been registered otherwise since.
NotReplaced == \A t \in Seen : seen.needs[t] = needs[t]

\* manifest() does its own expansion, sort and levels on what is registered when
\* it is called: of a container that can start it shows only bindings start()
\* resolves, and none on a later level than start() does, unless a deferred
\* function has provided a shown binding with other dependencies since.  Each is
\* shown on its level when it waits for nothing the manifest leaves out, which
\* is what a link rule's ordering or a dependency registered since would be;
\* and all bindings are shown when nothing has been registered since.
ManifestIsThePlan ==
  stage = "planned" /\ Shown /\ NotReplaced =>
    /\ \A t \in Seen : t \in Bound /\ ManifestLevel[t] <= nodeLevel[t]
    /\ (\A t \in Seen : AllDeps[t] \subseteq seen.needs[t] \cap Seen) =>
         \A t \in Seen : ManifestLevel[t] = nodeLevel[t]
    /\ ToSet(provided) \subseteq Seen /\ factories \subseteq seen.factories => Seen = Bound
=============================================================================
