-------------------------- MODULE TopologicalSort --------------------------
(***************************************************************************)
(* topologicalSort(bindings) of @insler/di: a depth-first walk over the    *)
(* bindings in insertion order that lists every binding after what it      *)
(* depends on, or reports the cycle it runs into.  The walk is a record    *)
(* and a step of it a call of visit() or a return from one: the path is    *)
(* the call stack.  A list of dependencies is a set: it may be in any      *)
(* order.  The levels that start() and manifest() put the bindings on.     *)
(***************************************************************************)
EXTENDS Integers, Sequences, SequencesExt, FiniteSetsExt

\* names: what the outer loop has still to visit; rest: what the loops of the
\* calls on the path have still to visit; sorted: its members are `visited`.
Begin(names, deps) ==
  [names |-> names, rest |-> deps, path |-> <<>>, sorted |-> <<>>, cycle |-> <<>>]

\* It has thrown, or has returned `sorted`.
Ended(w) == w.cycle # <<>> \/ (w.path = <<>> /\ w.names = <<>>)

\* The part of the path that runs from `name` back to it.
CycleFrom(path, name) ==
  Append(SubSeq(path, Min({i \in DOMAIN path : path[i] = name}), Len(path)), name)

\* visit(name): it is done, it is being visited, or it goes on the path.
Visit(w, name) ==
  IF name \in ToSet(w.sorted) THEN w
  ELSE IF name \in ToSet(w.path) THEN [w EXCEPT !.cycle = CycleFrom(w.path, name)]
  ELSE [w EXCEPT !.path = Append(@, name)]

\* Mutant of Listed: the list grows at the other end, dependents first.
ListedBefore(w, name) == [w EXCEPT !.sorted = <<name>> \o @]

Listed(w, name) == [w EXCEPT !.sorted = Append(@, name)]

\* The outer loop visits its next binding.
VisitNext(w) == Visit([w EXCEPT !.names = Tail(@)], Head(w.names))

\* The binding on top of the path visits a dependency.
VisitDep(w, d) == Visit([w EXCEPT !.rest[Last(w.path)] = @ \ {d}], d)

\* The binding on top of the path has visited all of them.
Return(w) == Listed([w EXCEPT !.path = Front(@)], Last(w.path))

\* What a walk that has not ended may be next.
Steps(w) ==
  IF w.path = <<>> THEN {VisitNext(w)}
  ELSE IF w.rest[Last(w.path)] = {} THEN {Return(w)}
  ELSE {VisitDep(w, d) : d \in w.rest[Last(w.path)]}

Position(order, name) == CHOOSE i \in DOMAIN order : order[i] = name

\* nodeLevel, computed along an order of the bindings.  A dependency that the
\* order does not have before the binding counts as one on level 0.
\* Mutant of Levels: a binding joins the lowest of its dependencies' levels.
LevelsByNearest(order, deps) ==
  LET at[i \in DOMAIN order] ==
        IF deps[order[i]] = {} THEN 0
        ELSE 1 + Min({IF d \in ToSet(SubSeq(order, 1, i - 1)) THEN at[Position(order, d)] ELSE 0 :
                        d \in deps[order[i]]})
  IN  [t \in ToSet(order) |-> at[Position(order, t)]]

Levels(order, deps) ==
  LET at[i \in DOMAIN order] ==
        1 + Max({-1} \cup {IF \E j \in 1..(i - 1) : order[j] = d THEN at[Position(order, d)] ELSE 0 :
                             d \in deps[order[i]]})
  IN  [t \in ToSet(order) |-> at[Position(order, t)]]
=============================================================================
