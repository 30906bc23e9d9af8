-------------------------- MODULE MCContainerPlan --------------------------
(* Builders over three tokens, cyclic and incomplete ones included, with at *)
(* most MaxGiven dependencies, orderings and deferred registrations.        *)
EXTENDS ContainerPlan

\* Names are interchangeable.
SameNames == Permutations(Names)
=============================================================================
