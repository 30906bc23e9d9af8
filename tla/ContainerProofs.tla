--------------------------- MODULE ContainerProofs ---------------------------
(* What a container leaves behind, for any bindings, dependency graph and     *)
(* number of initializers, whatever fails and whenever it is stopped; and     *)
(* what start() plans for any builder before it calls a factory.              *)
EXTENDS Container, ContainerPlan, FiniteSetTheorems, SequenceTheorems,
        WellFoundedInduction, TLAPS

-----------------------------------------------------------------------------
(* Sequences without repetitions. *)

LEMMA ReverseKeeps ==
  ASSUME NEW S, NEW s \in Seq(S), IsInjective(s)
  PROVE  /\ Reverse(s) \in Seq(S) /\ IsInjective(Reverse(s))
         /\ ToSet(Reverse(s)) = ToSet(s)
<1> DEFINE r == Reverse(s)
           n == Len(s)
<1>1. /\ r \in Seq(S) /\ Len(r) = n /\ n \in Nat /\ DOMAIN r = 1..n /\ DOMAIN s = 1..n
      /\ \A i \in 1..n : r[i] = s[n - i + 1]
  BY DEF Reverse
<1> HIDE DEF r, n
<1>2. \A i, j \in 1..n : /\ n - i + 1 \in 1..n /\ n - (n - i + 1) + 1 = i
                         /\ n - i + 1 = n - j + 1 => i = j
  BY <1>1
<1>3. IsInjective(r)
  BY <1>1, <1>2 DEF IsInjective
<1>4. \A i \in 1..n : s[i] = r[n - i + 1]
  BY <1>1, <1>2
<1>5. ToSet(r) = ToSet(s)
  BY <1>1, <1>2, <1>4 DEF ToSet
<1> QED
  BY <1>1, <1>3, <1>5 DEF r

LEMMA AppendKeeps ==
  ASSUME NEW S, NEW s \in Seq(S), NEW e \in S
  PROVE  /\ Append(s, e) \in Seq(S)
         /\ ToSet(Append(s, e)) = ToSet(s) \cup {e}
         /\ IsInjective(s) /\ e \notin ToSet(s) => IsInjective(Append(s, e))
<1> DEFINE r == Append(s, e)
<1>1. /\ r \in Seq(S) /\ Len(r) = Len(s) + 1 /\ Len(s) \in Nat /\ r[Len(s) + 1] = e
      /\ \A i \in 1..Len(s) : r[i] = s[i]
  OBVIOUS
<1> HIDE DEF r
<1>2. ToSet(r) = ToSet(s) \cup {e}
  BY <1>1 DEF ToSet
<1>3. IsInjective(s) /\ e \notin ToSet(s) => IsInjective(r)
  BY <1>1 DEF IsInjective, ToSet
<1> QED
  BY <1>1, <1>2, <1>3 DEF r

LEMMA PutFirstKeeps ==
  ASSUME NEW S, NEW s \in Seq(S), NEW e \in S
  PROVE  LET r == <<e>> \o s IN
         /\ r \in Seq(S) /\ Len(r) = Len(s) + 1 /\ r[1] = e
         /\ \A i \in 1..Len(s) : r[i + 1] = s[i]
         /\ ToSet(r) = ToSet(s) \cup {e}
         /\ IsInjective(s) /\ e \notin ToSet(s) => IsInjective(r)
<1> DEFINE r == <<e>> \o s
<1>1. /\ r \in Seq(S) /\ Len(r) = Len(s) + 1 /\ Len(s) \in Nat /\ r[1] = e
      /\ \A i \in 1..Len(s) : r[i + 1] = s[i]
  OBVIOUS
<1> HIDE DEF r
<1>2. \A i \in 2..Len(r) : r[i] = s[i - 1] /\ i - 1 \in 1..Len(s)
  BY <1>1
<1>3. ToSet(r) = ToSet(s) \cup {e}
  <2>1. DOMAIN r = {1} \cup 2..Len(r) /\ DOMAIN s = 1..Len(s)
    BY <1>1
  <2>2. \A i \in 1..Len(s) : i + 1 \in DOMAIN r
    BY <1>1
  <2>3. ASSUME NEW i \in DOMAIN r PROVE r[i] \in ToSet(s) \cup {e}
    <3>1. CASE i = 1
      BY <1>1, <3>1
    <3>2. CASE i \in 2..Len(r)
      BY <1>2, <2>1, <3>2 DEF ToSet
    <3> QED
      BY <2>1, <2>3, <3>1, <3>2
  <2>4. \A x \in ToSet(s) \cup {e} : x \in ToSet(r)
    BY <1>1, <2>1, <2>2 DEF ToSet
  <2> QED
    BY <2>3, <2>4 DEF ToSet
<1>4. IsInjective(s) /\ e \notin ToSet(s) => IsInjective(r)
  BY <1>1, <1>2 DEF IsInjective, ToSet
<1> QED
  BY <1>1, <1>3, <1>4 DEF r

LEMMA LevelsFixed == ASSUME UNCHANGED deps, NEW n PROVE AtLevel(n)' = AtLevel(n)
BY DEF AtLevel, Level, Eager, Tokens

-----------------------------------------------------------------------------
(* The invariant. *)

AllTokens == ToSet(Order) \cup ToSet(LazyOrder)
Phases == {"new", "levels", "cleanup", "init", "abandon", "failed", "up"}
Statuses == {"absent", "expanding", "building", "built", "failed"}
LoopState == [pc : {"walking", "awaiting", "done"}, next : Nat, calls : [Tokens -> Nat]]

StateTypeOK ==
  /\ Tokens \subseteq AllTokens
  /\ phase \in Phases /\ late \in BOOLEAN
  /\ status \in [Tokens -> Statuses]
  /\ callbacks \in Seq(Tokens) /\ IsInjective(callbacks) /\ Managed \subseteq Built
  /\ stopOrder \in Seq(AllTokens)
  /\ loops \in Seq(LoopState)

\* Factories of eager bindings are on their way while their level is resolved only,
\* and the levels above it have not been looked at.
EagerByLevel ==
  /\ \A t \in Eager : status[t] = "building" => phase = "levels" /\ t \in AtLevel(level)
  /\ phase = "new" => level = 0 /\ \A t \in Eager : status[t] = "absent"
  /\ phase = "levels" =>
       /\ level \in Nat
       /\ \A t \in Eager : status[t] # "absent" => \E n \in 0..level : t \in AtLevel(n)

\* A resolution in the face of a stop is a late one.
LazyInTime ==
  /\ \A t \in Lazy : status[t] \in {"expanding", "building"} =>
        late \/ (phase \in {"init", "up"} /\ loops = <<>>)
  /\ late => loops # <<>> /\ phase \in {"abandon", "failed", "up"}

\* The order of the cleanups: what it has to cover, and that it has nothing else
\* but the eager bindings; and no loop begins before start() fails or is done.
OrderCovers ==
  /\ IF phase \in {"new", "levels"} THEN Managed \subseteq Eager /\ stopOrder = <<>>
                                    ELSE Managed \subseteq ToSet(stopOrder)
  /\ ToSet(stopOrder) \subseteq ToSet(Order) \cup Managed
  /\ IsInjective(stopOrder)
  /\ phase \in {"new", "levels", "init"} => loops = <<>>
  /\ phase \in {"cleanup", "abandon", "failed"} => loops # <<>>

\* What a loop has passed it has cleaned up, once; a loop that is done has passed
\* everything.
LoopOK(l) ==
  /\ l.next <= Len(stopOrder)
  /\ \A i \in 1..l.next : stopOrder[i] \in Managed =>
        l.calls[stopOrder[i]] > 0 \/ (late /\ stopOrder[i] \in Lazy)
  /\ ~late => \A t \in Tokens : /\ l.calls[t] <= 1
                                /\ l.calls[t] > 0 => \E i \in 1..l.next : stopOrder[i] = t
  /\ l.pc = "done" => \A t \in Managed : l.calls[t] > 0 \/ (late /\ t \in Lazy)

LoopCleans ==
  /\ \A k \in DOMAIN loops : LoopOK(loops[k])
  /\ phase = "failed" => \E k \in DOMAIN loops : loops[k].pc = "done"

StopInv == StateTypeOK /\ EagerByLevel /\ LazyInTime /\ OrderCovers /\ LoopCleans

-----------------------------------------------------------------------------

LEMMA StopInvInit == Init => StopInv
<1> SUFFICES ASSUME Init PROVE StopInv
  OBVIOUS
<1>1. Tokens \subseteq AllTokens
  BY ProgramsHaveTokens DEF Init, Tokens, AllTokens
<1>2. <<>> \in Seq(Tokens) /\ <<>> \in Seq(AllTokens) /\ ToSet(<<>>) = {} /\ IsInjective(<<>>)
  BY DEF ToSet, IsInjective
<1>3. Managed = {}
  BY <1>2 DEF Init, Managed
<1>4. StateTypeOK
  <2>1. phase \in Phases /\ late \in BOOLEAN
    BY DEF Init, Phases
  <2>2. status \in [Tokens -> Statuses]
    BY DEF Init, Statuses
  <2>3. callbacks = <<>> /\ stopOrder = <<>> /\ loops = <<>> /\ <<>> \in Seq(LoopState)
    BY DEF Init
  <2> QED
    BY <1>1, <1>2, <1>3, <2>1, <2>2, <2>3 DEF StateTypeOK
<1>5. EagerByLevel /\ LazyInTime
  BY DEF Init, EagerByLevel, LazyInTime, Eager, Lazy
<1>6. OrderCovers
  BY <1>2, <1>3 DEF Init, OrderCovers
<1>7. LoopCleans
  BY DEF Init, LoopCleans
<1> QED
  BY <1>4, <1>5, <1>6, <1>7 DEF StopInv

\* The constants of one container and what only depends on them.
LEMMA SameGraph ==
  ASSUME UNCHANGED deps
  PROVE  /\ Tokens' = Tokens /\ Eager' = Eager /\ Lazy' = Lazy /\ AllTokens' = AllTokens
         /\ LoopState' = LoopState
         /\ \A n : AtLevel(n)' = AtLevel(n)
<1>1. Tokens' = Tokens /\ Eager' = Eager /\ Lazy' = Lazy /\ AllTokens' = AllTokens
  BY DEF Tokens, Eager, Lazy, AllTokens
<1>2. LoopState' = LoopState
  BY <1>1 DEF LoopState
<1> QED
  BY <1>1, <1>2, LevelsFixed

LEMMA EagerOrLazy ==
  ASSUME StateTypeOK
  PROVE  /\ Eager \subseteq Tokens /\ Lazy \subseteq Tokens /\ Eager \cap Lazy = {}
         /\ Lazy \cap ToSet(Order) = {} /\ Eager \subseteq ToSet(Order)
         /\ \A n : AtLevel(n) \subseteq Eager
BY OrdersAreDisjoint DEF StateTypeOK, Eager, Lazy, AtLevel

\* The loops do not mind a step that leaves them and their array alone.
LEMMA LoopsKept ==
  ASSUME StopInv, UNCHANGED <<deps, callbacks, stopOrder, loops>>, late => late',
         late' \in BOOLEAN, phase' = "failed" => phase = "failed"
  PROVE  LoopCleans' /\ loops' \in Seq(LoopState')
<1>1. /\ Tokens' = Tokens /\ Lazy' = Lazy /\ LoopState' = LoopState /\ Managed' = Managed
  BY SameGraph DEF Managed
<1>2. ASSUME NEW k \in DOMAIN loops PROVE LoopOK(loops[k])'
  <2>1. LoopOK(loops[k])
    BY DEF StopInv, LoopCleans
  <2> QED
    BY <1>1, <2>1 DEF LoopOK
<1> QED
  BY <1>1, <1>2 DEF StopInv, StateTypeOK, LoopCleans

\* A loop begins at the start of the array: it has called nothing.
LEMMA LoopBegins ==
  ASSUME StopInv, BeginLoop, UNCHANGED <<deps, callbacks>>,
         UNCHANGED stopOrder \/ loops = <<>>, stopOrder' \in Seq(AllTokens),
         late => late', late' \in BOOLEAN, phase' # "failed"
  PROVE  LoopCleans' /\ loops' \in Seq(LoopState') /\ loops' # <<>>
<1> DEFINE l == [pc |-> "walking", next |-> 0, calls |-> [t \in Tokens |-> 0]]
<1>1. /\ Tokens' = Tokens /\ Lazy' = Lazy /\ LoopState' = LoopState /\ Managed' = Managed
  BY SameGraph DEF Managed
<1>2. /\ loops \in Seq(LoopState) /\ l \in LoopState /\ loops' = Append(loops, l)
      /\ l.next = 0 /\ l.pc = "walking" /\ \A t \in Tokens : l.calls[t] = 0
  BY DEF BeginLoop, StopInv, StateTypeOK, LoopState
<1> HIDE DEF l
<1>3. /\ DOMAIN loops' = DOMAIN loops \cup {Len(loops) + 1} /\ loops'[Len(loops) + 1] = l
      /\ \A k \in DOMAIN loops : loops'[k] = loops[k]
      /\ loops' \in Seq(LoopState) /\ loops' # <<>>
  BY <1>2
<1>4. ASSUME NEW k \in DOMAIN loops' PROVE LoopOK(loops[k])'
  <2>1. CASE k \in DOMAIN loops
    <3>1. LoopOK(loops[k]) /\ UNCHANGED stopOrder /\ loops[k]' = loops[k]
      BY <1>2, <1>3, <2>1 DEF StopInv, LoopCleans
    <3> QED
      BY <1>1, <3>1 DEF LoopOK
  <2>2. CASE k = Len(loops) + 1
    <3>1. loops[k]' = l
      BY <1>3, <2>2
    <3>2. Len(stopOrder') \in Nat /\ 1..0 = {}
      OBVIOUS
    <3> QED
      BY <1>1, <1>2, <3>1, <3>2 DEF LoopOK
  <2> QED
    BY <1>3, <2>1, <2>2
<1> QED
  BY <1>1, <1>3, <1>4 DEF LoopCleans

\* A level begins: nothing of it was resolved before.
LEMMA LevelBegins ==
  ASSUME StopInv, NEW n \in Nat, Resolving(n), level' = n, phase \in {"new", "levels"},
         phase' = "levels", \A t \in AtLevel(n) : status[t] = "absent",
         \A t \in Eager : /\ status[t] # "building"
                          /\ status[t] # "absent" => \E i \in 0..n : t \in AtLevel(i),
         UNCHANGED <<deps, callbacks, stopOrder, loops, ran, late>>
  PROVE  StopInv'
<1>1. /\ status' = [t \in Tokens |-> IF t \in AtLevel(n) THEN "building" ELSE status[t]]
      /\ status \in [Tokens -> Statuses] /\ late \in BOOLEAN
  BY DEF Resolving, StopInv, StateTypeOK
<1>2. /\ Tokens' = Tokens /\ Eager' = Eager /\ Lazy' = Lazy /\ AllTokens' = AllTokens
      /\ \A i : AtLevel(i)' = AtLevel(i)
      /\ Managed' = Managed
  BY SameGraph DEF Managed
<1>3. /\ Eager \subseteq Tokens /\ Lazy \subseteq Tokens /\ Eager \cap Lazy = {}
      /\ \A i : AtLevel(i) \subseteq Eager
  BY EagerOrLazy DEF StopInv
<1>4. Managed \subseteq Built /\ Built \subseteq Built'
  BY <1>1, <1>2 DEF StopInv, StateTypeOK, Built
<1>5. LoopCleans' /\ loops' \in Seq(LoopState')
  BY <1>1, LoopsKept
<1>6. StateTypeOK'
  BY <1>1, <1>2, <1>4, <1>5 DEF StopInv, StateTypeOK, Statuses, Phases
<1>7. EagerByLevel'
  <2>1. \A t \in Eager : status'[t] = "building" => t \in AtLevel(n)
    BY <1>1, <1>3
  <2>2. \A t \in Eager : status'[t] # "absent" => \E i \in 0..n : t \in AtLevel(i)
    BY <1>1, <1>3
  <2>3. AtLevel(level)' = AtLevel(n)
    BY <1>2 DEF AtLevel, Level, Eager, Tokens
  <2> QED
    BY <1>2, <2>1, <2>2, <2>3 DEF EagerByLevel
<1>8. LazyInTime'
  BY <1>1, <1>2, <1>3 DEF StopInv, LazyInTime
<1>9. OrderCovers'
  BY <1>2 DEF StopInv, OrderCovers
<1> QED
  BY <1>5, <1>6, <1>7, <1>8, <1>9 DEF StopInv

\* One token's status becomes what it is now; nobody else's changes.
LEMMA EagerSettles ==
  ASSUME StopInv, NEW t, FactoryResolves(t) \/ FactoryRejects(t)
  PROVE  StopInv'
<1>1. PICK s \in {"built", "failed"} :
        /\ status' = [status EXCEPT ![t] = s]
        /\ callbacks' = callbacks \/ (s = "built" /\ callbacks' = Append(callbacks, t))
  BY DEF FactoryResolves, FactoryRejects
<1>2. /\ t \in Eager /\ status[t] = "building" /\ phase = "levels" /\ t \in AtLevel(level)
      /\ status \in [Tokens -> Statuses] /\ callbacks \in Seq(Tokens)
      /\ UNCHANGED <<deps, phase, level, stopOrder, loops, ran, late>>
      /\ loops = <<>>
  BY DEF FactoryResolves, FactoryRejects, StopInv, StateTypeOK, EagerByLevel, OrderCovers
<1>3. /\ Tokens' = Tokens /\ Eager' = Eager /\ Lazy' = Lazy /\ AllTokens' = AllTokens
      /\ LoopState' = LoopState /\ \A i : AtLevel(i)' = AtLevel(i)
  BY <1>2, SameGraph
<1>4. /\ Eager \subseteq Tokens /\ Lazy \subseteq Tokens /\ Eager \cap Lazy = {}
  BY EagerOrLazy DEF StopInv
<1>5. t \notin Managed
  BY <1>2 DEF StopInv, StateTypeOK, Built
<1>6. /\ callbacks' \in Seq(Tokens) /\ IsInjective(callbacks')
      /\ Managed' = Managed \/ (s = "built" /\ Managed' = Managed \cup {t})
  <2>1. t \in Tokens /\ IsInjective(callbacks)
    BY <1>2, <1>4 DEF StopInv, StateTypeOK
  <2>2. /\ Append(callbacks, t) \in Seq(Tokens)
        /\ ToSet(Append(callbacks, t)) = ToSet(callbacks) \cup {t}
        /\ IsInjective(Append(callbacks, t))
    BY <1>2, <1>5, <2>1, AppendKeeps DEF Managed
  <2>3. CASE callbacks' = callbacks
    BY <1>2, <2>1, <2>3 DEF Managed
  <2>4. CASE s = "built" /\ callbacks' = Append(callbacks, t)
    BY <2>2, <2>4 DEF Managed
  <2> QED
    BY <1>1, <2>3, <2>4
<1>7. Managed' \subseteq Built'
  BY <1>1, <1>2, <1>3, <1>4, <1>5, <1>6 DEF StopInv, StateTypeOK, Built
<1>8. StateTypeOK'
  BY <1>1, <1>2, <1>3, <1>4, <1>6, <1>7 DEF StopInv, StateTypeOK, Statuses
<1>9. EagerByLevel'
  <2>1. AtLevel(level)' = AtLevel(level)
    BY <1>2 DEF AtLevel, Level, Eager, Tokens
  <2> QED
    BY <1>1, <1>2, <1>3, <1>4, <2>1 DEF StopInv, EagerByLevel
<1>10. LazyInTime'
  BY <1>1, <1>2, <1>3, <1>4 DEF StopInv, LazyInTime
<1>11. OrderCovers'
  BY <1>2, <1>3, <1>4, <1>6 DEF StopInv, OrderCovers, ToSet
<1>12. LoopCleans'
  BY <1>2 DEF LoopCleans
<1> QED
  BY <1>8, <1>9, <1>10, <1>11, <1>12 DEF StopInv

LEMMA LevelsMove ==
  ASSUME StopInv, Start \/ NextLevel
  PROVE  StopInv'
<1>1. CASE Start
  <2>1. /\ phase = "new" /\ phase' = "levels" /\ level' = 0 /\ Resolving(0)
        /\ UNCHANGED <<deps, callbacks, stopOrder, loops, ran, late>>
    BY <1>1 DEF Start, StopInv, EagerByLevel
  <2>2. \A t \in Eager : status[t] = "absent"
    BY <2>1 DEF StopInv, EagerByLevel
  <2>3. AtLevel(0) \subseteq Eager
    BY EagerOrLazy DEF StopInv
  <2> QED
    BY <2>1, <2>2, <2>3, LevelBegins
<1>2. CASE NextLevel
  <2>1. /\ phase = "levels" /\ phase' = "levels" /\ level' = level + 1 /\ Resolving(level + 1)
        /\ UNCHANGED <<deps, callbacks, stopOrder, loops, ran, late>>
        /\ level \in Nat /\ Settled
    BY <1>2 DEF NextLevel, StopInv, EagerByLevel
  <2>2. \A t \in Eager : status[t] # "building"
    BY <2>1 DEF StopInv, EagerByLevel, Settled
  <2>3. \A t \in Eager : status[t] # "absent" => \E i \in 0..level : t \in AtLevel(i)
    BY <2>1 DEF StopInv, EagerByLevel
  <2>4. \A i \in 0..level : AtLevel(i) \cap AtLevel(level + 1) = {}
    BY <2>1 DEF AtLevel
  <2>5. AtLevel(level + 1) \subseteq Eager
    BY EagerOrLazy DEF StopInv
  <2>6. \A t \in AtLevel(level + 1) : status[t] = "absent"
    BY <2>3, <2>4, <2>5
  <2>7. level + 1 \in Nat /\ \A i \in 0..level : i \in 0..(level + 1)
    BY <2>1
  <2>8. \A t \in Eager : status[t] # "absent" => \E i \in 0..(level + 1) : t \in AtLevel(i)
    BY <2>3, <2>7
  <2> QED
    BY <2>1, <2>2, <2>6, <2>7, <2>8, LevelBegins
<1> QED
  BY <1>1, <1>2

\* The array of cleanups is made: of a failed start from the callbacks, of a start
\* that succeeded from the order in which the bindings were resolved.
LEMMA ArrayMade ==
  ASSUME StopInv, LevelFails \/ Resolved
  PROVE  StopInv'
<1>1. /\ phase = "levels" /\ Settled /\ phase' \in {"cleanup", "init", "up"}
      /\ UNCHANGED <<deps, level, status, callbacks, ran, late>>
      /\ stopOrder' = Reverse(callbacks) \/ stopOrder' = Reverse(Order)
      /\ \/ BeginLoop /\ phase' = "cleanup"
         \/ loops' = loops /\ phase' \in {"init", "up"}
      /\ late \in BOOLEAN
  BY DEF LevelFails, Resolved, CleanupOrder, StopInv, StateTypeOK
<1>2. /\ Tokens' = Tokens /\ Eager' = Eager /\ Lazy' = Lazy /\ AllTokens' = AllTokens
      /\ LoopState' = LoopState /\ Managed' = Managed /\ Built' = Built
  BY <1>1, SameGraph DEF Managed, Built, Tokens
<1>3. /\ callbacks \in Seq(Tokens) /\ IsInjective(callbacks) /\ Tokens \subseteq AllTokens
      /\ Managed \subseteq Eager /\ Eager \subseteq ToSet(Order) /\ loops = <<>> /\ ~late
  BY <1>1, EagerOrLazy DEF StopInv, StateTypeOK, OrderCovers, LazyInTime
<1>4. /\ stopOrder' \in Seq(AllTokens) /\ IsInjective(stopOrder')
      /\ ToSet(stopOrder') = Managed \/ ToSet(stopOrder') = ToSet(Order)
  <2>1. CASE stopOrder' = Reverse(callbacks)
    <3>1. callbacks \in Seq(AllTokens)
      BY <1>3
    <3> QED
      BY <1>3, <2>1, <3>1, ReverseKeeps DEF Managed
  <2>2. CASE stopOrder' = Reverse(Order)
    <3>1. Order \in Seq(AllTokens) /\ IsInjective(Order)
      BY OrdersAreDisjoint DEF AllTokens
    <3> QED
      BY <2>2, <3>1, ReverseKeeps
  <2> QED
    BY <1>1, <2>1, <2>2
<1>5. LoopCleans' /\ loops' \in Seq(LoopState') /\ (phase' = "cleanup" => loops' # <<>>)
  <2>1. CASE BeginLoop
    BY <1>1, <1>3, <1>4, <2>1, LoopBegins
  <2>2. CASE loops' = loops /\ phase' \in {"init", "up"}
    <3>1. <<>> \in Seq(LoopState') /\ phase' # "failed"
      BY <1>1
    <3> QED
      BY <1>3, <2>2, <3>1 DEF LoopCleans
  <2> QED
    BY <1>1, <2>1, <2>2
<1>6. StateTypeOK'
  BY <1>1, <1>2, <1>3, <1>4, <1>5 DEF StopInv, StateTypeOK, Phases
<1>7. EagerByLevel'
  BY <1>1, <1>2 DEF StopInv, EagerByLevel, Settled
<1>8. LazyInTime'
  BY <1>1, <1>2, <1>3 DEF StopInv, LazyInTime
<1>9. OrderCovers'
  BY <1>1, <1>2, <1>3, <1>4, <1>5 DEF OrderCovers
<1> QED
  BY <1>5, <1>6, <1>7, <1>8, <1>9 DEF StopInv

\* The initializers, and a stop: the loop of a stop begins after or beside others.
LEMMA PhaseMoves ==
  ASSUME StopInv, InitializerReturns \/ InitializerThrows \/ Stop
  PROVE  StopInv'
<1>1. /\ phase \in {"init", "up"} /\ phase' \in {"init", "up", "abandon"}
      /\ UNCHANGED <<deps, level, status, callbacks, stopOrder>>
      /\ \/ loops' = loops /\ late' = late /\ phase = "init" /\ phase' \in {"init", "up"}
         \/ BeginLoop /\ late' = (late \/ InFlight # {}) /\ phase' \in {"abandon", "up"}
      /\ late \in BOOLEAN /\ late' \in BOOLEAN
  <2>1. late \in BOOLEAN /\ (phase = "init" => ~late)
    BY DEF StopInv, StateTypeOK, LazyInTime
  <2> QED
    BY <2>1 DEF InitializerReturns, InitializerThrows, Stop
<1>2. /\ Tokens' = Tokens /\ Eager' = Eager /\ Lazy' = Lazy /\ AllTokens' = AllTokens
      /\ Managed' = Managed /\ Built' = Built
  BY <1>1, SameGraph DEF Managed, Built, Tokens
<1>3. LoopCleans' /\ loops' \in Seq(LoopState') /\ (BeginLoop => loops' # <<>>)
  <2>1. CASE BeginLoop
    <3>1. stopOrder' \in Seq(AllTokens)
      BY <1>1 DEF StopInv, StateTypeOK
    <3> QED
      BY <1>1, <2>1, <3>1, LoopBegins
  <2>2. CASE loops' = loops /\ late' = late
    <3>1. ~BeginLoop
      BY <2>2 DEF BeginLoop, StopInv, StateTypeOK
    <3> QED
      BY <1>1, <2>2, <3>1, LoopsKept
  <2> QED
    BY <1>1, <2>1, <2>2
<1>4. StateTypeOK'
  BY <1>1, <1>2, <1>3 DEF StopInv, StateTypeOK, Phases
<1>5. EagerByLevel'
  BY <1>1, <1>2 DEF StopInv, EagerByLevel
<1>6. LazyInTime'
  <2>1. \A t \in Lazy : status[t] \in {"expanding", "building"} => t \in InFlight
    BY EagerOrLazy DEF StopInv, InFlight
  <2> QED
    BY <1>1, <1>2, <1>3, <2>1 DEF StopInv, LazyInTime
<1>7. OrderCovers'
  BY <1>1, <1>2, <1>3 DEF StopInv, OrderCovers
<1> QED
  BY <1>3, <1>4, <1>5, <1>6, <1>7 DEF StopInv

\* Lazy tokens that start, expand or fail.
LEMMA LazyMoves ==
  ASSUME StopInv, NEW t \in Lazy, Resolve(t) \/ LazyCalls(t) \/ LazyRejects(t)
  PROVE  StopInv'
<1>1. /\ UNCHANGED <<deps, phase, level, callbacks, stopOrder, loops, ran>>
      /\ late' = (late \/ (loops # <<>> /\ late'))
      /\ phase \in {"abandon", "failed", "init", "up"}
      /\ phase = "init" => loops = <<>>
      /\ late \in BOOLEAN /\ late' \in BOOLEAN
  <2>1. CASE Resolve(t)
    BY <2>1 DEF Resolve, StopInv, StateTypeOK, OrderCovers
  <2>2. CASE LazyCalls(t) \/ LazyRejects(t)
    <3>1. status[t] \in {"expanding", "building"}
      BY <2>2 DEF LazyCalls, LazyRejects
    <3> QED
      BY <2>2, <3>1 DEF LazyCalls, LazyRejects, StopInv, StateTypeOK, OrderCovers, LazyInTime
  <2> QED
    BY <2>1, <2>2
<1>2. /\ Tokens' = Tokens /\ Eager' = Eager /\ Lazy' = Lazy /\ AllTokens' = AllTokens
      /\ Managed' = Managed
  BY <1>1, SameGraph DEF Managed
<1>3. Eager \cap Lazy = {} /\ Lazy \subseteq Tokens /\ Eager \subseteq Tokens
  BY EagerOrLazy DEF StopInv
<1>4. /\ status' \in [Tokens -> Statuses]
      /\ \A u \in Tokens : status[u] = "built" => status'[u] = "built"
      /\ \A u \in Eager : status'[u] = "building" => status[u] = "building"
      /\ \A u \in Lazy : status'[u] \in {"expanding", "building"} =>
            late' \/ (phase \in {"init", "up"} /\ loops = <<>>)
  <2>1. status \in [Tokens -> Statuses]
    BY DEF StopInv, StateTypeOK
  <2>2. CASE Resolve(t)
    <3>1. late' \/ (phase \in {"init", "up"} /\ loops = <<>>)
      BY <2>2 DEF Resolve, StopInv, OrderCovers, StateTypeOK
    <3> QED
      BY <1>3, <2>1, <2>2, <3>1 DEF Resolve, Statuses, StopInv, EagerByLevel
  <2>3. CASE LazyCalls(t)
    BY <1>3, <2>1, <2>3 DEF LazyCalls, Statuses, StopInv, LazyInTime
  <2>4. CASE LazyRejects(t)
    BY <1>3, <2>1, <2>4 DEF LazyRejects, Statuses, StopInv, LazyInTime
  <2> QED
    BY <2>2, <2>3, <2>4
<1>5. Managed \subseteq Built'
  BY <1>1, <1>2, <1>4 DEF StopInv, StateTypeOK, Built
<1>6. LoopCleans' /\ loops' \in Seq(LoopState')
  BY <1>1, LoopsKept
<1>7. StateTypeOK'
  BY <1>1, <1>2, <1>4, <1>5, <1>6 DEF StopInv, StateTypeOK
<1>8. EagerByLevel'
  BY <1>1, <1>2, <1>4 DEF StopInv, EagerByLevel
<1>9. LazyInTime'
  BY <1>1, <1>2, <1>4 DEF StopInv, LazyInTime
<1>10. OrderCovers'
  BY <1>1, <1>2 DEF StopInv, OrderCovers
<1> QED
  BY <1>6, <1>7, <1>8, <1>9, <1>10 DEF StopInv

\* A managed lazy token goes to the front of the array: where loops have begun it
\* moves everything by one, and the resolution is a late one.
LEMMA LazySettles ==
  ASSUME StopInv, NEW t \in Lazy, LazyResolves(t)
  PROVE  StopInv'
<1>1. /\ status[t] = "building" /\ status' = [status EXCEPT ![t] = "built"]
      /\ \/ callbacks' = Append(callbacks, t) /\ stopOrder' = PutFirst(t)
         \/ UNCHANGED <<callbacks, stopOrder>>
      /\ UNCHANGED <<deps, phase, level, loops, ran, late>>
      /\ status \in [Tokens -> Statuses] /\ callbacks \in Seq(Tokens)
      /\ stopOrder \in Seq(AllTokens) /\ loops \in Seq(LoopState) /\ late \in BOOLEAN
  BY DEF LazyResolves, StopInv, StateTypeOK
<1>2. /\ Tokens' = Tokens /\ Eager' = Eager /\ Lazy' = Lazy /\ AllTokens' = AllTokens
      /\ LoopState' = LoopState
  BY <1>1, SameGraph
<1>3. /\ Eager \cap Lazy = {} /\ t \in Tokens /\ t \in AllTokens /\ t \notin ToSet(Order)
      /\ Eager \subseteq Tokens /\ Lazy \subseteq Tokens
  BY EagerOrLazy DEF StopInv, StateTypeOK
<1>4. /\ late \/ (phase \in {"init", "up"} /\ loops = <<>>)
      /\ phase \notin {"new", "levels", "cleanup"}
  BY <1>1 DEF StopInv, LazyInTime
<1>5. t \notin Managed /\ t \notin ToSet(stopOrder)
  BY <1>1, <1>3 DEF StopInv, StateTypeOK, Built, OrderCovers
<1>6. /\ \A u \in Tokens : status[u] = "built" => status'[u] = "built"
      /\ status' \in [Tokens -> Statuses] /\ status'[t] = "built"
  BY <1>1, <1>3 DEF Statuses
<1>7. /\ EagerByLevel'
      /\ LazyInTime'
  BY <1>1, <1>2, <1>3, <1>4, <1>6 DEF StopInv, EagerByLevel, LazyInTime
<1>8. CASE UNCHANGED <<callbacks, stopOrder>>
  <2>1. Managed' = Managed /\ Managed \subseteq Built'
    BY <1>2, <1>6, <1>8 DEF Managed, StopInv, StateTypeOK, Built
  <2>2. LoopCleans' /\ loops' \in Seq(LoopState')
    BY <1>1, <1>8, LoopsKept
  <2>3. StateTypeOK'
    BY <1>1, <1>2, <1>6, <1>8, <2>1, <2>2 DEF StopInv, StateTypeOK
  <2>4. OrderCovers'
    BY <1>1, <1>2, <1>8, <2>1 DEF StopInv, OrderCovers
  <2> QED
    BY <1>7, <2>2, <2>3, <2>4 DEF StopInv
<1>9. CASE callbacks' = Append(callbacks, t) /\ stopOrder' = PutFirst(t)
  <2>1. /\ callbacks' \in Seq(Tokens) /\ IsInjective(callbacks') /\ Managed' = Managed \cup {t}
    BY <1>1, <1>3, <1>5, <1>9, AppendKeeps DEF Managed, StopInv, StateTypeOK
  <2>2. /\ stopOrder' \in Seq(AllTokens) /\ Len(stopOrder') = Len(stopOrder) + 1
        /\ stopOrder'[1] = t /\ \A i \in 1..Len(stopOrder) : stopOrder'[i + 1] = stopOrder[i]
        /\ ToSet(stopOrder') = ToSet(stopOrder) \cup {t}
        /\ IsInjective(stopOrder')
    BY <1>1, <1>3, <1>5, <1>9, PutFirstKeeps DEF PutFirst, StopInv, OrderCovers
  <2>3. Managed' \subseteq Built'
    BY <1>2, <1>3, <1>6, <2>1 DEF StopInv, StateTypeOK, Built
  <2>4. StateTypeOK'
    BY <1>1, <1>2, <1>6, <2>1, <2>2, <2>3 DEF StopInv, StateTypeOK
  <2>5. OrderCovers'
    BY <1>1, <1>2, <1>4, <2>1, <2>2 DEF StopInv, OrderCovers
  <2>6. ASSUME NEW k \in DOMAIN loops PROVE LoopOK(loops[k])'
    <3> DEFINE l == loops[k]
    <3>1. /\ l \in LoopState /\ l.next \in Nat /\ l.next <= Len(stopOrder) /\ late
          /\ LoopOK(l) /\ loops'[k] = l
      <4>1. l \in LoopState /\ LoopOK(l) /\ loops # <<>>
        BY <1>1 DEF StopInv, LoopCleans
      <4> QED
        BY <1>1, <1>4, <4>1 DEF LoopState, LoopOK
    <3> HIDE DEF l
    <3>2. ASSUME NEW i \in 1..l.next, stopOrder'[i] \in Managed'
          PROVE  l.calls[stopOrder'[i]] > 0 \/ stopOrder'[i] \in Lazy
      <4>1. CASE i = 1
        BY <2>2, <4>1
      <4>2. CASE i # 1
        <5>1. i - 1 \in 1..l.next /\ i - 1 \in 1..Len(stopOrder) /\ (i - 1) + 1 = i
          BY <1>1, <3>1, <3>2, <4>2
        <5>2. stopOrder'[i] = stopOrder[i - 1]
          BY <2>2, <5>1
        <5>3. stopOrder[i - 1] \in ToSet(stopOrder)
          BY <1>1, <5>1 DEF ToSet
        <5>4. stopOrder[i - 1] \in Managed
          BY <1>5, <2>1, <3>2, <5>2, <5>3
        <5> QED
          BY <3>1, <5>1, <5>2, <5>4 DEF LoopOK
      <4> QED
        BY <4>1, <4>2
    <3>3. l.pc = "done" => \A u \in Managed' : l.calls[u] > 0 \/ u \in Lazy
      BY <2>1, <3>1 DEF LoopOK
    <3>4. l.next <= Len(stopOrder')
      BY <1>1, <2>2, <3>1
    <3>5. late' /\ Lazy' = Lazy /\ loops[k]' = l
      BY <1>1, <1>2, <3>1
    <3> QED
      BY <3>2, <3>3, <3>4, <3>5 DEF LoopOK
  <2>7. LoopCleans'
    BY <1>1, <2>6 DEF StopInv, LoopCleans
  <2> QED
    BY <1>7, <2>4, <2>5, <2>7 DEF StopInv
<1> QED
  BY <1>1, <1>8, <1>9

\* A step of one loop, to a state that is right for it.
LEMMA LoopSteps ==
  ASSUME StopInv, NEW k \in DOMAIN loops, NEW l \in LoopState, Loop(k, l),
         UNCHANGED <<deps, level, status, callbacks, stopOrder, ran, late>>,
         LoopOK(l), phase' = phase \/ (phase' = "failed" /\ l.pc = "done" /\ phase \in Phases
                                       /\ phase \notin {"new", "levels"}),
         loops[k].pc # "done"
  PROVE  StopInv'
<1>1. /\ Tokens' = Tokens /\ Eager' = Eager /\ Lazy' = Lazy /\ AllTokens' = AllTokens
      /\ LoopState' = LoopState /\ Managed' = Managed /\ Built' = Built
      /\ \A i : AtLevel(i)' = AtLevel(i)
  BY SameGraph DEF Managed, Built, Tokens
<1>2. /\ loops' \in Seq(LoopState) /\ DOMAIN loops' = DOMAIN loops /\ loops'[k] = l
      /\ loops # <<>> /\ loops' # <<>>
      /\ \A i \in DOMAIN loops : i # k => loops'[i] = loops[i]
  BY DEF Loop, StopInv, StateTypeOK
<1>3. StateTypeOK'
  BY <1>1, <1>2 DEF StopInv, StateTypeOK, Phases
<1>4. AtLevel(level)' = AtLevel(level)
  BY DEF AtLevel, Level, Eager, Tokens
<1>5. EagerByLevel'
  <2>1. phase # "levels" => \A t \in Eager : status[t] # "building"
    BY DEF StopInv, EagerByLevel
  <2>2. phase \notin {"new", "levels"}
    BY <1>2 DEF StopInv, OrderCovers
  <2> QED
    BY <1>1, <2>1, <2>2 DEF EagerByLevel
<1>6. LazyInTime' /\ OrderCovers'
  BY <1>1, <1>2 DEF StopInv, LazyInTime, OrderCovers
<1>7. ASSUME NEW i \in DOMAIN loops PROVE LoopOK(loops[i])'
  <2>1. CASE i = k
    <3>1. loops[i]' = l
      BY <1>2, <2>1
    <3> QED
      BY <1>1, <3>1 DEF LoopOK
  <2>2. CASE i # k
    <3>1. loops[i]' = loops[i] /\ LoopOK(loops[i])
      BY <1>2, <2>2 DEF StopInv, LoopCleans
    <3> QED
      BY <1>1, <3>1 DEF LoopOK
  <2> QED
    BY <2>1, <2>2
<1>8. phase' = "failed" => \E i \in DOMAIN loops' : loops'[i].pc = "done"
  BY <1>2 DEF StopInv, LoopCleans
<1>9. LoopCleans'
  BY <1>2, <1>7, <1>8 DEF LoopCleans
<1> QED
  BY <1>3, <1>5, <1>6, <1>9 DEF StopInv

\* A loop goes on to its next element.
LEMMA LoopMoves ==
  ASSUME StopInv, NEW k \in DOMAIN loops, StopNext(k)
  PROVE  StopInv'
<1> DEFINE l == loops[k]
           t == stopOrder[l.next + 1]
<1>1. /\ l \in LoopState /\ LoopOK(l) /\ l.pc = "walking"
      /\ l.next \in Nat /\ l.next < Len(stopOrder) /\ l.calls \in [Tokens -> Nat]
      /\ stopOrder \in Seq(AllTokens) /\ IsInjective(stopOrder) /\ Managed \subseteq Tokens
      /\ UNCHANGED <<deps, phase, level, status, callbacks, stopOrder, ran, late>>
  <2>1. /\ loops[k] \in LoopState /\ LoopOK(loops[k])
        /\ stopOrder \in Seq(AllTokens) /\ IsInjective(stopOrder) /\ Managed \subseteq Tokens
    BY DEF StopInv, StateTypeOK, OrderCovers, LoopCleans, Built
  <2>2. loops[k].next \in Nat /\ loops[k].calls \in [Tokens -> Nat]
    BY <2>1 DEF LoopState
  <2> QED
    BY <2>1, <2>2 DEF StopNext
<1>2. PICK m \in LoopState :
        /\ Loop(k, m) /\ m.next = l.next + 1 /\ m.pc # "done"
        /\ \/ /\ t \in Managed
              /\ m.calls = [l.calls EXCEPT ![t] = @ + 1]
           \/ t \notin Managed /\ m.calls = l.calls
  <2>1. CASE /\ t \in Managed
             /\ Loop(k, [l EXCEPT !.pc = "awaiting", !.next = @ + 1, !.calls[t] = @ + 1])
    <3> DEFINE m == [l EXCEPT !.pc = "awaiting", !.next = @ + 1, !.calls[t] = @ + 1]
    <3>1. t \in Tokens
      BY <1>1, <2>1
    <3>2. /\ m.pc = "awaiting" /\ m.next = l.next + 1
          /\ m.calls = [l.calls EXCEPT ![t] = @ + 1] /\ m \in LoopState
      <4> HIDE DEF l, t
      <4>1. l = [pc |-> l.pc, next |-> l.next, calls |-> l.calls]
        BY <1>1 DEF LoopState
      <4> DEFINE called == [l.calls EXCEPT ![t] = @ + 1]
      <4>2. called \in [Tokens -> Nat]
        BY <1>1, <3>1
      <4> DEFINE e == [[l EXCEPT !.pc = "awaiting"] EXCEPT !.next = @ + 1]
      <4>3. m = [pc |-> "awaiting", next |-> l.next + 1, calls |-> called]
        <5> DEFINE w == [l EXCEPT !.pc = "awaiting"]
        <5>0. w = [pc |-> "awaiting", next |-> l.next, calls |-> l.calls]
          BY <4>1
        <5>1. e = [pc |-> "awaiting", next |-> l.next + 1, calls |-> l.calls]
          <6>1. e = [w EXCEPT !.next = w.next + 1]
            OBVIOUS
          <6> HIDE DEF w, e
          <6> QED
            BY <5>0, <6>1
        <5>2. m = [e EXCEPT !.calls = [e.calls EXCEPT ![t] = @ + 1]]
          OBVIOUS
        <5> HIDE DEF e
        <5>3. e.calls = l.calls
          BY <5>1
        <5>4. m = [e EXCEPT !.calls = called]
          <6> HIDE DEF m
          <6> QED
            BY <5>2, <5>3
        <5> HIDE DEF m, called
        <5> QED
          BY <5>1, <5>4
      <4> HIDE DEF called, m, e
      <4>4. m.pc = "awaiting" /\ m.next = l.next + 1 /\ m.calls = called /\ m \in LoopState
        BY <1>1, <4>2, <4>3 DEF LoopState
      <4> QED
        BY <4>4 DEF called
    <3> QED
      BY <2>1, <3>2
  <2>2. CASE t \notin Managed /\ Loop(k, [l EXCEPT !.next = @ + 1])
    <3> DEFINE m == [l EXCEPT !.next = @ + 1]
    <3>1. m.pc = "walking" /\ m.next = l.next + 1 /\ m.calls = l.calls /\ m \in LoopState
      <4> HIDE DEF l
      <4> QED
        BY <1>1 DEF LoopState
    <3> QED
      BY <2>2, <3>1
  <2> QED
    BY <2>1, <2>2 DEF StopNext
<1>3. /\ l.next + 1 \in 1..Len(stopOrder) /\ l.next + 1 <= Len(stopOrder)
      /\ \A i \in 1..(l.next + 1) : i \in 1..l.next \/ i = l.next + 1
      /\ \A i \in 1..l.next : i \in 1..(l.next + 1) /\ i \in DOMAIN stopOrder /\ i # l.next + 1
  BY <1>1
<1>4. /\ l.next + 1 \in DOMAIN stopOrder /\ stopOrder[l.next + 1] = t
  BY <1>1, <1>3
<1> HIDE DEF t, l
<1>5. /\ m.calls \in [Tokens -> Nat]
      /\ \A u \in Tokens : l.calls[u] > 0 => m.calls[u] > 0
      /\ \A u \in Tokens : u # t => m.calls[u] = l.calls[u]
      /\ t \in Managed => m.calls[t] = l.calls[t] + 1 /\ m.calls[t] > 0
      /\ t \notin Managed => m.calls = l.calls
  <2>1. CASE t \notin Managed
    BY <1>1, <1>2, <2>1
  <2>2. CASE t \in Managed
    <3>1. /\ t \in Tokens /\ m.calls = [l.calls EXCEPT ![t] = l.calls[t] + 1]
          /\ l.calls[t] \in Nat /\ l.calls[t] + 1 \in Nat
      BY <1>1, <1>2, <2>2
    <3> QED
      BY <1>1, <2>2, <3>1
  <2> QED
    BY <2>1, <2>2
<1>6. ASSUME NEW i \in 1..(l.next + 1), stopOrder[i] \in Managed
      PROVE  m.calls[stopOrder[i]] > 0 \/ (late /\ stopOrder[i] \in Lazy)
  <2>1. CASE i = l.next + 1
    BY <1>4, <1>5, <1>6, <2>1
  <2>2. CASE i \in 1..l.next
    BY <1>1, <1>5, <1>6, <2>2 DEF LoopOK
  <2> QED
    BY <1>3, <2>1, <2>2
<1>7. ASSUME ~late, NEW u \in Tokens
      PROVE  /\ m.calls[u] <= 1
             /\ m.calls[u] > 0 => \E i \in 1..(l.next + 1) : stopOrder[i] = u
  <2>1. /\ l.calls[u] <= 1
        /\ l.calls[u] > 0 => \E i \in 1..l.next : stopOrder[i] = u
    BY <1>1, <1>7 DEF LoopOK
  <2>2. CASE u # t
    BY <1>3, <1>5, <2>1, <2>2
  <2>3. CASE u = t
    <3>1. ~(l.calls[t] > 0)
      BY <1>1, <1>3, <1>4, <2>1, <2>3 DEF IsInjective
    <3>2. m.calls[t] <= 1
      BY <1>1, <1>5, <2>3, <3>1, <1>7
    <3> QED
      BY <1>3, <1>4, <2>3, <3>2
  <2> QED
    BY <2>2, <2>3
<1>8. LoopOK(m)
  BY <1>2, <1>3, <1>6, <1>7 DEF LoopOK
<1>9. loops[k].pc # "done" /\ phase' = phase
  BY <1>1 DEF l
<1> QED
  BY <1>1, <1>2, <1>8, <1>9, LoopSteps

\* A loop goes on after a cleanup, or ends at the end of the array.
LEMMA LoopGoesOn ==
  ASSUME StopInv, NEW k \in DOMAIN loops, StopSettles(k) \/ LoopEnds(k)
  PROVE  StopInv'
<1> DEFINE l == loops[k]
<1>1. /\ l \in LoopState /\ LoopOK(l) /\ l.pc # "done" /\ phase \in Phases
      /\ UNCHANGED <<deps, level, status, callbacks, stopOrder, ran, late>>
      /\ phase \notin {"new", "levels"} /\ Managed \subseteq ToSet(stopOrder)
      /\ stopOrder \in Seq(AllTokens)
  BY DEF StopSettles, LoopEnds, StopInv, StateTypeOK, OrderCovers, LoopCleans
<1>2. CASE StopSettles(k)
  <2> DEFINE m == [l EXCEPT !.pc = "walking"]
  <2>1. Loop(k, m) /\ phase' = phase
    BY <1>2 DEF StopSettles
  <2>2. m \in LoopState /\ m.pc = "walking" /\ m.next = l.next /\ m.calls = l.calls
    <3> HIDE DEF l
    <3> QED
      BY <1>1 DEF LoopState
  <2> HIDE DEF m
  <2>3. LoopOK(m)
    BY <1>1, <2>2 DEF LoopOK
  <2> QED
    BY <1>1, <2>1, <2>2, <2>3, LoopSteps
<1>3. CASE LoopEnds(k)
  <2> DEFINE m == [l EXCEPT !.pc = "done"]
  <2>1. /\ Loop(k, m) /\ l.next = Len(stopOrder)
        /\ phase' = phase \/ phase' = "failed"
    BY <1>3 DEF LoopEnds
  <2>2. m \in LoopState /\ m.pc = "done" /\ m.next = l.next /\ m.calls = l.calls
    <3> HIDE DEF l
    <3> QED
      BY <1>1 DEF LoopState
  <2>3. \A t \in Managed : \E i \in 1..l.next : stopOrder[i] = t
    BY <1>1, <2>1 DEF ToSet
  <2> HIDE DEF m
  <2>4. LoopOK(m)
    BY <1>1, <2>2, <2>3 DEF LoopOK
  <2> QED
    BY <1>1, <2>1, <2>2, <2>4, LoopSteps
<1> QED
  BY <1>2, <1>3

LEMMA StopInvStutter == ASSUME StopInv, UNCHANGED vars PROVE StopInv'
<1>1. /\ Tokens' = Tokens /\ Eager' = Eager /\ Lazy' = Lazy /\ AllTokens' = AllTokens
      /\ Managed' = Managed /\ Built' = Built /\ \A n : AtLevel(n)' = AtLevel(n)
  BY SameGraph DEF vars, Managed, Built, Tokens
<1>2. LoopCleans' /\ loops' \in Seq(LoopState')
  BY LoopsKept DEF vars, StopInv, StateTypeOK
<1>3. StateTypeOK' /\ OrderCovers'
  BY <1>1, <1>2 DEF vars, StopInv, StateTypeOK, OrderCovers
<1>4. LazyInTime' /\ EagerByLevel'
  BY <1>1 DEF vars, StopInv, LazyInTime, EagerByLevel
<1> QED
  BY <1>2, <1>3, <1>4 DEF StopInv

\* The invariant of the cleanups is inductive.
LEMMA StopMoves == StopInv /\ [Next]_vars => StopInv'
<1> SUFFICES ASSUME StopInv, [Next]_vars PROVE StopInv'
  OBVIOUS
<1>1. CASE Start \/ NextLevel
  BY <1>1, LevelsMove
<1>2. CASE \E t \in Eager : FactoryResolves(t) \/ FactoryRejects(t)
  BY <1>2, EagerSettles
<1>3. CASE LevelFails \/ Resolved
  BY <1>3, ArrayMade
<1>4. CASE InitializerReturns \/ InitializerThrows \/ Stop
  BY <1>4, PhaseMoves
<1>5. CASE \E t \in Lazy : Resolve(t) \/ LazyCalls(t) \/ LazyRejects(t)
  BY <1>5, LazyMoves
<1>6. CASE \E t \in Lazy : LazyResolves(t)
  BY <1>6, LazySettles
<1>7. CASE \E k \in DOMAIN loops : StopLoop(k)
  BY <1>7, LoopMoves, LoopGoesOn DEF StopLoop
<1>8. CASE Over \/ UNCHANGED vars
  BY <1>8, StopInvStutter DEF Over
<1> QED
  BY <1>1, <1>2, <1>3, <1>4, <1>5, <1>6, <1>7, <1>8 DEF Next, Run

\* NothingLeft for every container: whatever is thrown by factories, initializers
\* and cleanups, when start() has failed or a call of stop() is done its loop has
\* forgotten no cleanup and called none twice, however many calls of stop() there
\* are and however they overlap (container.ts start, resolved.ts stop).
THEOREM CleanupsComplete == Spec => []NothingLeft
<1>1. StopInv => NothingLeft
  BY DEF StopInv, LoopCleans, LoopOK, NothingLeft
<1> QED
  BY <1>1, StopMoves, StopInvInit, PTL DEF Spec

-----------------------------------------------------------------------------
(* Recursion on the naturals: the recursive functions of the model exist and  *)
(* are what their equations say.  Sets stand for the predicates.              *)

\* A set of natural numbers has a least one.
LEMMA LeastNat ==
  ASSUME NEW T, T \subseteq Nat, T # {}
  PROVE  \E n \in T : \A m \in T : n <= m
<1> DEFINE R == OpToRel(<, Nat)
<1>1. IsWellFoundedOn(R, Nat)
  BY NatLessThanWellFounded, Zenon
<1>2. \A x, y \in Nat : <<x, y>> \in R <=> x < y
  BY DEF OpToRel
<1> HIDE DEF R
<1>3. PICK n \in T : \A m \in T : <<m, n>> \notin R
  BY <1>1, WFMin
<1>4. \A m \in T : n \in Nat /\ m \in Nat /\ ~(m < n)
  BY <1>2, <1>3
<1> QED
  BY <1>4

\* Induction.
LEMMA Climb ==
  ASSUME NEW T, 0 \in T, \A n \in Nat : n \in T => n + 1 \in T
  PROVE  Nat \subseteq T
<1> SUFFICES ASSUME Nat \ T # {} PROVE FALSE
  OBVIOUS
<1>1. PICK n \in Nat \ T : \A m \in Nat \ T : n <= m
  BY LeastNat
<1>2. n - 1 \notin Nat \ T
  BY <1>1
<1> QED
  BY <1>1, <1>2

\* The maximum of a bounded set of integers is in it.
LEMMA MaxIsLast ==
  ASSUME NEW S, S \subseteq Int, S # {}, NEW b \in Int, \A x \in S : x <= b
  PROVE  Max(S) \in S /\ \A x \in S : x <= Max(S)
<1> DEFINE T == {b - x : x \in S}
<1>1. T \subseteq Nat /\ T # {}
  <2>1. \A x \in S : b - x \in Nat
    OBVIOUS
  <2> QED
    BY <2>1
<1> HIDE DEF T
<1>2. PICK n \in T : \A m \in T : n <= m
  BY <1>1, LeastNat
<1>3. PICK x \in S : n = b - x
  BY <1>2 DEF T
<1>4. \A y \in S : b - y \in T
  BY DEF T
<1>5. \A y \in S : x >= y
  BY <1>2, <1>3, <1>4
<1> QED
  BY <1>3, <1>5 DEF Max

-----------------------------------------------------------------------------
(* The graph: what a token needs, and the level it is resolved at.            *)

\* A set that has what a token depends on, and what its members depend on, has
\* everything the token needs.
LEMMA NeedsWithin ==
  ASSUME Cardinality(Tokens) \in Nat,
         NEW t, NEW B, deps[t] \subseteq B, \A d \in B : deps[d] \subseteq B
  PROVE  Needs(t) \subseteq B
<1> DEFINE N == Cardinality(Tokens)
           Wider(q) == q \cup UNION {deps[d] : d \in q}
           Def(f, M) == [n \in 0..M |-> IF n = 0 THEN deps[t] ELSE Wider(f[n - 1])]
<1>1. \E f : f = Def(f, N)
  <2> DEFINE T == {M \in Nat : \E f : f = Def(f, M)}
  <2>1. 0 \in T
    <3> DEFINE f == [n \in 0..0 |-> deps[t]]
    <3>1. f = Def(f, 0)
      OBVIOUS
    <3> QED
      BY <3>1
  <2>2. ASSUME NEW M \in Nat, M \in T PROVE M + 1 \in T
    <3>1. PICK f : f = Def(f, M)
      BY <2>2
    <3> DEFINE h == [n \in 0..(M + 1) |-> IF n = M + 1 THEN Wider(f[M]) ELSE f[n]]
    <3>2. \A n \in 0..M : h[n] = f[n] /\ f[n] = IF n = 0 THEN deps[t] ELSE Wider(f[n - 1])
      <4> HIDE DEF Wider
      <4>1. \A n \in 0..M : h[n] = f[n]
        OBVIOUS
      <4>2. \A n \in 0..M : f[n] = Def(f, M)[n]
        <5> HIDE DEF Def
        <5> QED
          BY <3>1
      <4> HIDE DEF h
      <4>3. \A n \in 0..M : Def(f, M)[n] = IF n = 0 THEN deps[t] ELSE Wider(f[n - 1])
        OBVIOUS
      <4> HIDE DEF Def
      <4> QED
        BY <4>1, <4>2, <4>3
    <3>3. h[M + 1] = Wider(f[M])
      <4> HIDE DEF Wider
      <4> QED
        OBVIOUS
    <3>4. M \in 0..M /\ \A n \in 0..(M + 1) : n = M + 1 \/ n \in 0..M
      OBVIOUS
    <3>5. DOMAIN h = 0..(M + 1) /\ h = [n \in 0..(M + 1) |-> h[n]]
      OBVIOUS
    <3> HIDE DEF h
    <3>6. \A n \in 0..(M + 1) : h[n] = IF n = 0 THEN deps[t] ELSE Wider(h[n - 1])
      <4> TAKE n \in 0..(M + 1)
      <4> HIDE DEF Wider
      <4>1. CASE n = M + 1
        BY <3>2, <3>3, <3>4, <4>1
      <4>2. CASE n \in 0..M
        <5>1. n # 0 => n - 1 \in 0..M
          BY <4>2
        <5> QED
          BY <3>2, <4>2, <5>1
      <4> QED
        BY <3>4, <4>1, <4>2
    <3>7. h = Def(h, M + 1)
      <4> HIDE DEF Wider
      <4> QED
        BY <3>5, <3>6
    <3>8. \E e : e = Def(e, M + 1)
      <4> HIDE DEF Def
      <4> QED
        BY <3>7
    <3> QED
      BY <3>8
  <2> HIDE DEF T
  <2>3. N \in T
    BY <2>1, <2>2, Climb
  <2> QED
    BY <2>3 DEF T
<1> DEFINE w == CHOOSE f : f = Def(f, N)
<1>2. w = Def(w, N)
  <2> HIDE DEF Def
  <2> QED
    BY <1>1
<1>3. Needs(t) = w[N]
  BY DEF Needs
<1> HIDE DEF w, N
<1>4. \A n \in 0..N : w[n] = IF n = 0 THEN deps[t] ELSE Wider(w[n - 1])
  <2> HIDE DEF Wider
  <2> QED
    BY <1>2
<1> DEFINE T == {n \in Nat : n <= N => w[n] \subseteq B}
<1>5. N \in Nat
  BY DEF N
<1>6. 0 \in T
  <2>1. 0 \in 0..N
    BY <1>5
  <2>2. w[0] = deps[t]
    <3> HIDE DEF Wider
    <3> QED
      BY <1>4, <2>1
  <2> QED
    BY <2>2
<1>7. ASSUME NEW n \in Nat, n \in T PROVE n + 1 \in T
  <2> SUFFICES ASSUME n + 1 <= N PROVE w[n + 1] \subseteq B
    BY <1>7
  <2>1. n <= N /\ n + 1 \in 0..N /\ n + 1 # 0 /\ (n + 1) - 1 = n
    BY <1>5
  <2>2. w[n + 1] = Wider(w[n])
    <3> HIDE DEF Wider
    <3> QED
      BY <1>4, <2>1
  <2>3. w[n] \subseteq B
    BY <1>7, <2>1
  <2> QED
    BY <2>2, <2>3
<1> HIDE DEF T
<1>8. N \in T
  BY <1>5, <1>6, <1>7, Climb
<1> QED
  BY <1>3, <1>8, <1>5 DEF T

\* The equation of nodeLevel, and the function it defines.
Earlier(i) == {j \in 1..(i - 1) : Order[j] \in deps[Order[i]]}
Height(f, i) == Max({-1} \cup {f[j] : j \in Earlier(i)}) + 1
Heights(f, n) == [i \in 1..n |-> Height(f, i)]

\* A level depends on those of earlier bindings only.
LEMMA HeightIsLocal ==
  ASSUME NEW f, NEW g, NEW i \in Nat, \A j \in 1..(i - 1) : f[j] = g[j]
  PROVE  Height(f, i) = Height(g, i)
<1>1. \A j \in Earlier(i) : f[j] = g[j]
  BY DEF Earlier
<1>2. {f[j] : j \in Earlier(i)} = {g[j] : j \in Earlier(i)}
  BY <1>1
<1> QED
  BY <1>2 DEF Height

\* The recursion has a solution for any prefix of the order.
LEMMA HeightsExist == \A n \in Nat : \E f : f = Heights(f, n)
<1> DEFINE T == {n \in Nat : \E f : f = Heights(f, n)}
<1>1. 0 \in T
  <2> DEFINE f == [i \in 1..0 |-> 0]
  <2>1. f = Heights(f, 0)
    BY DEF Heights
  <2> QED
    BY <2>1
<1>2. ASSUME NEW n \in Nat, n \in T PROVE n + 1 \in T
  <2>1. PICK f : f = Heights(f, n)
    BY <1>2
  <2> DEFINE h == [i \in 1..(n + 1) |-> IF i = n + 1 THEN Height(f, n + 1) ELSE f[i]]
  <2>2. /\ h = [i \in 1..(n + 1) |-> h[i]] /\ h[n + 1] = Height(f, n + 1)
        /\ \A i \in 1..n : h[i] = f[i]
    OBVIOUS
  <2>3. \A i \in 1..n : f[i] = Height(f, i)
    <3>1. \A i \in 1..n : f[i] = Heights(f, n)[i]
      BY <2>1
    <3> QED
      BY <3>1 DEF Heights
  <2> HIDE DEF h
  <2>4. \A i \in 1..(n + 1) : Height(h, i) = Height(f, i)
    <3> TAKE i \in 1..(n + 1)
    <3>1. i \in Nat /\ \A j \in 1..(i - 1) : j \in 1..n
      OBVIOUS
    <3>2. \A j \in 1..(i - 1) : h[j] = f[j]
      BY <2>2, <3>1
    <3> QED
      BY <3>1, <3>2, HeightIsLocal
  <2>5. \A i \in 1..(n + 1) : h[i] = Height(h, i)
    <3> TAKE i \in 1..(n + 1)
    <3>1. CASE i = n + 1
      BY <2>2, <2>4, <3>1
    <3>2. CASE i \in 1..n
      BY <2>2, <2>3, <2>4, <3>2
    <3> QED
      BY <3>1, <3>2
  <2>6. h = Heights(h, n + 1)
    BY <2>2, <2>5 DEF Heights
  <2> QED
    BY <2>6
<1> HIDE DEF T
<1>3. Nat \subseteq T
  BY <1>1, <1>2, Climb
<1> QED
  BY <1>3 DEF T

Depth == CHOOSE f : f = Heights(f, Len(Order))

\* What a token depends on is resolved at lower levels, and a level that is not the
\* first has a dependency at the one below.
LEMMA DepthRises ==
  /\ \A i \in DOMAIN Order :
       /\ Depth[i] \in Nat
       /\ \A j \in Earlier(i) : Depth[j] < Depth[i]
       /\ Depth[i] > 0 => \E j \in Earlier(i) : Depth[j] = Depth[i] - 1
  /\ \A t : Level(t) = Depth[CHOOSE i \in DOMAIN Order : Order[i] = t]
<1>1. Len(Order) \in Nat /\ DOMAIN Order = 1..Len(Order)
  BY OrdersAreDisjoint
<1>2. Depth = Heights(Depth, Len(Order))
  <2>1. \E f : f = Heights(f, Len(Order))
    BY <1>1, HeightsExist
  <2> QED
    BY <2>1 DEF Depth
<1>3. \A i \in 1..Len(Order) : Depth[i] = Height(Depth, i)
  <2>1. \A i \in 1..Len(Order) : Depth[i] = Heights(Depth, Len(Order))[i]
    BY <1>2
  <2> QED
    BY <2>1 DEF Heights
<1> DEFINE Good(i) == /\ Depth[i] \in 0..i
                      /\ \A j \in Earlier(i) : Depth[j] < Depth[i]
                      /\ Depth[i] > 0 => \E j \in Earlier(i) : Depth[j] = Depth[i] - 1
           T == {n \in Nat : n <= Len(Order) => \A i \in 1..n : Good(i)}
<1>4. 0 \in T
  OBVIOUS
<1>5. ASSUME NEW n \in Nat, n \in T PROVE n + 1 \in T
  <2> SUFFICES ASSUME n + 1 <= Len(Order) PROVE \A i \in 1..(n + 1) : Good(i)
    OBVIOUS
  <2>1. \A i \in 1..n : Good(i)
    BY <1>1, <1>5
  <2>2. Good(n + 1)
    <3> DEFINE S == {-1} \cup {Depth[j] : j \in Earlier(n + 1)}
    <3>1. \A j \in Earlier(n + 1) : j \in 1..n /\ Depth[j] \in 0..j
      BY <2>1 DEF Earlier
    <3>2. S \subseteq Int /\ S # {} /\ n \in Int /\ \A x \in S : x <= n /\ x >= -1
      <4>1. \A j \in Earlier(n + 1) : Depth[j] \in Int /\ Depth[j] <= n /\ Depth[j] >= -1
        BY <3>1
      <4> QED
        BY <4>1
    <3>3. \A j \in Earlier(n + 1) : Depth[j] \in S
      OBVIOUS
    <3>4. \A x \in S : x # -1 => \E j \in Earlier(n + 1) : Depth[j] = x
      OBVIOUS
    <3>5. Depth[n + 1] = Max(S) + 1
      <4>1. n + 1 \in 1..Len(Order)
        BY <1>1
      <4> QED
        BY <1>3, <4>1 DEF Height
    <3> HIDE DEF S
    <3>6. Max(S) \in S /\ \A x \in S : x <= Max(S)
      BY <3>2, MaxIsLast
    <3>7. Max(S) \in Int /\ Max(S) <= n /\ Max(S) >= -1
      BY <3>2, <3>6
    <3>8. Depth[n + 1] - 1 = Max(S)
      BY <3>5, <3>7
    <3>9. Depth[n + 1] \in 0..(n + 1)
      BY <3>5, <3>7
    <3>10. \A j \in Earlier(n + 1) : Depth[j] < Depth[n + 1]
      <4> TAKE j \in Earlier(n + 1)
      <4>1. Depth[j] \in S /\ Depth[j] \in Int /\ Max(S) \in Int /\ Depth[j] <= Max(S)
        BY <3>2, <3>3, <3>6
      <4> QED
        BY <3>5, <4>1
    <3>11. ASSUME Depth[n + 1] > 0
           PROVE  \E j \in Earlier(n + 1) : Depth[j] = Depth[n + 1] - 1
      <4>1. Max(S) # -1
        BY <3>5, <3>11
      <4> QED
        BY <3>4, <3>6, <3>8, <4>1
    <3> QED
      BY <3>9, <3>10, <3>11
  <2>3. \A i \in 1..(n + 1) : i \in 1..n \/ i = n + 1
    OBVIOUS
  <2> HIDE DEF Good
  <2> QED
    BY <2>1, <2>2, <2>3
<1>6. Len(Order) \in T
  <2> HIDE DEF T
  <2> QED
    BY <1>1, <1>4, <1>5, Climb
<1>7. \A i \in 1..Len(Order) : Good(i)
  <2> HIDE DEF Good
  <2> QED
    BY <1>1, <1>6
<1>8. \A t : Level(t) = Depth[CHOOSE i \in DOMAIN Order : Order[i] = t]
  <2>1. Depth = CHOOSE f : f = [i \in DOMAIN Order |->
                  Max({-1} \cup {f[j] : j \in {j \in 1..(i - 1) : Order[j] \in deps[Order[i]]}})
                    + 1]
    BY <1>1 DEF Depth, Heights, Height, Earlier
  <2> QED
    BY <2>1 DEF Level
<1> QED
  BY <1>1, <1>7, <1>8

-----------------------------------------------------------------------------
(* A graph the container accepts, and how far its bindings are.               *)

GraphOK ==
  /\ deps \in [Tokens -> SUBSET Tokens]
  /\ \A t \in Eager : deps[t] \subseteq Before(Order, t)

\* A factory that was called was called with all it depends on.
ReadyOK == \A t \in Tokens : status[t] \in {"building", "built"} => deps[t] \subseteq Built

\* Levels are resolved from the bottom, each of them entirely.
LevelsDone ==
  /\ phase = "levels" => /\ \A t \in Eager : Level(t) < level => status[t] = "built"
                         /\ \A t \in AtLevel(level) : status[t] # "absent"
  /\ phase \in {"init", "up", "abandon"} => Eager \subseteq Built

\* A token comes after what it needs in the order of insertion, before it in the
\* order of the cleanups.
Sorted(s) == \A i, j \in DOMAIN s : s[i] \in Needs(s[j]) => i < j
Descending(s) == \A i, j \in DOMAIN s : s[j] \in Tokens /\ s[i] \in Needs(s[j]) => j < i

ReadyInv == /\ GraphOK /\ ReadyOK /\ LevelsDone
            /\ Sorted(callbacks) /\ (late \/ Descending(stopOrder))

\* There are finitely many tokens.
LEMMA TokensAreFinite == ASSUME Tokens \subseteq AllTokens PROVE Cardinality(Tokens) \in Nat
<1>1. ASSUME NEW S, NEW s \in Seq(S) PROVE IsFiniteSet(ToSet(s))
  <2>1. DOMAIN s = 1..Len(s) /\ Len(s) \in Nat
    OBVIOUS
  <2>2. IsFiniteSet(1..Len(s))
    BY <2>1, FS_Interval
  <2>3. s \in [1..Len(s) -> ToSet(s)] /\ \A x \in ToSet(s) : \E i \in 1..Len(s) : s[i] = x
    BY <2>1 DEF ToSet
  <2>4. s \in Surjection(1..Len(s), ToSet(s))
    BY <2>3 DEF Surjection
  <2> QED
    BY <2>2, <2>4, FS_Surjection
<1>2. IsFiniteSet(ToSet(Order)) /\ IsFiniteSet(ToSet(LazyOrder))
  BY <1>1, OrdersAreDisjoint
<1>3. IsFiniteSet(AllTokens)
  BY <1>2, FS_Union DEF AllTokens
<1>4. IsFiniteSet(Tokens)
  BY <1>3, FS_Subset
<1> QED
  BY <1>4, FS_CardinalityType

\* What an eager binding depends on is eager, earlier, and resolved at lower levels.
LEMMA LevelRises ==
  ASSUME GraphOK, NEW t \in Eager
  PROVE  /\ Level(t) \in Nat
         /\ \A d \in deps[t] : d \in Eager /\ Level(d) < Level(t)
         /\ Level(t) > 0 => \E u \in Eager : Level(u) = Level(t) - 1
<1> DEFINE At(u) == CHOOSE i \in DOMAIN Order : Order[i] = u
<1>1. \A i, j \in DOMAIN Order : Order[i] = Order[j] => i = j
  BY OrdersAreDisjoint DEF IsInjective
<1>2. \A i \in DOMAIN Order : At(Order[i]) = i
  BY <1>1
<1>3. t \in Tokens /\ \E i \in DOMAIN Order : Order[i] = t
  BY DEF Eager, ToSet
<1> HIDE DEF At
<1>4. At(t) \in DOMAIN Order /\ Order[At(t)] = t
  BY <1>2, <1>3
<1>5. \A u : Level(u) = Depth[At(u)]
  BY DepthRises DEF At
<1>6. \A d \in deps[t] : d \in Eager /\ \E j \in Earlier(At(t)) : d = Order[j] /\ At(d) = j
  <2> TAKE d \in deps[t]
  <2>1. d \in Tokens /\ d \in Before(Order, t)
    BY <1>3 DEF GraphOK
  <2>2. PICK j \in DOMAIN Order : d = Order[j] /\ j < At(t)
    BY <1>1, <1>4, <2>1 DEF Before
  <2>3. j \in Earlier(At(t))
    <3>1. DOMAIN Order = 1..Len(Order) /\ Len(Order) \in Nat
      BY OrdersAreDisjoint
    <3>2. j \in 1..(At(t) - 1)
      BY <1>4, <2>2, <3>1
    <3> QED
      BY <1>4, <2>2, <3>2 DEF Earlier
  <2> QED
    BY <1>2, <2>1, <2>2, <2>3 DEF Eager, ToSet
<1>7. \A j \in Earlier(At(t)) : j \in DOMAIN Order /\ Order[j] \in Eager
  <2> TAKE j \in Earlier(At(t))
  <2>1. j \in 1..(At(t) - 1) /\ Order[j] \in deps[t]
    BY <1>4 DEF Earlier
  <2> QED
    BY <1>4, <1>6, <2>1, OrdersAreDisjoint
<1> QED
  BY <1>2, <1>4, <1>5, <1>6, <1>7, DepthRises

\* The eager bindings are in an order that respects their needs.
LEMMA OrderIsSorted ==
  ASSUME GraphOK, Tokens \subseteq AllTokens,
         NEW i \in DOMAIN Order, NEW j \in DOMAIN Order,
         Order[j] \in Tokens, Order[i] \in Needs(Order[j])
  PROVE  i < j
<1> DEFINE B == {u \in Eager : \E k \in DOMAIN Order : Order[k] = u /\ k < j}
<1>1. \A k, m \in DOMAIN Order : Order[k] = Order[m] => k = m
  BY OrdersAreDisjoint DEF IsInjective
<1>2. ASSUME NEW k \in DOMAIN Order, Order[k] \in Tokens, NEW d \in deps[Order[k]]
      PROVE  d \in Eager /\ \E m \in DOMAIN Order : Order[m] = d /\ m < k
  <2>1. Order[k] \in Eager /\ d \in Tokens
    BY <1>2 DEF Eager, ToSet, GraphOK
  <2>2. d \in Before(Order, Order[k])
    BY <2>1 DEF GraphOK
  <2>3. PICK m \in DOMAIN Order : d = Order[m] /\ m < k
    BY <1>1, <2>2 DEF Before
  <2> QED
    BY <2>1, <2>3 DEF Eager, ToSet
<1>3. deps[Order[j]] \subseteq B
  BY <1>2
<1>4. ASSUME NEW d \in B PROVE deps[d] \subseteq B
  <2>1. PICK k \in DOMAIN Order : Order[k] = d /\ k < j
    OBVIOUS
  <2>2. d \in Tokens
    BY DEF Eager
  <2>3. \A e \in deps[d] : e \in Eager /\ \E m \in DOMAIN Order : Order[m] = e /\ m < k
    BY <1>2, <2>1, <2>2
  <2>4. \A m \in DOMAIN Order : m < k => m < j
    BY <2>1, OrdersAreDisjoint
  <2> QED
    BY <2>3, <2>4
<1> HIDE DEF B
<1>5. Needs(Order[j]) \subseteq B
  BY <1>3, <1>4, NeedsWithin, TokensAreFinite
<1> QED
  BY <1>1, <1>5 DEF B

\* A token whose factory was called has everything it needs, through any others.
LEMMA NeedsAreBuilt ==
  ASSUME StateTypeOK, ReadyOK, NEW t \in Tokens, deps[t] \subseteq Built
  PROVE  Needs(t) \subseteq Built
<1>1. \A d \in Built : deps[d] \subseteq Built
  BY DEF ReadyOK, Built
<1>2. Cardinality(Tokens) \in Nat
  BY TokensAreFinite DEF StateTypeOK
<1> QED
  BY <1>1, <1>2, NeedsWithin

\* A run of the container does not change its graph.
LEMMA NeedsFixed ==
  ASSUME UNCHANGED deps
  PROVE  /\ \A t : Needs(t)' = Needs(t) /\ Level(t)' = Level(t)
         /\ GraphOK' <=> GraphOK
<1>1. Tokens' = Tokens /\ Eager' = Eager
  BY SameGraph
<1>2. \A t : Needs(t)' = Needs(t)
  BY <1>1 DEF Needs
<1>3. \A t : Level(t)' = Level(t)
  BY DEF Level
<1> QED
  BY <1>1, <1>2, <1>3 DEF GraphOK, Before

\* A token that is ready now is last in the order of insertion and may be first in
\* the order of the cleanups.
LEMMA ComesLast ==
  ASSUME StateTypeOK, ReadyOK, NEW t \in Tokens, status[t] = "building"
  PROVE  /\ t \notin Needs(t) /\ \A u \in Built : t \notin Needs(u)
         /\ Sorted(callbacks) => Sorted(Append(callbacks, t))
<1>1. t \notin Built /\ deps[t] \subseteq Built
  BY DEF Built, ReadyOK
<1>2. \A u \in Built : u \in Tokens /\ deps[u] \subseteq Built
  BY DEF Built, ReadyOK
<1>3. t \notin Needs(t)
  BY <1>1, NeedsAreBuilt
<1>4. \A u \in Built : t \notin Needs(u)
  BY <1>1, <1>2, NeedsAreBuilt
<1>5. ASSUME Sorted(callbacks) PROVE Sorted(Append(callbacks, t))
  <2> DEFINE r == Append(callbacks, t)
             n == Len(callbacks)
  <2>1. /\ callbacks \in Seq(Tokens) /\ n \in Nat /\ DOMAIN r = 1..(n + 1) /\ r[n + 1] = t
        /\ DOMAIN callbacks = 1..n /\ \A i \in 1..n : r[i] = callbacks[i]
    BY DEF StateTypeOK
  <2>2. \A i \in 1..n : callbacks[i] \in Built
    BY <2>1 DEF StateTypeOK, Managed, ToSet
  <2> HIDE DEF r, n
  <2>3. ASSUME NEW i \in 1..(n + 1), NEW j \in 1..(n + 1), r[i] \in Needs(r[j])
        PROVE  i < j
    <3>1. CASE i \in 1..n /\ j \in 1..n
      BY <1>5, <2>1, <2>3, <3>1 DEF Sorted
    <3>2. CASE i = n + 1
      <4>1. r[j] = t \/ r[j] \in Built
        BY <2>1, <2>2
      <4> QED
        BY <1>3, <1>4, <2>1, <2>3, <3>2, <4>1
    <3>3. CASE i \in 1..n /\ j = n + 1
      BY <2>1, <3>3
    <3> QED
      BY <2>1, <3>1, <3>2, <3>3
  <2> QED
    BY <2>1, <2>3 DEF Sorted, r
<1> QED
  BY <1>3, <1>4, <1>5

\* A sorted sequence backwards.
LEMMA ReverseDescends ==
  ASSUME NEW S, NEW s \in Seq(S),
         \A i, j \in DOMAIN s : s[j] \in Tokens /\ s[i] \in Needs(s[j]) => i < j
  PROVE  Descending(Reverse(s))
<1> DEFINE r == Reverse(s)
           n == Len(s)
<1>1. /\ n \in Nat /\ DOMAIN r = 1..n /\ DOMAIN s = 1..n
      /\ \A i \in 1..n : r[i] = s[n - i + 1]
  BY DEF Reverse
<1> HIDE DEF r, n
<1>2. \A i, j \in 1..n : /\ n - i + 1 \in 1..n
                         /\ n - i + 1 < n - j + 1 => j < i
  BY <1>1
<1>3. ASSUME NEW i \in 1..n, NEW j \in 1..n, r[j] \in Tokens, r[i] \in Needs(r[j])
      PROVE  j < i
  BY <1>1, <1>2, <1>3
<1> QED
  BY <1>1, <1>3 DEF Descending, r

-----------------------------------------------------------------------------
(* The steps.                                                                 *)

\* The steps that neither build a token nor make the array of the cleanups.
LEMMA StillReady ==
  ASSUME StopInv, ReadyInv, UNCHANGED <<deps, callbacks, stopOrder>>,
         status' \in [Tokens -> Statuses],
         \A u \in Tokens : status[u] = "built" => status'[u] = "built",
         \A u \in Tokens : status'[u] \in {"building", "built"} =>
            status[u] \in {"building", "built"} \/ deps[u] \subseteq Built,
         late' \/ ~late, LevelsDone'
  PROVE  ReadyInv'
<1>1. /\ Tokens' = Tokens /\ \A t : Needs(t)' = Needs(t) /\ GraphOK'
  BY SameGraph, NeedsFixed DEF ReadyInv
<1>2. Built \subseteq Built'
  BY <1>1 DEF Built
<1>3. ReadyOK'
  BY <1>1, <1>2 DEF ReadyInv, ReadyOK
<1>4. Sorted(callbacks)' /\ (late' \/ Descending(stopOrder)')
  BY <1>1 DEF ReadyInv, Sorted, Descending
<1> QED
  BY <1>1, <1>3, <1>4 DEF ReadyInv

\* A level begins when the one below is done: start() and its loop.
LEMMA ReadyLevels ==
  ASSUME StopInv, ReadyInv, Start \/ NextLevel
  PROVE  /\ ReadyInv'
         /\ \A t \in Tokens : status[t] # "building" /\ status'[t] = "building" =>
              deps[t] \subseteq Built
<1>1. PICK n \in Nat :
        /\ status' = [t \in Tokens |-> IF t \in AtLevel(n) THEN "building" ELSE status[t]]
        /\ level' = n /\ phase' = "levels" /\ phase \in {"new", "levels"}
        /\ UNCHANGED <<deps, callbacks, stopOrder, late>>
        /\ \A t \in AtLevel(n) : status[t] = "absent"
        /\ \A t \in Eager : Level(t) < n => status[t] = "built"
  <2>1. CASE Start
    <3>1. /\ level = 0 /\ \A t \in Eager : status[t] = "absent"
      BY <2>1 DEF Start, StopInv, EagerByLevel
    <3>2. \A t \in Eager : ~(Level(t) < 0)
      BY LevelRises DEF ReadyInv
    <3>3. 0 \in Nat /\ level' = 0
      BY <2>1, <3>1 DEF Start
    <3> QED
      BY <2>1, <3>1, <3>2, <3>3 DEF Start, Resolving, AtLevel
  <2>2. CASE NextLevel
    <3>1. /\ phase = "levels" /\ level \in Nat /\ level' = level + 1 /\ Resolving(level + 1)
          /\ UNCHANGED <<deps, phase, callbacks, stopOrder, late>>
          /\ \A t \in AtLevel(level) : status[t] = "built"
          /\ \A t \in Eager : status[t] # "absent" => \E i \in 0..level : t \in AtLevel(i)
          /\ \A t \in Eager : Level(t) < level => status[t] = "built"
      BY <2>2 DEF NextLevel, Settled, Failed, StopInv, EagerByLevel, ReadyInv, LevelsDone
    <3>2. \A t \in AtLevel(level + 1) : t \in Eager /\ status[t] = "absent"
      BY <3>1 DEF AtLevel
    <3>3. ASSUME NEW t \in Eager, Level(t) < level + 1 PROVE status[t] = "built"
      <4>1. Level(t) \in Nat
        BY LevelRises DEF ReadyInv
      <4>2. Level(t) < level \/ Level(t) = level
        BY <3>1, <3>3, <4>1
      <4> QED
        BY <3>1, <4>2 DEF AtLevel
    <3>4. level + 1 \in Nat
      BY <3>1
    <3> QED
      BY <3>1, <3>2, <3>3, <3>4 DEF Resolving
  <2> QED
    BY <2>1, <2>2
<1>2. /\ status \in [Tokens -> Statuses] /\ Eager \subseteq Tokens
  BY EagerOrLazy DEF StopInv, StateTypeOK
<1>3. \A t \in AtLevel(n) : deps[t] \subseteq Built
  <2> TAKE t \in AtLevel(n)
  <2>1. t \in Eager /\ Level(t) = n
    BY DEF AtLevel
  <2>2. \A d \in deps[t] : d \in Eager /\ Level(d) < n
    BY <2>1, LevelRises DEF ReadyInv
  <2> QED
    BY <1>1, <1>2, <2>2 DEF Built
<1>4. LevelsDone'
  <2>1. /\ Eager' = Eager /\ \A t : Level(t)' = Level(t)
    BY <1>1, SameGraph, NeedsFixed
  <2>2. AtLevel(level)' = AtLevel(n)
    BY <1>1, <2>1 DEF AtLevel
  <2>3. \A t \in Eager : Level(t) < n => status'[t] = "built"
    <3> TAKE t \in Eager
    <3>1. Level(t) \in Nat
      BY LevelRises DEF ReadyInv
    <3>2. Level(t) < n => t \notin AtLevel(n)
      BY <3>1 DEF AtLevel
    <3> QED
      BY <1>1, <1>2, <3>2
  <2>4. \A t \in AtLevel(n) : status'[t] # "absent"
    BY <1>1, <1>2 DEF AtLevel
  <2> QED
    BY <1>1, <2>1, <2>2, <2>3, <2>4 DEF LevelsDone
<1>5. /\ status' \in [Tokens -> Statuses]
      /\ \A u \in Tokens : status[u] = "built" => status'[u] = "built"
      /\ \A u \in Tokens : status'[u] \in {"building", "built"} =>
            status[u] \in {"building", "built"} \/ deps[u] \subseteq Built
      /\ \A u \in Tokens : status[u] # "building" /\ status'[u] = "building" =>
            deps[u] \subseteq Built
  BY <1>1, <1>2, <1>3 DEF Statuses
<1> QED
  BY <1>1, <1>4, <1>5, StillReady

\* A token is built, and registered if it is managed.
LEMMA ReadyBuilt ==
  ASSUME StopInv, ReadyInv, NEW t \in Tokens, status[t] = "building",
         status' = [status EXCEPT ![t] = "built"],
         callbacks' = callbacks \/ callbacks' = Append(callbacks, t),
         UNCHANGED <<deps, late>>, late \/ Descending(stopOrder'), LevelsDone'
  PROVE  ReadyInv'
<1>1. /\ Tokens' = Tokens /\ \A u : Needs(u)' = Needs(u) /\ GraphOK'
  BY SameGraph, NeedsFixed DEF ReadyInv
<1>2. status \in [Tokens -> Statuses]
  BY DEF StopInv, StateTypeOK
<1>3. Built \subseteq Built'
  BY <1>1, <1>2 DEF Built
<1>4. ReadyOK'
  BY <1>1, <1>2, <1>3 DEF ReadyInv, ReadyOK
<1>5. Sorted(callbacks')
  BY ComesLast DEF StopInv, ReadyInv
<1>6. Sorted(callbacks)' /\ (late' \/ Descending(stopOrder)')
  BY <1>1, <1>5 DEF Sorted, Descending
<1> QED
  BY <1>1, <1>4, <1>6 DEF ReadyInv

\* A factory of the level settles.
LEMMA ReadyEager ==
  ASSUME StopInv, ReadyInv, NEW t, FactoryResolves(t) \/ FactoryRejects(t)
  PROVE  ReadyInv'
<1>1. /\ t \in Eager /\ t \in Tokens /\ status[t] = "building" /\ phase = "levels"
      /\ t \in AtLevel(level) /\ status \in [Tokens -> Statuses] /\ Eager \subseteq Tokens
      /\ level \in Nat
  BY EagerOrLazy DEF FactoryResolves, FactoryRejects, StopInv, StateTypeOK, EagerByLevel
<1>2. UNCHANGED <<deps, phase, level, stopOrder, late>>
  BY DEF FactoryResolves, FactoryRejects
<1>3. ASSUME NEW s \in {"built", "failed"}, status' = [status EXCEPT ![t] = s] PROVE LevelsDone'
  <2>1. /\ Eager' = Eager /\ \A u : Level(u)' = Level(u) /\ \A n : AtLevel(n)' = AtLevel(n)
        /\ AtLevel(level)' = AtLevel(level)
    BY <1>2, SameGraph, NeedsFixed DEF AtLevel
  <2>2. ~(Level(t) < level)
    BY <1>1 DEF AtLevel
  <2>3. \A u \in Eager : Level(u) < level => status'[u] = "built"
    BY <1>1, <1>3, <2>2 DEF ReadyInv, LevelsDone
  <2>4. \A u \in AtLevel(level) : status'[u] # "absent"
    BY <1>1, <1>3 DEF ReadyInv, LevelsDone, AtLevel
  <2> QED
    BY <1>1, <1>2, <2>1, <2>3, <2>4 DEF LevelsDone
<1>4. CASE FactoryResolves(t)
  <2>1. status' = [status EXCEPT ![t] = "built"]
        /\ (callbacks' = callbacks \/ callbacks' = Append(callbacks, t))
    BY <1>4 DEF FactoryResolves
  <2>2. late \/ Descending(stopOrder')
    BY <1>2 DEF ReadyInv
  <2> QED
    BY <1>1, <1>2, <1>3, <2>1, <2>2, ReadyBuilt
<1>5. CASE FactoryRejects(t)
  <2>1. status' = [status EXCEPT ![t] = "failed"] /\ UNCHANGED callbacks
    BY <1>5 DEF FactoryRejects
  <2>2. /\ status' \in [Tokens -> Statuses]
        /\ \A u \in Tokens : status[u] = "built" => status'[u] = "built"
        /\ \A u \in Tokens : status'[u] \in {"building", "built"} =>
              status[u] \in {"building", "built"}
    BY <1>1, <2>1 DEF Statuses
  <2> QED
    BY <1>2, <1>3, <2>1, <2>2, StillReady
<1> QED
  BY <1>4, <1>5

\* No level is empty below one that is not: where there is none above, all eager
\* bindings are built.
LEMMA AllLevelsDone ==
  ASSUME StopInv, ReadyInv, Resolved
  PROVE  Eager \subseteq Built
<1>1. /\ phase = "levels" /\ AtLevel(level + 1) = {} /\ level \in Nat
      /\ \A t \in AtLevel(level) : status[t] = "built"
      /\ \A t \in Eager : Level(t) < level => status[t] = "built"
  BY DEF Resolved, Settled, Failed, StopInv, EagerByLevel, ReadyInv, LevelsDone
<1>2. \A t \in Eager : /\ Level(t) \in Nat
                       /\ Level(t) > 0 => \E u \in Eager : Level(u) = Level(t) - 1
  BY LevelRises DEF ReadyInv
<1> DEFINE T == {Level(t) : t \in {u \in Eager : Level(u) > level}}
<1>3. T = {}
  <2> SUFFICES ASSUME T # {} PROVE FALSE
    OBVIOUS
  <2>1. T \subseteq Nat
    BY <1>2
  <2>2. \A n \in T : \E t \in Eager : Level(t) = n /\ n > level
    OBVIOUS
  <2>3. \A t \in Eager : Level(t) > level => Level(t) \in T
    OBVIOUS
  <2> HIDE DEF T
  <2>4. PICK n \in T : \A m \in T : n <= m
    BY <2>1, LeastNat
  <2>5. PICK t \in Eager : Level(t) = n /\ n > level
    BY <2>2
  <2>6. PICK u \in Eager : Level(u) = n - 1
    BY <1>1, <1>2, <2>5
  <2>7. n # level + 1
    BY <1>1, <2>5 DEF AtLevel
  <2>8. n - 1 > level /\ n - 1 \in T /\ n \in Nat
    BY <1>1, <2>1, <2>3, <2>5, <2>6, <2>7
  <2> QED
    BY <2>4, <2>8
<1>4. \A t \in Eager : Level(t) < level \/ Level(t) = level
  BY <1>1, <1>2, <1>3
<1>5. \A t \in Eager : t \in Tokens
  BY DEF Eager
<1> QED
  BY <1>1, <1>4, <1>5 DEF AtLevel, Built

\* The array of the cleanups is made.
LEMMA ReadyArray ==
  ASSUME StopInv, ReadyInv, LevelFails \/ Resolved
  PROVE  ReadyInv'
<1>1. /\ UNCHANGED <<deps, status, callbacks, late>>
      /\ Tokens \subseteq AllTokens /\ callbacks \in Seq(Tokens)
  BY DEF LevelFails, Resolved, StopInv, StateTypeOK
<1>2. /\ Tokens' = Tokens /\ Eager' = Eager /\ \A u : Needs(u)' = Needs(u) /\ GraphOK'
      /\ Built' = Built
  BY <1>1, SameGraph, NeedsFixed DEF ReadyInv, Built
<1>3. Descending(stopOrder')
  <2>1. CASE stopOrder' = Reverse(callbacks)
    BY <1>1, <2>1, ReverseDescends DEF ReadyInv, Sorted
  <2>2. CASE stopOrder' = Reverse(Order)
    <3>1. \A i, j \in DOMAIN Order :
            Order[j] \in Tokens /\ Order[i] \in Needs(Order[j]) => i < j
      BY <1>1, OrderIsSorted DEF ReadyInv
    <3>2. Order \in Seq(ToSet(Order))
      BY OrdersAreDisjoint
    <3> QED
      BY <2>2, <3>1, <3>2, ReverseDescends
  <2> QED
    BY <2>1, <2>2 DEF LevelFails, Resolved, CleanupOrder
<1>4. LevelsDone'
  <2>1. CASE LevelFails
    BY <2>1 DEF LevelFails, LevelsDone
  <2>2. CASE Resolved
    BY <1>2, <2>2, AllLevelsDone DEF Resolved, LevelsDone
  <2> QED
    BY <2>1, <2>2
<1>5. ReadyOK' /\ Sorted(callbacks)' /\ Descending(stopOrder)'
  BY <1>1, <1>2, <1>3 DEF ReadyInv, ReadyOK, Sorted, Descending
<1> QED
  BY <1>2, <1>4, <1>5 DEF ReadyInv

\* Where only the phase moves, after the levels.
LEMMA ReadyMoves ==
  ASSUME StopInv, ReadyInv,
         InitializerReturns \/ InitializerThrows \/ Stop
           \/ \E k \in DOMAIN loops : StopLoop(k)
  PROVE  ReadyInv'
<1>1. /\ UNCHANGED <<deps, status, callbacks, stopOrder>>
      /\ phase' \in {"init", "up", "abandon"} => phase \in {"init", "up", "abandon"}
      /\ phase' # "levels"
      /\ status \in [Tokens -> Statuses]
      /\ late' \/ ~late
  <2>1. (loops # <<>> => phase # "levels") /\ status \in [Tokens -> Statuses]
        /\ (late => phase # "init") /\ late \in BOOLEAN
    BY DEF StopInv, StateTypeOK, OrderCovers, LazyInTime
  <2>2. CASE InitializerReturns \/ InitializerThrows \/ Stop
    BY <2>1, <2>2 DEF InitializerReturns, InitializerThrows, Stop
  <2>3. CASE \E k \in DOMAIN loops : StopLoop(k)
    <3>1. loops # <<>>
      BY <2>3
    <3> DEFINE Frame == /\ late' = late /\ UNCHANGED <<deps, status, callbacks, stopOrder>>
                        /\ phase' = phase \/ phase' = "failed"
    <3>2. Frame
      <4>1. ASSUME NEW k \in DOMAIN loops, StopNext(k) PROVE Frame
        BY <4>1 DEF StopNext
      <4>2. ASSUME NEW k \in DOMAIN loops, StopSettles(k) PROVE Frame
        BY <4>2 DEF StopSettles
      <4>3. ASSUME NEW k \in DOMAIN loops, LoopEnds(k) PROVE Frame
        BY <4>3 DEF LoopEnds
      <4> QED
        BY <2>3, <4>1, <4>2, <4>3 DEF StopLoop
    <3> QED
      BY <2>1, <3>1, <3>2
  <2> QED
    BY <2>2, <2>3
<1>3. Tokens' = Tokens /\ Eager' = Eager /\ Built' = Built
  BY <1>1, SameGraph DEF Built
<1>4. LevelsDone'
  BY <1>1, <1>3 DEF ReadyInv, LevelsDone
<1>5. /\ status' \in [Tokens -> Statuses] /\ status' = status
      /\ UNCHANGED <<deps, callbacks, stopOrder>>
  BY <1>1, <1>3
<1> QED
  BY <1>1, <1>4, <1>5, StillReady

\* Lazy tokens: asked for, called, rejected.
LEMMA ReadyLazy ==
  ASSUME StopInv, ReadyInv, NEW t \in Lazy, Resolve(t) \/ LazyCalls(t) \/ LazyRejects(t)
  PROVE  /\ ReadyInv'
         /\ \A u \in Tokens : status[u] # "building" /\ status'[u] = "building" =>
              deps[u] \subseteq Built
<1>1. /\ UNCHANGED <<deps, phase, level, callbacks, stopOrder>>
      /\ status \in [Tokens -> Statuses] /\ t \in Tokens
      /\ phase # "levels"
  BY EagerOrLazy DEF Resolve, LazyCalls, LazyRejects, StopInv, StateTypeOK, LazyInTime
<1>2. /\ status' \in [Tokens -> Statuses]
      /\ \A u \in Tokens : status[u] = "built" => status'[u] = "built"
      /\ \A u \in Tokens : status'[u] \in {"building", "built"} =>
            status[u] = status'[u] \/ deps[u] \subseteq Built
  <2>1. CASE Resolve(t)
    BY <1>1, <2>1 DEF Resolve, Statuses
  <2>2. CASE LazyCalls(t)
    BY <1>1, <2>2 DEF LazyCalls, DepsResolved, Statuses
  <2>3. CASE LazyRejects(t)
    BY <1>1, <2>3 DEF LazyRejects, Statuses
  <2> QED
    BY <2>1, <2>2, <2>3
<1>3. Tokens' = Tokens /\ Eager' = Eager /\ Eager \subseteq Tokens
  BY <1>1, SameGraph, EagerOrLazy DEF StopInv
<1>4. Built \subseteq Built'
  BY <1>2, <1>3 DEF Built
<1>5. LevelsDone'
  BY <1>1, <1>3, <1>4 DEF ReadyInv, LevelsDone
<1>6. late' \/ ~late
  BY DEF Resolve, LazyCalls, LazyRejects
<1>7. /\ \A u \in Tokens : status'[u] \in {"building", "built"} =>
            status[u] \in {"building", "built"} \/ deps[u] \subseteq Built
      /\ \A u \in Tokens : status[u] # "building" /\ status'[u] = "building" =>
            deps[u] \subseteq Built
      /\ UNCHANGED <<deps, callbacks, stopOrder>>
  BY <1>1, <1>2
<1> QED
  BY <1>2, <1>5, <1>6, <1>7, StillReady

\* A lazy token is there: its cleanup comes first.
LEMMA ReadyLazyBuilt ==
  ASSUME StopInv, ReadyInv, NEW t \in Lazy, LazyResolves(t)
  PROVE  ReadyInv'
<1>1. /\ status[t] = "building" /\ status' = [status EXCEPT ![t] = "built"] /\ t \in Tokens
      /\ \/ callbacks' = Append(callbacks, t) /\ stopOrder' = PutFirst(t)
         \/ UNCHANGED <<callbacks, stopOrder>>
      /\ UNCHANGED <<deps, phase, level, late>>
      /\ status \in [Tokens -> Statuses] /\ stopOrder \in Seq(AllTokens)
      /\ Tokens \subseteq AllTokens /\ Managed \subseteq Built
  BY EagerOrLazy DEF LazyResolves, StopInv, StateTypeOK
<1>2. late \/ phase \in {"init", "up"}
  BY <1>1 DEF StopInv, LazyInTime
<1>3. phase # "levels"
  BY <1>1, <1>2 DEF StopInv, LazyInTime
<1>4. /\ Tokens' = Tokens /\ Eager' = Eager /\ Eager \subseteq Tokens
  BY <1>1, SameGraph, EagerOrLazy DEF StopInv
<1>5. Built \subseteq Built'
  BY <1>1, <1>4 DEF Built
<1>6. LevelsDone'
  BY <1>1, <1>3, <1>4, <1>5 DEF ReadyInv, LevelsDone
<1>7. ASSUME ~late, stopOrder' = PutFirst(t) PROVE Descending(stopOrder')
  <2>1. \A u \in ToSet(stopOrder) : u \in Tokens => u \in Built
    BY <1>1, <1>2, <1>7 DEF StopInv, OrderCovers, ReadyInv, LevelsDone, Eager
  <2>2. t \notin Needs(t) /\ \A u \in Built : t \notin Needs(u)
    BY <1>1, ComesLast DEF StopInv, ReadyInv
  <2> DEFINE s == stopOrder
             r == PutFirst(t)
             n == Len(stopOrder)
  <2>3. /\ DOMAIN s = 1..n /\ n \in Nat /\ DOMAIN r = 1..(n + 1) /\ r[1] = t
        /\ \A i \in 1..n : r[i + 1] = s[i]
    <3>1. t \in AllTokens /\ s \in Seq(AllTokens)
      BY <1>1
    <3>2. /\ r \in Seq(AllTokens) /\ Len(r) = n + 1 /\ r[1] = t
          /\ \A i \in 1..n : r[i + 1] = s[i]
      BY <3>1, PutFirstKeeps DEF PutFirst
    <3> QED
      BY <3>1, <3>2
  <2>4. \A i \in 1..n : s[i] \in ToSet(stopOrder)
    BY <2>3 DEF ToSet
  <2>5. Descending(s)
    BY <1>7 DEF ReadyInv
  <2> HIDE DEF s, r, n
  <2>6. \A i \in 1..(n + 1) : i = 1 \/ (i - 1 \in 1..n /\ r[i] = s[i - 1])
    <3> TAKE i \in 1..(n + 1)
    <3>1. i = 1 \/ (i - 1 \in 1..n /\ (i - 1) + 1 = i)
      BY <2>3
    <3> QED
      BY <2>3, <3>1
  <2>7. ASSUME NEW i \in 1..(n + 1), NEW j \in 1..(n + 1), r[j] \in Tokens, r[i] \in Needs(r[j])
        PROVE  j < i
    <3>1. CASE i = 1
      <4>1. r[j] = t \/ r[j] \in Built
        BY <2>1, <2>3, <2>4, <2>6, <2>7
      <4> QED
        BY <2>2, <2>3, <2>7, <3>1, <4>1
    <3>2. CASE i # 1 /\ j = 1
      BY <2>3, <3>2
    <3>3. CASE i # 1 /\ j # 1
      <4>1. /\ i - 1 \in 1..n /\ j - 1 \in 1..n
            /\ s[j - 1] \in Tokens /\ s[i - 1] \in Needs(s[j - 1])
        BY <2>6, <2>7, <3>3
      <4>2. j - 1 < i - 1
        BY <2>3, <2>5, <4>1 DEF Descending
      <4> QED
        BY <2>3, <4>2
    <3> QED
      BY <3>1, <3>2, <3>3
  <2> QED
    BY <1>7, <2>3, <2>7 DEF Descending, r
<1>8. late \/ Descending(stopOrder')
  BY <1>1, <1>7 DEF ReadyInv
<1> QED
  BY <1>1, <1>6, <1>8, ReadyBuilt

\* Only the loop calls cleanups.
LEMMA OnlyTheLoopStops ==
  ASSUME StopInv, [Next]_vars, NEW k \in DOMAIN loops, NEW t \in Tokens,
         loops'[k].calls[t] # loops[k].calls[t]
  PROVE  StopNext(k) /\ t = stopOrder[loops[k].next + 1]
<1>1. loops \in Seq(LoopState)
  BY DEF StopInv, StateTypeOK
<1>2. CASE UNCHANGED loops
  BY <1>2
<1>3. CASE BeginLoop
  BY <1>1, <1>3 DEF BeginLoop
<1>4. ASSUME NEW i \in DOMAIN loops, StopSettles(i) \/ LoopEnds(i) PROVE FALSE
  <2>1. PICK pc : loops' = [loops EXCEPT ![i] = [loops[i] EXCEPT !.pc = pc]]
    BY <1>4 DEF StopSettles, LoopEnds, Loop
  <2>2. loops[i] \in LoopState
    BY <1>1
  <2>3. [loops[i] EXCEPT !.pc = pc].calls = loops[i].calls
    BY <2>2 DEF LoopState
  <2> QED
    BY <1>1, <2>1, <2>3
<1>5. ASSUME NEW i \in DOMAIN loops, StopNext(i)
      PROVE  i = k /\ t = stopOrder[loops[k].next + 1]
  <2>1. loops[i] \in LoopState
    BY <1>1
  <2> DEFINE u == stopOrder[loops[i].next + 1]
  <2>2. PICK l : /\ loops' = [loops EXCEPT ![i] = l]
                 /\ l.calls = loops[i].calls \/ l.calls = [loops[i].calls EXCEPT ![u] = @ + 1]
    <3> DEFINE m == [loops[i] EXCEPT !.pc = "awaiting", !.next = @ + 1, !.calls[u] = @ + 1]
               n == [loops[i] EXCEPT !.next = @ + 1]
    <3>1. loops' = [loops EXCEPT ![i] = m] \/ loops' = [loops EXCEPT ![i] = n]
      BY <1>5 DEF StopNext, Loop
    <3> HIDE DEF u
    <3>2. m.calls = [loops[i].calls EXCEPT ![u] = @ + 1] /\ n.calls = loops[i].calls
      BY <2>1 DEF LoopState
    <3> QED
      BY <3>1, <3>2
  <2>3. i = k
    BY <1>1, <2>2
  <2>4. loops'[k] = l /\ loops[k].calls \in [Tokens -> Nat]
    BY <1>1, <2>1, <2>2, <2>3 DEF LoopState
  <2> HIDE DEF u
  <2>5. t = u
    BY <2>2, <2>3, <2>4
  <2> QED
    BY <2>3, <2>5 DEF u
<1> QED
  BY <1>2, <1>3, <1>4, <1>5
     DEF Next, Run, StopLoop, vars, Start, FactoryResolves, FactoryRejects, NextLevel,
         LevelFails, Resolved, InitializerReturns, InitializerThrows, Resolve, LazyCalls,
         LazyResolves, LazyRejects, Stop, Over

\* A factory is called as its level begins, or when its token has been asked for.
LEMMA WhoBuilds ==
  ASSUME StopInv, [Next]_vars, NEW t \in Tokens, status[t] # "building", status'[t] = "building"
  PROVE  \/ t \in Eager /\ phase \in {"new", "levels"}
         \/ t \in Lazy /\ status[t] = "expanding"
<1>1. status \in [Tokens -> Statuses]
  BY DEF StopInv, StateTypeOK
<1>2. CASE Start \/ NextLevel
  BY <1>1, <1>2 DEF Start, NextLevel, Resolving, AtLevel
<1>3. ASSUME NEW u, FactoryResolves(u) \/ FactoryRejects(u) PROVE FALSE
  BY <1>1, <1>3 DEF FactoryResolves, FactoryRejects
<1>4. ASSUME NEW u \in Lazy, LazyCalls(u) \/ LazyResolves(u) \/ LazyRejects(u)
      PROVE  t \in Lazy /\ status[t] = "expanding"
  BY <1>1, <1>4 DEF LazyCalls, LazyResolves, LazyRejects
<1>5. ASSUME NEW u \in Lazy, Resolve(u) PROVE FALSE
  BY <1>1, <1>5 DEF Resolve
<1>6. CASE UNCHANGED status
  BY <1>6
<1> QED
  BY <1>2, <1>3, <1>4, <1>5, <1>6
     DEF Next, Run, vars, LevelFails, Resolved, InitializerReturns, InitializerThrows,
         StopLoop, StopNext, StopSettles, LoopEnds, Stop, Over

\* At first no factory has been called.
LEMMA ReadyBegins == Init => ReadyInv
<1> SUFFICES ASSUME Init PROVE ReadyInv
  OBVIOUS
<1>1. GraphOK
  <2>1. deps \in [Tokens -> SUBSET Tokens]
    BY DEF Init, Tokens
  <2> QED
    BY <2>1 DEF Init, GraphOK
<1>2. ReadyOK /\ LevelsDone
  BY DEF Init, ReadyOK, LevelsDone
<1>3. Sorted(callbacks) /\ Descending(stopOrder)
  BY DEF Init, Sorted, Descending
<1> QED
  BY <1>1, <1>2, <1>3 DEF ReadyInv

\* The invariant is inductive, and a factory is called only when what it depends on
\* is built.
LEMMA ReadyKept ==
  ASSUME StopInv, ReadyInv, [Next]_vars
  PROVE  /\ ReadyInv'
         /\ \A t \in Tokens : status[t] # "building" /\ status'[t] = "building" =>
              deps[t] \subseteq Built
<1>0. status \in [Tokens -> Statuses] /\ Eager \subseteq Tokens /\ Lazy \subseteq Tokens
  BY EagerOrLazy DEF StopInv, StateTypeOK
<1>1. CASE Start \/ NextLevel
  BY <1>1, ReadyLevels
<1>2. ASSUME NEW t \in Eager, FactoryResolves(t) \/ FactoryRejects(t)
      PROVE  /\ ReadyInv'
             /\ \A u \in Tokens : status'[u] = "building" => status[u] = "building"
  <2>1. ReadyInv'
    BY <1>2, ReadyEager
  <2>2. \A u \in Tokens : status'[u] = "building" => status[u] = "building"
    BY <1>0, <1>2 DEF FactoryResolves, FactoryRejects
  <2> QED
    BY <2>1, <2>2
<1>3. CASE LevelFails \/ Resolved
  BY <1>3, ReadyArray DEF LevelFails, Resolved
<1>4. CASE InitializerReturns \/ InitializerThrows \/ Stop
             \/ \E k \in DOMAIN loops : StopLoop(k)
  <2>1. UNCHANGED status
    BY <1>4 DEF InitializerReturns, InitializerThrows, Stop, StopLoop, StopNext, StopSettles,
                LoopEnds
  <2> QED
    BY <1>4, <2>1, ReadyMoves
<1>5. ASSUME NEW t \in Lazy, Resolve(t) \/ LazyCalls(t) \/ LazyRejects(t)
      PROVE  /\ ReadyInv'
             /\ \A u \in Tokens : status[u] # "building" /\ status'[u] = "building" =>
                  deps[u] \subseteq Built
  BY <1>5, ReadyLazy
<1>6. ASSUME NEW t \in Lazy, LazyResolves(t)
      PROVE  /\ ReadyInv'
             /\ \A u \in Tokens : status'[u] = "building" => status[u] = "building"
  <2>1. \A u \in Tokens : status'[u] = "building" => status[u] = "building"
    BY <1>0, <1>6 DEF LazyResolves
  <2> QED
    BY <1>6, <2>1, ReadyLazyBuilt
<1>7. CASE Over \/ UNCHANGED vars
  <2>1. UNCHANGED <<deps, phase, level, status, callbacks, stopOrder, late>>
    BY <1>7 DEF Over, vars
  <2>2. Tokens' = Tokens /\ Eager' = Eager /\ Built' = Built /\ AtLevel(level)' = AtLevel(level)
        /\ \A t : Level(t)' = Level(t)
    BY <2>1, SameGraph, NeedsFixed DEF Built, AtLevel
  <2>3. LevelsDone'
    BY <2>1, <2>2 DEF ReadyInv, LevelsDone
  <2>4. late' \/ ~late
    BY <2>1 DEF StopInv, StateTypeOK
  <2>5. status' \in [Tokens -> Statuses]
    BY <1>0, <2>1
  <2> QED
    BY <2>1, <2>3, <2>4, <2>5, StillReady
<1> QED
  BY <1>1, <1>2, <1>3, <1>4, <1>5, <1>6, <1>7 DEF Next, Run

\* Both invariants hold in every reachable state.
LEMMA AlwaysReady == Spec => [](StopInv /\ ReadyInv)
<1>1. Init => StopInv /\ ReadyInv
  BY StopInvInit, ReadyBegins
<1>2. StopInv /\ ReadyInv /\ [Next]_vars => (StopInv /\ ReadyInv)'
  BY StopMoves, ReadyKept
<1> QED
  BY <1>1, <1>2, PTL DEF Spec

-----------------------------------------------------------------------------
(* The order of factories and cleanups.                                       *)

\* FactoryAfterDeps for every container: a factory is called, at its level or on
\* demand, when everything it needs is built and not shut down (container.ts start,
\* resolved.ts #lazyExpand).
THEOREM FactoriesAfterDeps == Spec => FactoryAfterDeps
<1>1. ASSUME StopInv, ReadyInv, [Next]_vars,
             NEW t \in Tokens, status[t] # "building", status'[t] = "building", NEW d \in Needs(t)
      PROVE  status[d] = "built" /\ (late \/ \A k \in DOMAIN loops : loops[k].calls[d] = 0)
  <2>1. deps[t] \subseteq Built
    BY <1>1, ReadyKept
  <2>2. d \in Tokens /\ status[d] = "built"
    BY <1>1, <2>1, NeedsAreBuilt DEF StopInv, ReadyInv, Built
  <2>3. late \/ loops = <<>>
    BY <1>1, WhoBuilds DEF StopInv, LazyInTime, OrderCovers
  <2> QED
    BY <2>2, <2>3
<1>2. StopInv /\ ReadyInv /\ [Next]_vars =>
        [\A t \in Tokens : status[t] # "building" /\ status'[t] = "building" =>
           \A d \in Needs(t) :
             /\ status[d] = "built"
             /\ late \/ \A k \in DOMAIN loops : loops[k].calls[d] = 0]_vars
  BY <1>1
<1> QED
  BY <1>2, AlwaysReady, PTL DEF Spec, FactoryAfterDeps

\* DependentsFirst for every container: when a stop loop runs a cleanup, it has run
\* those of everything that needs its token (container.ts start, resolved.ts stop).
THEOREM DependentsStopFirst == Spec => DependentsFirst
<1>1. ASSUME StopInv, ReadyInv, [Next]_vars, NEW k \in DOMAIN loops,
             NEW t \in Tokens, NEW u \in Tokens,
             loops'[k].calls[t] # loops[k].calls[t], t \in Needs(u), ~late
      PROVE  (u \in Managed => loops[k].calls[u] > 0) /\ status[u] # "building"
  <2> DEFINE n == loops[k].next
  <2>1. /\ n < Len(stopOrder) /\ t = stopOrder[n + 1]
        /\ n \in Nat /\ stopOrder \in Seq(AllTokens) /\ loops # <<>> /\ LoopOK(loops[k])
    <3>1. loops[k] \in LoopState /\ stopOrder \in Seq(AllTokens) /\ LoopOK(loops[k])
          /\ loops # <<>>
      BY <1>1 DEF StopInv, StateTypeOK, LoopCleans
    <3>2. StopNext(k) /\ t = stopOrder[n + 1]
      BY <1>1, OnlyTheLoopStops
    <3> QED
      BY <3>1, <3>2 DEF StopNext, LoopState
  <2> HIDE DEF n
  <2>2. phase \notin {"new", "levels", "init"}
    BY <1>1, <2>1 DEF StopInv, OrderCovers
  <2>3. status[u] # "building"
    <3>1. u \in Eager \/ u \in Lazy
      BY <1>1 DEF StopInv, StateTypeOK, AllTokens, Eager, Lazy
    <3> QED
      BY <1>1, <2>1, <2>2, <3>1 DEF StopInv, EagerByLevel, LazyInTime
  <2>4. ASSUME u \in Managed PROVE loops[k].calls[u] > 0
    <3>1. u \in ToSet(stopOrder)
      BY <1>1, <2>2, <2>4 DEF StopInv, OrderCovers
    <3>2. PICK j \in DOMAIN stopOrder : stopOrder[j] = u
      BY <3>1 DEF ToSet
    <3>3. n + 1 \in DOMAIN stopOrder
      BY <2>1
    <3>4. j < n + 1
      BY <1>1, <2>1, <3>2, <3>3 DEF ReadyInv, Descending
    <3>5. j \in 1..n
      BY <2>1, <3>2, <3>4
    <3> QED
      BY <1>1, <2>1, <2>4, <3>2, <3>5 DEF LoopOK, n
  <2> QED
    BY <2>3, <2>4
<1>2. StopInv /\ ReadyInv /\ [Next]_vars =>
        [\A k \in DOMAIN loops : \A t, u \in Tokens :
           loops'[k].calls[t] # loops[k].calls[t] /\ t \in Needs(u) /\ ~late =>
             /\ u \in Managed => loops[k].calls[u] > 0
             /\ status[u] # "building"]_vars
  BY <1>1
<1> QED
  BY <1>2, AlwaysReady, PTL DEF Spec, DependentsFirst

-----------------------------------------------------------------------------
(* A depth-first walk over bindings B with dependencies D.                    *)

IsWalk(w) ==
  w = [names |-> w.names, rest |-> w.rest, path |-> w.path, sorted |-> w.sorted,
       cycle |-> w.cycle]

WalkTypeOK(B, w) ==
  /\ IsWalk(w)
  /\ w.names \in Seq(B)
  /\ w.path \in Seq(B) /\ IsInjective(w.path)
  /\ w.sorted \in Seq(B) /\ IsInjective(w.sorted)
  /\ ToSet(w.path) \cap ToSet(w.sorted) = {}
  /\ w.cycle \in Seq(B)
  /\ B \subseteq DOMAIN w.rest

\* Every binding but those of `missed` is yet to be visited, being visited or listed.
Covers(B, w, missed) ==
  B \subseteq ToSet(w.names) \cup ToSet(w.path) \cup ToSet(w.sorted) \cup missed

\* What a call has still to visit is among the dependencies, and all of them before
\* it is called.
RestOK(B, D, w) ==
  \A t \in B : /\ w.rest[t] \subseteq D[t]
               /\ t \notin ToSet(w.path) /\ t \notin ToSet(w.sorted) => w.rest[t] = D[t]

\* The calls on the path have been made for a dependency of the one below.
Linked(D, path) == \A i, j \in DOMAIN path : j = i + 1 => path[j] \in D[path[i]]

\* What a call has visited is listed, is the call it is waiting for, or one of `missed`
\* when it is on top.
Visited(D, w, missed) ==
  \A i \in DOMAIN w.path : \A d \in D[w.path[i]] \ w.rest[w.path[i]] :
    \/ d \in ToSet(w.sorted)
    \/ \E j \in DOMAIN w.path : j = i + 1 /\ w.path[j] = d
    \/ i = Len(w.path) /\ d \in missed

\* What a binding depends on comes before it.
InOrder(D, s) == \A i \in DOMAIN s : \A d \in D[s[i]] : \E j \in DOMAIN s : j < i /\ s[j] = d

WalkOK(B, D, w) ==
  /\ WalkTypeOK(B, w) /\ Covers(B, w, {}) /\ RestOK(B, D, w)
  /\ Linked(D, w.path) /\ InOrder(D, w.sorted)
  /\ IF w.cycle = <<>> THEN Visited(D, w, {}) ELSE IsCycle(w.cycle, D)

\* The walk when it calls visit(name).
Visiting(B, D, w, name) ==
  /\ WalkTypeOK(B, w) /\ Covers(B, w, {name}) /\ RestOK(B, D, w)
  /\ Linked(D, w.path) /\ InOrder(D, w.sorted)
  /\ w.cycle = <<>> /\ Visited(D, w, {name})
  /\ name \in B /\ (w.path # <<>> => name \in D[Last(w.path)])

\* A walk begins.
LEMMA WalkBegins ==
  ASSUME NEW B, NEW names \in Seq(B), B \subseteq ToSet(names), NEW D, B \subseteq DOMAIN D
  PROVE  WalkOK(B, D, Begin(names, D))
<1> DEFINE w == Begin(names, D)
<1>1. /\ IsWalk(w) /\ w.names = names /\ w.rest = D /\ w.path = <<>>
      /\ w.sorted = <<>> /\ w.cycle = <<>>
  BY DEF Begin, IsWalk
<1>2. <<>> \in Seq(B) /\ IsInjective(<<>>) /\ ToSet(<<>>) = {} /\ DOMAIN <<>> = {}
  BY DEF IsInjective, ToSet
<1> HIDE DEF w
<1>3. WalkTypeOK(B, w)
  BY <1>1, <1>2 DEF WalkTypeOK
<1>4. Covers(B, w, {}) /\ RestOK(B, D, w)
  BY <1>1, <1>2 DEF Covers, RestOK
<1>5. Linked(D, w.path) /\ InOrder(D, w.sorted) /\ Visited(D, w, {})
  BY <1>1, <1>2 DEF Linked, InOrder, Visited
<1>6. WalkOK(B, D, w)
  BY <1>1, <1>3, <1>4, <1>5 DEF WalkOK
<1> QED
  BY <1>6 DEF w

\* What is at the places of a sequence that grows or shrinks at its end.
LEMMA PathGrows ==
  ASSUME NEW B, NEW s \in Seq(B), NEW e \in B
  PROVE  /\ Append(s, e) \in Seq(B) /\ Len(s) \in Nat
         /\ DOMAIN s = 1..Len(s) /\ DOMAIN Append(s, e) = 1..(Len(s) + 1)
         /\ Append(s, e)[Len(s) + 1] = e /\ \A i \in 1..Len(s) : Append(s, e)[i] = s[i]
         /\ ToSet(Append(s, e)) = ToSet(s) \cup {e}
BY AppendKeeps

\* What is left of a sequence without its last member.
LEMMA PathShrinks ==
  ASSUME NEW B, NEW s \in Seq(B), s # <<>>
  PROVE  /\ Front(s) \in Seq(B) /\ Last(s) \in B /\ Len(s) \in Nat \ {0}
         /\ DOMAIN s = 1..Len(s) /\ DOMAIN Front(s) = 1..(Len(s) - 1)
         /\ Last(s) = s[Len(s)] /\ \A i \in 1..(Len(s) - 1) : Front(s)[i] = s[i]
         /\ ToSet(s) = ToSet(Front(s)) \cup {Last(s)}
         /\ IsInjective(s) => IsInjective(Front(s)) /\ Last(s) \notin ToSet(Front(s))
<1> DEFINE n == Len(s)
           f == SubSeq(s, 1, n - 1)
<1>1. n \in Nat \ {0} /\ DOMAIN s = 1..n /\ s[n] \in B /\ \A i \in 1..n : s[i] \in B
  BY LenProperties, EmptySeq
<1>2. f \in Seq(B) /\ Len(f) = n - 1 /\ DOMAIN f = 1..(n - 1) /\ \A i \in 1..(n - 1) : f[i] = s[i]
  BY <1>1
<1>3. f = Front(s) /\ Last(s) = s[n]
  BY DEF Front, Last
<1> HIDE DEF f
<1>4. ToSet(s) = ToSet(f) \cup {s[n]}
  BY <1>1, <1>2 DEF ToSet
<1>5. IsInjective(s) => IsInjective(f) /\ s[n] \notin ToSet(f)
  BY <1>1, <1>2 DEF ToSet, IsInjective
<1> QED
  BY <1>1, <1>2, <1>3, <1>4, <1>5

\* A call that comes upon a binding that is being visited has found a cycle.
LEMMA CycleFound ==
  ASSUME NEW B, NEW path \in Seq(B), NEW D, Linked(D, path),
         NEW name \in ToSet(path), name \in D[Last(path)]
  PROVE  /\ IsCycle(CycleFrom(path, name), D) /\ CycleFrom(path, name) # <<>>
         /\ CycleFrom(path, name) \in Seq(B)
<1> DEFINE n == Len(path)
           S == {i \in DOMAIN path : path[i] = name}
           m == Min(S)
           part == SubSeq(path, m, n)
           cycle == Append(part, name)
<1>1. n \in Nat /\ DOMAIN path = 1..n /\ S # {} /\ S \subseteq Nat
  BY DEF ToSet
<1>2. m \in S
  <2>1. \E i \in S : \A j \in S : i <= j
    BY <1>1, LeastNat
  <2> HIDE DEF S
  <2> QED
    BY <2>1 DEF Min
<1> HIDE DEF m
<1>3. m \in 1..n /\ path[m] = name
  BY <1>1, <1>2
<1>4. /\ part \in Seq(B) /\ Len(part) = n - m + 1
      /\ \A i \in 1..(n - m + 1) : part[i] = path[m + i - 1]
  BY <1>1, <1>3
<1>5. name \in B
  BY <1>1, <1>3
<1> DEFINE k == n - m + 1
<1>6. k \in Nat /\ k >= 1
  BY <1>1, <1>3
<1> HIDE DEF part
<1>7. /\ cycle \in Seq(B) /\ Len(cycle) = k + 1 /\ cycle[k + 1] = name
      /\ \A i \in 1..k : cycle[i] = path[m + i - 1]
  BY <1>4, <1>5, <1>6
<1> HIDE DEF cycle
<1>8. Head(cycle) = name /\ Last(cycle) = name /\ cycle # <<>>
  <2>1. Head(cycle) = cycle[1] /\ cycle[1] = path[m + 1 - 1] /\ m + 1 - 1 = m
    BY <1>3, <1>6, <1>7
  <2> QED
    BY <1>3, <1>6, <1>7, <2>1 DEF Last
<1>9. ASSUME NEW i \in 1..(Len(cycle) - 1) PROVE cycle[i + 1] \in D[cycle[i]]
  <2>1. i \in 1..k
    BY <1>6, <1>7
  <2>2. CASE i = k
    <3>1. cycle[i] = path[n] /\ cycle[i + 1] = name
      BY <1>1, <1>3, <1>6, <1>7, <2>2
    <3> QED
      BY <3>1 DEF Last
  <2>3. CASE i # k
    <3>1. i \in 1..k /\ i + 1 \in 1..k
      BY <1>6, <2>1, <2>3
    <3>2. cycle[i] = path[m + i - 1] /\ cycle[i + 1] = path[m + (i + 1) - 1]
      BY <1>7, <3>1
    <3>3. /\ m + i - 1 \in 1..n /\ m + (i + 1) - 1 \in 1..n
          /\ m + (i + 1) - 1 = (m + i - 1) + 1
      BY <1>1, <1>3, <3>1
    <3> QED
      BY <1>1, <3>2, <3>3 DEF Linked
  <2> QED
    BY <2>2, <2>3
<1>10. IsCycle(cycle, D)
  BY <1>6, <1>7, <1>8, <1>9 DEF IsCycle
<1> QED
  BY <1>7, <1>8, <1>10 DEF cycle, part, m, CycleFrom

\* Changing one field of a walk leaves the others.
LEMMA WalkFields ==
  ASSUME NEW w, IsWalk(w)
  PROVE  /\ \A c : LET v == [w EXCEPT !.cycle = c] IN
              /\ v.names = w.names /\ v.rest = w.rest /\ v.path = w.path
              /\ v.sorted = w.sorted /\ v.cycle = c
              /\ IsWalk(v)
         /\ \A p : LET v == [w EXCEPT !.path = p] IN
              /\ v.names = w.names /\ v.rest = w.rest /\ v.path = p
              /\ v.sorted = w.sorted /\ v.cycle = w.cycle
              /\ IsWalk(v)
         /\ \A p : LET v == [w EXCEPT !.names = p] IN
              /\ v.names = p /\ v.rest = w.rest /\ v.path = w.path
              /\ v.sorted = w.sorted /\ v.cycle = w.cycle
              /\ IsWalk(v)
         /\ \A p : LET v == [w EXCEPT !.sorted = p] IN
              /\ v.names = w.names /\ v.rest = w.rest /\ v.path = w.path
              /\ v.sorted = p /\ v.cycle = w.cycle
              /\ IsWalk(v)
         /\ \A p : LET v == [w EXCEPT !.rest = p] IN
              /\ v.names = w.names /\ v.rest = p /\ v.path = w.path
              /\ v.sorted = w.sorted /\ v.cycle = w.cycle
              /\ IsWalk(v)
BY DEF IsWalk

\* visit(name) keeps the walk right, whatever the binding's state is.
LEMMA VisitKeeps ==
  ASSUME NEW B, NEW D, NEW w, NEW name, Visiting(B, D, w, name)
  PROVE  WalkOK(B, D, Visit(w, name))
<1>1. /\ WalkTypeOK(B, w) /\ Covers(B, w, {name}) /\ RestOK(B, D, w)
      /\ Linked(D, w.path) /\ InOrder(D, w.sorted)
      /\ w.cycle = <<>> /\ Visited(D, w, {name})
      /\ name \in B /\ (w.path # <<>> => name \in D[Last(w.path)])
  BY DEF Visiting
<1>2. CASE name \in ToSet(w.sorted)
  <2>1. Visit(w, name) = w
    BY <1>2 DEF Visit
  <2>2. Covers(B, w, {})
    BY <1>1, <1>2 DEF Covers
  <2>3. Visited(D, w, {})
    BY <1>1, <1>2 DEF Visited
  <2> QED
    BY <1>1, <2>1, <2>2, <2>3 DEF WalkOK
<1>3. CASE name \notin ToSet(w.sorted) /\ name \in ToSet(w.path)
  <2> DEFINE c == CycleFrom(w.path, name)
             v == [w EXCEPT !.cycle = c]
  <2>1. Visit(w, name) = v
    BY <1>3 DEF Visit
  <2>2. /\ v.names = w.names /\ v.rest = w.rest /\ v.path = w.path
        /\ v.sorted = w.sorted /\ v.cycle = c
        /\ IsWalk(v)
    BY <1>1, WalkFields DEF WalkTypeOK
  <2>3. IsCycle(c, D) /\ c # <<>> /\ c \in Seq(B)
    <3>1. w.path # <<>> /\ w.path \in Seq(B)
      BY <1>1, <1>3 DEF ToSet, WalkTypeOK
    <3> QED
      BY <1>1, <1>3, <3>1, CycleFound
  <2> HIDE DEF v, c
  <2>4. WalkTypeOK(B, v)
    BY <1>1, <2>2, <2>3 DEF WalkTypeOK
  <2>5. Covers(B, v, {}) /\ RestOK(B, D, v)
    BY <1>1, <1>3, <2>2 DEF Covers, RestOK
  <2> QED
    BY <1>1, <2>1, <2>2, <2>3, <2>4, <2>5 DEF WalkOK
<1>4. CASE name \notin ToSet(w.sorted) /\ name \notin ToSet(w.path)
  <2> DEFINE p == w.path
             n == Len(p)
             q == Append(p, name)
             v == [w EXCEPT !.path = q]
  <2>1. Visit(w, name) = v
    BY <1>4 DEF Visit
  <2>2. /\ v.names = w.names /\ v.rest = w.rest /\ v.path = q
        /\ v.sorted = w.sorted /\ v.cycle = w.cycle
        /\ IsWalk(v)
    BY <1>1, WalkFields DEF WalkTypeOK
  <2>3. p \in Seq(B) /\ IsInjective(p)
    BY <1>1 DEF WalkTypeOK
  <2>4. /\ q \in Seq(B) /\ n \in Nat /\ DOMAIN p = 1..n /\ DOMAIN q = 1..(n + 1)
        /\ q[n + 1] = name /\ \A i \in 1..n : q[i] = p[i]
        /\ ToSet(q) = ToSet(p) \cup {name}
    BY <1>1, <2>3, PathGrows
  <2>5. IsInjective(q)
    BY <1>1, <1>4, <2>3, AppendKeeps
  <2>6. n # 0 => p # <<>> /\ Last(p) = p[n]
    BY <2>3 DEF Last
  <2> HIDE DEF v, q
  <2>7. WalkTypeOK(B, v)
    BY <1>1, <1>4, <2>2, <2>4, <2>5 DEF WalkTypeOK
  <2>8. Covers(B, v, {}) /\ RestOK(B, D, v)
    BY <1>1, <2>2, <2>4 DEF Covers, RestOK
  <2>9. Linked(D, q)
    <3>1. ASSUME NEW i \in DOMAIN q, NEW j \in DOMAIN q, j = i + 1 PROVE q[j] \in D[q[i]]
      <4>1. CASE j \in 1..n
        <5>1. i \in DOMAIN p /\ j \in DOMAIN p /\ q[i] = p[i] /\ q[j] = p[j]
          BY <2>4, <3>1, <4>1
        <5> QED
          BY <1>1, <3>1, <5>1 DEF Linked
      <4>2. CASE j = n + 1
        <5>1. i = n /\ n # 0 /\ q[i] = p[n] /\ q[j] = name
          BY <2>4, <3>1, <4>2
        <5> QED
          BY <1>1, <2>6, <5>1
      <4> QED
        BY <2>4, <4>1, <4>2
    <3> QED
      BY <3>1 DEF Linked
  <2>10. Visited(D, v, {})
    <3> SUFFICES ASSUME NEW i \in DOMAIN q, NEW d \in D[q[i]] \ w.rest[q[i]]
                 PROVE  d \in ToSet(w.sorted) \/ \E j \in DOMAIN q : j = i + 1 /\ q[j] = d
      BY <2>2 DEF Visited
    <3>1. CASE i = n + 1
      <4>1. q[i] = name /\ D[name] = w.rest[name]
        BY <1>1, <1>4, <2>4, <3>1 DEF RestOK
      <4> QED
        BY <4>1
    <3>2. CASE i \in 1..n
      <4>1. i \in DOMAIN p /\ q[i] = p[i]
        BY <2>4, <3>2
      <4>2. \/ d \in ToSet(w.sorted)
            \/ \E j \in DOMAIN p : j = i + 1 /\ p[j] = d
            \/ i = n /\ d = name
        BY <1>1, <4>1 DEF Visited
      <4> QED
        BY <2>4, <4>2
    <3> QED
      BY <2>4, <3>1, <3>2
  <2> QED
    BY <1>1, <2>1, <2>2, <2>7, <2>8, <2>9, <2>10 DEF WalkOK
<1> QED
  BY <1>2, <1>3, <1>4

\* The outer loop calls visit() for the next binding.
LEMMA NextVisited ==
  ASSUME NEW B, NEW D, NEW w, WalkOK(B, D, w), w.cycle = <<>>, w.path = <<>>, w.names # <<>>
  PROVE  WalkOK(B, D, VisitNext(w))
<1> DEFINE name == Head(w.names)
           v == [w EXCEPT !.names = Tail(w.names)]
<1>1. /\ WalkTypeOK(B, w) /\ Covers(B, w, {}) /\ RestOK(B, D, w)
      /\ Linked(D, w.path) /\ InOrder(D, w.sorted) /\ Visited(D, w, {})
  BY DEF WalkOK
<1>2. /\ v.names = Tail(w.names) /\ v.rest = w.rest /\ v.path = w.path
      /\ v.sorted = w.sorted /\ v.cycle = w.cycle
      /\ IsWalk(v)
  BY <1>1, WalkFields DEF WalkTypeOK
<1>3. VisitNext(w) = Visit(v, name)
  BY DEF VisitNext
<1>4. w.names \in Seq(B)
  BY <1>1 DEF WalkTypeOK
<1>5. name \in B /\ Tail(w.names) \in Seq(B)
  BY <1>4
<1>6. ToSet(w.names) = ToSet(Tail(w.names)) \cup {name}
  <2>1. /\ Len(w.names) \in Nat \ {0} /\ DOMAIN w.names = 1..Len(w.names)
        /\ DOMAIN Tail(w.names) = 1..(Len(w.names) - 1) /\ name = w.names[1]
        /\ \A i \in 1..(Len(w.names) - 1) : Tail(w.names)[i] = w.names[i + 1]
    BY <1>4
  <2>2. \A i \in 1..Len(w.names) : i = 1 \/ (i - 1 \in 1..(Len(w.names) - 1) /\ i = (i - 1) + 1)
    BY <2>1
  <2>3. \A i \in 1..(Len(w.names) - 1) : i + 1 \in 1..Len(w.names)
    BY <2>1
  <2> DEFINE s == w.names
             t == Tail(w.names)
  <2>4. ASSUME NEW x \in ToSet(s) PROVE x \in ToSet(t) \cup {name}
    <3>1. PICK i \in 1..Len(s) : s[i] = x
      BY <2>1 DEF ToSet
    <3>2. CASE i = 1
      BY <2>1, <3>1, <3>2
    <3>3. CASE i # 1
      <4>1. i - 1 \in 1..(Len(s) - 1) /\ t[i - 1] = s[i]
        BY <2>1, <2>2, <3>3
      <4> QED
        BY <2>1, <3>1, <4>1 DEF ToSet
    <3> QED
      BY <3>2, <3>3
  <2>5. ASSUME NEW x \in ToSet(t) PROVE x \in ToSet(s)
    <3>1. PICK i \in 1..(Len(s) - 1) : t[i] = x
      BY <2>1 DEF ToSet
    <3>2. i + 1 \in DOMAIN s /\ s[i + 1] = x
      BY <2>1, <2>3, <3>1
    <3> QED
      BY <3>2 DEF ToSet
  <2>6. name \in ToSet(s)
    BY <2>1 DEF ToSet
  <2> QED
    BY <2>4, <2>5, <2>6
<1> HIDE DEF v, name
<1>7. WalkTypeOK(B, v)
  BY <1>1, <1>2, <1>5 DEF WalkTypeOK
<1>8. Covers(B, v, {name}) /\ RestOK(B, D, v)
  BY <1>1, <1>2, <1>6 DEF Covers, RestOK
<1>9. Visited(D, v, {name})
  BY <1>1, <1>2 DEF Visited
<1>10. Visiting(B, D, v, name)
  BY <1>1, <1>2, <1>5, <1>7, <1>8, <1>9 DEF Visiting
<1> QED
  BY <1>3, <1>10, VisitKeeps

\* The binding on top of the path visits a dependency.
LEMMA DepVisited ==
  ASSUME NEW B, NEW D, NEW w, WalkOK(B, D, w), \A t \in B : D[t] \subseteq B,
         w.cycle = <<>>, w.path # <<>>, NEW d \in w.rest[Last(w.path)]
  PROVE  WalkOK(B, D, VisitDep(w, d))
<1> DEFINE top == Last(w.path)
           r == [w.rest EXCEPT ![top] = @ \ {d}]
           v == [w EXCEPT !.rest = r]
<1>1. /\ WalkTypeOK(B, w) /\ Covers(B, w, {}) /\ RestOK(B, D, w)
      /\ Linked(D, w.path) /\ InOrder(D, w.sorted) /\ Visited(D, w, {})
  BY DEF WalkOK
<1>2. /\ v.names = w.names /\ v.rest = r /\ v.path = w.path
      /\ v.sorted = w.sorted /\ v.cycle = w.cycle
      /\ IsWalk(v)
  <2> HIDE DEF r
  <2> QED
    BY <1>1, WalkFields DEF WalkTypeOK
<1>3. VisitDep(w, d) = Visit(v, d)
  <2>1. [w EXCEPT !.rest[top] = @ \ {d}] = v
    BY <1>1 DEF WalkTypeOK, IsWalk
  <2> QED
    BY <2>1 DEF VisitDep
<1>4. /\ w.path \in Seq(B) /\ IsInjective(w.path) /\ B \subseteq DOMAIN w.rest
      /\ ToSet(w.path) \cap ToSet(w.sorted) = {}
  BY <1>1 DEF WalkTypeOK
<1>5. /\ top \in B /\ top = w.path[Len(w.path)] /\ Len(w.path) \in DOMAIN w.path
      /\ top \in ToSet(w.path)
  BY <1>4, PathShrinks DEF ToSet
<1>6. d \in D[top] /\ d \in B
  BY <1>1, <1>5 DEF RestOK
<1>7. /\ DOMAIN r = DOMAIN w.rest /\ r[top] = w.rest[top] \ {d}
      /\ \A t \in DOMAIN w.rest : t # top => r[t] = w.rest[t]
  BY <1>4, <1>5
<1> HIDE DEF v, top, r
<1>8. WalkTypeOK(B, v)
  BY <1>1, <1>2, <1>7 DEF WalkTypeOK
<1>9. Covers(B, v, {d})
  BY <1>1, <1>2 DEF Covers
<1>10. RestOK(B, D, v)
  BY <1>1, <1>2, <1>4, <1>5, <1>7 DEF RestOK
<1>11. Visited(D, v, {d})
  <2> SUFFICES ASSUME NEW i \in DOMAIN w.path, NEW e \in D[w.path[i]] \ r[w.path[i]]
               PROVE  \/ e \in ToSet(w.sorted)
                      \/ \E j \in DOMAIN w.path : j = i + 1 /\ w.path[j] = e
                      \/ i = Len(w.path) /\ e = d
    BY <1>2 DEF Visited
  <2>1. w.path[i] \in B
    BY <1>4
  <2>2. CASE e \notin w.rest[w.path[i]]
    BY <1>1, <2>2 DEF Visited
  <2>3. CASE e \in w.rest[w.path[i]]
    <3>1. w.path[i] = top /\ e = d
      BY <1>4, <1>7, <2>1, <2>3
    <3>2. i = Len(w.path)
      BY <1>4, <1>5, <3>1 DEF IsInjective
    <3> QED
      BY <3>1, <3>2
  <2> QED
    BY <2>2, <2>3
<1>12. Visiting(B, D, v, d)
  BY <1>1, <1>2, <1>6, <1>8, <1>9, <1>10, <1>11 DEF Visiting, top
<1> QED
  BY <1>3, <1>12, VisitKeeps

\* A call returns: its binding is listed, after all it depends on.
LEMMA CallReturns ==
  ASSUME NEW B, NEW D, NEW w, WalkOK(B, D, w), w.cycle = <<>>, w.path # <<>>,
         w.rest[Last(w.path)] = {}
  PROVE  WalkOK(B, D, Return(w))
<1> DEFINE top == Last(w.path)
           p == Front(w.path)
           n == Len(w.path)
           s == Append(w.sorted, top)
           u == [w EXCEPT !.path = p]
           v == [u EXCEPT !.sorted = Append(u.sorted, top)]
<1>1. /\ WalkTypeOK(B, w) /\ Covers(B, w, {}) /\ RestOK(B, D, w)
      /\ Linked(D, w.path) /\ InOrder(D, w.sorted) /\ Visited(D, w, {})
  BY DEF WalkOK
<1>2. /\ w.path \in Seq(B) /\ IsInjective(w.path)
      /\ w.sorted \in Seq(B) /\ IsInjective(w.sorted)
      /\ ToSet(w.path) \cap ToSet(w.sorted) = {}
  BY <1>1 DEF WalkTypeOK
<1>3. /\ p \in Seq(B) /\ top \in B /\ n \in Nat \ {0} /\ DOMAIN w.path = 1..n
      /\ DOMAIN p = 1..(n - 1) /\ top = w.path[n] /\ \A i \in 1..(n - 1) : p[i] = w.path[i]
      /\ ToSet(w.path) = ToSet(p) \cup {top} /\ IsInjective(p) /\ top \notin ToSet(p)
  <2> DEFINE q == w.path
  <2>1. q \in Seq(B) /\ q # <<>> /\ IsInjective(q)
    BY <1>2
  <2> HIDE DEF q
  <2>2. /\ Front(q) \in Seq(B) /\ Last(q) \in B /\ Len(q) \in Nat \ {0} /\ DOMAIN q = 1..Len(q)
        /\ DOMAIN Front(q) = 1..(Len(q) - 1) /\ Last(q) = q[Len(q)]
        /\ \A i \in 1..(Len(q) - 1) : Front(q)[i] = q[i]
        /\ ToSet(q) = ToSet(Front(q)) \cup {Last(q)} /\ IsInjective(Front(q))
        /\ Last(q) \notin ToSet(Front(q))
    BY <2>1, PathShrinks, Zenon
  <2> QED
    BY <2>2 DEF q
<1>4. /\ s \in Seq(B) /\ Len(w.sorted) \in Nat /\ DOMAIN w.sorted = 1..Len(w.sorted)
      /\ DOMAIN s = 1..(Len(w.sorted) + 1) /\ s[Len(w.sorted) + 1] = top
      /\ (\A i \in 1..Len(w.sorted) : s[i] = w.sorted[i])
      /\ ToSet(s) = ToSet(w.sorted) \cup {top}
  BY <1>2, <1>3, PathGrows
<1>5. IsInjective(s)
  <2>1. top \notin ToSet(w.sorted)
    BY <1>2, <1>3
  <2> QED
    BY <1>2, <1>3, <2>1, AppendKeeps
<1>6. Return(w) = v
  BY Zenon DEF Return, Listed
<1>7. /\ v.names = w.names /\ v.rest = w.rest /\ v.path = p
      /\ v.sorted = s /\ v.cycle = w.cycle
      /\ IsWalk(v)
  <2>1. /\ u.names = w.names /\ u.rest = w.rest /\ u.path = p
        /\ u.sorted = w.sorted /\ u.cycle = w.cycle
        /\ IsWalk(u)
    BY <1>1, WalkFields DEF WalkTypeOK
  <2> HIDE DEF u, p
  <2> DEFINE q == Append(u.sorted, top)
  <2>2. q = s
    BY <2>1
  <2>3. v = [u EXCEPT !.sorted = q]
    OBVIOUS
  <2> HIDE DEF v, s, q
  <2>4. v.sorted = q /\ v.names = u.names /\ v.rest = u.rest /\ v.path = u.path
        /\ v.cycle = u.cycle /\ IsWalk(v)
    BY <2>1, <2>3, WalkFields
  <2> QED
    BY <2>1, <2>2, <2>4
<1> HIDE DEF v, u, s, p, top
<1>8. WalkTypeOK(B, v)
  BY <1>1, <1>2, <1>3, <1>4, <1>5, <1>7 DEF WalkTypeOK
<1>9. Covers(B, v, {}) /\ RestOK(B, D, v)
  BY <1>1, <1>3, <1>4, <1>7 DEF Covers, RestOK
<1>10. Linked(D, p)
  BY <1>1, <1>3 DEF Linked
<1>11. \A d \in D[top] : d \in ToSet(w.sorted)
  <2>1. n \in DOMAIN w.path /\ n + 1 \notin DOMAIN w.path /\ w.rest[top] = {}
    BY <1>3 DEF top
  <2>2. \A d \in D[w.path[n]] \ w.rest[w.path[n]] :
          d \in ToSet(w.sorted) \/ \E j \in DOMAIN w.path : j = n + 1 /\ w.path[j] = d
    BY <1>1, <2>1 DEF Visited
  <2> QED
    BY <1>3, <2>1, <2>2
<1>12. InOrder(D, s)
  <2> SUFFICES ASSUME NEW i \in DOMAIN s, NEW d \in D[s[i]]
               PROVE  \E j \in DOMAIN s : j < i /\ s[j] = d
    BY DEF InOrder
  <2>1. CASE i = Len(w.sorted) + 1
    <3>1. d \in ToSet(w.sorted)
      BY <1>4, <1>11, <2>1
    <3>2. PICK j \in 1..Len(w.sorted) : w.sorted[j] = d
      BY <1>4, <3>1 DEF ToSet
    <3> QED
      BY <1>4, <2>1, <3>2
  <2>2. CASE i \in 1..Len(w.sorted)
    <3>1. PICK j \in DOMAIN w.sorted : j < i /\ w.sorted[j] = d
      BY <1>1, <1>4, <2>2 DEF InOrder
    <3> QED
      BY <1>4, <3>1
  <2> QED
    BY <1>4, <2>1, <2>2
<1>13. Visited(D, v, {})
  <2> SUFFICES ASSUME NEW i \in DOMAIN p, NEW d \in D[p[i]] \ w.rest[p[i]]
               PROVE  d \in ToSet(s) \/ \E j \in DOMAIN p : j = i + 1 /\ p[j] = d
    BY <1>7 DEF Visited
  <2>1. i \in DOMAIN w.path /\ p[i] = w.path[i]
    BY <1>3
  <2>2. d \in ToSet(w.sorted) \/ \E j \in DOMAIN w.path : j = i + 1 /\ w.path[j] = d
    BY <1>1, <2>1 DEF Visited
  <2>3. CASE \E j \in DOMAIN w.path : j = i + 1 /\ w.path[j] = d
    BY <1>3, <1>4, <2>3
  <2> QED
    BY <1>4, <2>2, <2>3
<1>14. WalkOK(B, D, v)
  BY <1>1, <1>7, <1>8, <1>9, <1>10, <1>12, <1>13 DEF WalkOK
<1> QED
  BY <1>6, <1>14

\* Whatever a walk over complete bindings does next, it stays right.
LEMMA WalkSteps ==
  ASSUME NEW B, NEW D, NEW w, WalkOK(B, D, w), \A t \in B : D[t] \subseteq B,
         ~Ended(w), NEW v \in Steps(w)
  PROVE  WalkOK(B, D, v)
<1>1. w.cycle = <<>> /\ (w.path = <<>> => w.names # <<>>)
  BY DEF Ended
<1>2. CASE w.path = <<>>
  BY <1>1, <1>2, NextVisited DEF Steps
<1>3. CASE w.path # <<>> /\ w.rest[Last(w.path)] = {}
  BY <1>1, <1>3, CallReturns DEF Steps
<1>4. CASE w.path # <<>> /\ w.rest[Last(w.path)] # {}
  <2>1. PICK d \in w.rest[Last(w.path)] : v = VisitDep(w, d)
    BY <1>4 DEF Steps
  <2> QED
    BY <1>1, <1>4, <2>1, DepVisited
<1> QED
  BY <1>2, <1>3, <1>4

-----------------------------------------------------------------------------
(* What start() has worked out, stage by stage.                               *)

SortStages == {"sorting", "levels", "circular", "planned"}

EarlyStages == {"deferring", "expanding", "linking", "rejected"}

\* The registrations are well formed, what is bound is needed, and when the expansion
\* ends all of it is.
Expansion ==
  /\ provided \in Seq(Names) /\ bound \in Seq(Names) /\ IsInjective(bound)
  /\ needs \in [Names -> SUBSET Names] /\ deferred \in Seq(Registrations)
  /\ ToSet(provided) \subseteq Bound
  /\ stage = "deferring" => bound = provided
  /\ \A S \in SUBSET Names : FactoriesClose(S) => Bound \subseteq S
  /\ stage \notin {"deferring", "expanding", "rejected"} =>
       \A t \in Bound : Expandable(Builder, t) = {}

\* Link rules ask for what is bound, and what is missing is a dependency.
LinksOK ==
  /\ after \in [Names -> SUBSET Bound]
  /\ stage \in EarlyStages => after = [t \in Names |-> {}]
  /\ stage = "missing" => Missing # {}
  /\ stage \in SortStages => Missing = {}

\* The walk of start() is over the bindings and ends before levels are assigned.
SortsOK ==
  /\ stage \in SortStages => WalkOK(Bound, AllDeps, walk)
  /\ stage = "circular" => walk.cycle # <<>>
  /\ stage \in {"levels", "planned"} => Ended(walk) /\ walk.cycle = <<>>

LevelsKnown ==
  nodeLevel = IF stage = "planned"
              THEN [t \in Names |-> IF t \in Bound THEN Levels(walk.sorted, AllDeps)[t] ELSE -1]
              ELSE [t \in Names |-> -1]

\* What manifest() has copied was registered, and is bound unless it was replaced.
CopyOK ==
  /\ seen = [bound |-> seen.bound, factories |-> seen.factories, needs |-> seen.needs,
             after |-> seen.after]
  /\ seen.bound \in Seq(Names) /\ IsInjective(seen.bound)
  /\ seen.needs \in [Names -> SUBSET Names] /\ seen.after \in [Names -> SUBSET Seen]
  /\ seen.factories \subseteq factories
  /\ \A t \in Names : seen.after[t] \subseteq after[t]
  /\ Seen \subseteq Bound \/ (Planned /\ ~NotReplaced)

\* The manifest's walk is over the bindings of the copy, when these have been expanded.
ShownOK ==
  /\ showing \in {"no", "expanding", "sorting"}
  /\ showing = "sorting" =>
       /\ Planned
       /\ \A t \in Seen : Expandable(seen, t) = {}
       /\ WalkOK(Seen, SortableDeps, shown)

PlanInv ==
  /\ stage \in SortStages \cup EarlyStages \cup {"validating", "missing"}
  /\ Expansion /\ LinksOK /\ SortsOK /\ LevelsKnown /\ CopyOK /\ ShownOK

\* The bindings are a list of what is bound.
LEMMA BoundIsTuple ==
  ASSUME NEW s \in Seq(Names)
  PROVE  /\ s \in Seq(ToSet(s)) /\ ToSet(s) \subseteq Names
         /\ DOMAIN s = 1..Len(s) /\ Len(s) \in Nat
         /\ \A i \in DOMAIN s : s[i] \in ToSet(s)
<1>1. Len(s) \in Nat /\ DOMAIN s = 1..Len(s) /\ s \in [1..Len(s) -> Names]
  BY LenProperties
<1>2. s \in [1..Len(s) -> ToSet(s)] /\ ToSet(s) \subseteq Names
  BY <1>1 DEF ToSet
<1>3. s \in Seq(ToSet(s))
  BY <1>1, <1>2, SeqDef
<1> QED
  BY <1>1, <1>2, <1>3

\* What an expansion adds is what a factory can make for something bound.
LEMMA ExpansionAdds ==
  ASSUME NEW b, b.bound \in Seq(Names), NEW s \in Expansions(b)
  PROVE  \E t \in ToSet(b.bound) : \E d \in Expandable(b, t) : s = Append(b.bound, d)
<1>1. PICK i \in DOMAIN b.bound : \E d \in Expandable(b, b.bound[i]) : s = Append(b.bound, d)
  BY DEF Expansions
<1>2. b.bound[i] \in ToSet(b.bound)
  BY <1>1, BoundIsTuple
<1> QED
  BY <1>1, <1>2

\* When no expansion is left, no binding asks for one.
LEMMA ExpansionsEnd ==
  ASSUME NEW b, b.bound \in Seq(Names), Expansions(b) = {}
  PROVE  \A t \in ToSet(b.bound) : Expandable(b, t) = {}
<1> DEFINE s == b.bound
           T == {i \in DOMAIN s : Expandable(b, s[i]) # {}}
<1>1. DOMAIN s = 1..Len(s) /\ Len(s) \in Nat
  BY BoundIsTuple
<1>2. T = {}
  <2> SUFFICES ASSUME T # {} PROVE FALSE
    OBVIOUS
  <2>1. T \subseteq Nat
    BY <1>1
  <2>2. PICK i \in T : \A j \in T : i <= j
    BY <2>1, LeastNat
  <2>3. \A j \in 1..(i - 1) : j \in DOMAIN s /\ ~(i <= j)
    BY <1>1, <2>2
  <2>4. \A j \in 1..(i - 1) : Expandable(b, s[j]) = {}
    BY <2>2, <2>3
  <2>5. PICK d : d \in Expandable(b, s[i])
    BY <2>2
  <2> DEFINE K == {k \in DOMAIN b.bound : \A j \in 1..(k - 1) : Expandable(b, b.bound[j]) = {}}
             A(k) == {Append(b.bound, e) : e \in Expandable(b, b.bound[k])}
  <2>6. Append(s, d) \in Expansions(b)
    <3>1. Expansions(b) = UNION {A(k) : k \in K}
      BY DEF Expansions
    <3>2. i \in K
      BY <2>2, <2>4
    <3>3. Append(s, d) \in A(i)
      BY <2>5
    <3> HIDE DEF A, K
    <3> QED
      BY <3>1, <3>2, <3>3
  <2> QED
    BY <2>6
<1> QED
  BY <1>2 DEF ToSet

\* The builder as manifest() copies it.
LEMMA BuilderIs ==
  /\ Builder.bound = bound /\ Builder.factories = factories
  /\ Builder.needs = needs /\ Builder.after = after
  /\ Builder = [bound |-> Builder.bound, factories |-> Builder.factories,
                needs |-> Builder.needs, after |-> Builder.after]
  /\ \A t : Expandable(Builder, t) = {d \in needs[t] : d \notin Bound /\ d \in factories}
BY DEF Builder, Expandable, Bound

\* The invariant of the plan holds at first, and every action keeps it.
LEMMA PlanInvInit == PlanInit => PlanInv
<1> SUFFICES ASSUME PlanInit PROVE PlanInv
  OBVIOUS
<1>1. provided \in Seq(Names) /\ IsInjective(provided)
  <2>1. PICK n \in 0..Cardinality(Names) : provided \in [1..n -> Names] /\ IsInjective(provided)
    BY DEF PlanInit
  <2>2. n \in Nat
    OBVIOUS
  <2> QED
    BY <2>1, <2>2, SeqDef
<1>2. deferred \in Seq(Registrations)
  <2>1. PICK n \in 0..MaxDeferred : deferred \in [1..n -> Registrations]
    BY DEF PlanInit, Deferrals
  <2>2. n \in Nat
    OBVIOUS
  <2> QED
    BY <2>1, <2>2, SeqDef
<1>3. /\ stage = "deferring" /\ bound = provided /\ needs \in [Names -> SUBSET Names]
      /\ after = [t \in Names |-> {}] /\ showing = "no" /\ seen = Builder
      /\ nodeLevel = [t \in Names |-> -1]
  BY DEF PlanInit
<1>4. Expansion
  BY <1>1, <1>2, <1>3 DEF Expansion, Bound, FactoriesClose
<1>5. LinksOK
  BY <1>3 DEF LinksOK, SortStages
<1>6. SortsOK /\ ShownOK
  BY <1>3 DEF SortsOK, ShownOK, SortStages
<1>7. LevelsKnown
  BY <1>3 DEF LevelsKnown
<1>8. CopyOK
  <2>1. Seen = Bound
    BY <1>3, BuilderIs DEF Seen, Bound
  <2> QED
    BY <1>1, <1>3, <2>1, BuilderIs DEF CopyOK
<1> QED
  BY <1>3, <1>4, <1>5, <1>6, <1>7, <1>8 DEF PlanInv, EarlyStages

\* What is defined from the bindings stays while they do.
LEMMA SameBindings ==
  ASSUME UNCHANGED <<given, bound, after>>
  PROVE  /\ Bound' = Bound /\ AllDeps' = AllDeps /\ Missing' = Missing /\ Builder' = Builder
         /\ \A t : Expandable(Builder, t)' = Expandable(Builder, t)
         /\ \A S : FactoriesClose(S)' = FactoriesClose(S)
<1>1. /\ bound' = bound /\ after' = after /\ needs' = needs /\ factories' = factories
      /\ provided' = provided
  BY DEF given
<1>2. Bound' = Bound /\ AllDeps' = AllDeps /\ Builder' = Builder
  BY <1>1 DEF Bound, AllDeps, Builder
<1>3. Missing' = Missing
  BY <1>2 DEF Missing
<1>4. \A t : Expandable(Builder, t)' = Expandable(Builder, t)
  BY <1>2 DEF Expandable
<1>5. \A S : FactoriesClose(S)' = FactoriesClose(S)
  BY <1>1 DEF FactoriesClose
<1> QED
  BY <1>2, <1>3, <1>4, <1>5

\* A step of start() on its way keeps what manifest() has copied.
LEMMA CopyKept ==
  ASSUME PlanInv, ~Planned, UNCHANGED manifestVars,
         factories \subseteq factories', Bound \subseteq Bound',
         \A t \in Names : after[t] \subseteq after'[t]
  PROVE  CopyOK' /\ ShownOK'
<1>1. /\ showing' = showing /\ seen' = seen /\ shown' = shown /\ Seen' = Seen
      /\ SortableDeps' = SortableDeps
  BY DEF manifestVars, Seen, SortableDeps, ManifestDeps
<1>2. CopyOK /\ ShownOK
  BY DEF PlanInv
<1>3. Seen \subseteq Bound
  BY <1>2 DEF CopyOK
<1>4. CopyOK'
  <2>1. \A t \in Names : seen'.after[t] \subseteq after'[t]
    BY <1>1, <1>2 DEF CopyOK
  <2>2. seen'.factories \subseteq factories' /\ Seen' \subseteq Bound'
    BY <1>1, <1>2, <1>3 DEF CopyOK
  <2> QED
    BY <1>1, <1>2, <2>1, <2>2 DEF CopyOK
<1>5. ShownOK'
  BY <1>1, <1>2 DEF ShownOK
<1> QED
  BY <1>4, <1>5

\* A deferred function binds a token, unless it is bound.
LEMMA InvDeferredProvides == PlanInv /\ DeferredProvides => PlanInv'
<1> SUFFICES ASSUME PlanInv, DeferredProvides PROVE PlanInv'
  OBVIOUS
<1> DEFINE r == Head(deferred)
<1>1. /\ stage = "deferring" /\ stage' = stage /\ deferred # <<>> /\ deferred' = Tail(deferred)
      /\ UNCHANGED <<factories, links, after, nodeLevel, manifestVars>>
      /\ IF r.token \in Bound THEN UNCHANGED <<provided, bound, needs>>
         ELSE /\ provided' = Append(provided, r.token)
              /\ bound' = Append(bound, r.token)
              /\ needs' = [needs EXCEPT ![r.token] = r.deps]
  BY DEF DeferredProvides
<1>2. Expansion /\ LinksOK /\ LevelsKnown
  BY DEF PlanInv
<1>3. /\ provided \in Seq(Names) /\ IsInjective(provided) /\ bound = provided
      /\ needs \in [Names -> SUBSET Names] /\ deferred \in Seq(Registrations)
  BY <1>1, <1>2 DEF Expansion
<1>4. r \in Registrations /\ deferred' \in Seq(Registrations)
  BY <1>1, <1>3
<1>5. r.token \in Names /\ r.deps \in SUBSET Names
  BY <1>4 DEF Registrations
<1> HIDE DEF r
<1>6. /\ provided' \in Seq(Names) /\ IsInjective(provided') /\ bound' = provided'
      /\ needs' \in [Names -> SUBSET Names] /\ Bound \subseteq Bound'
  <2>1. CASE r.token \in Bound
    BY <1>1, <1>3, <2>1 DEF Bound
  <2>2. CASE r.token \notin Bound
    <3>1. /\ Append(bound, r.token) \in Seq(Names) /\ IsInjective(Append(bound, r.token))
          /\ ToSet(Append(bound, r.token)) = ToSet(bound) \cup {r.token}
      BY <1>3, <1>5, <2>2, AppendKeeps DEF Bound
    <3>2. needs' \in [Names -> SUBSET Names]
      BY <1>1, <1>3, <1>5, <2>2
    <3> QED
      BY <1>1, <1>3, <2>2, <3>1, <3>2 DEF Bound
  <2> QED
    BY <2>1, <2>2
<1>7. Expansion'
  BY <1>1, <1>4, <1>6 DEF Expansion, Bound, FactoriesClose
<1>8. LinksOK'
  BY <1>1, <1>2, <1>6 DEF LinksOK, SortStages
<1>9. SortsOK' /\ LevelsKnown'
  BY <1>1, <1>2 DEF SortsOK, SortStages, LevelsKnown
<1>10. CopyOK' /\ ShownOK'
  BY <1>1, <1>6, CopyKept DEF Planned
<1> QED
  BY <1>1, <1>7, <1>8, <1>9, <1>10 DEF PlanInv, EarlyStages

\* A deferred function registers a factory, unless its token has one.
LEMMA InvDeferredFactory == PlanInv /\ DeferredFactory => PlanInv'
<1> SUFFICES ASSUME PlanInv, DeferredFactory PROVE PlanInv'
  OBVIOUS
<1> DEFINE r == Head(deferred)
<1>1. /\ stage = "deferring" /\ stage' = stage /\ deferred # <<>> /\ deferred' = Tail(deferred)
      /\ UNCHANGED <<provided, bound, links, after, nodeLevel, manifestVars>>
      /\ factories' = factories \cup {r.token}
      /\ needs' = IF r.token \in Bound \cup factories THEN needs
                  ELSE [needs EXCEPT ![r.token] = r.deps]
  BY DEF DeferredFactory
<1>2. Expansion /\ LinksOK /\ LevelsKnown
  BY DEF PlanInv
<1>3. /\ provided \in Seq(Names) /\ IsInjective(provided) /\ bound = provided
      /\ needs \in [Names -> SUBSET Names] /\ deferred \in Seq(Registrations)
  BY <1>1, <1>2 DEF Expansion
<1>4. r \in Registrations /\ deferred' \in Seq(Registrations)
  BY <1>1, <1>3
<1>5. r.token \in Names /\ r.deps \in SUBSET Names
  BY <1>4 DEF Registrations
<1> HIDE DEF r
<1>6. needs' \in [Names -> SUBSET Names] /\ Bound' = Bound
  BY <1>1, <1>3, <1>5 DEF Bound
<1>7. Expansion'
  BY <1>1, <1>3, <1>4, <1>6 DEF Expansion, Bound, FactoriesClose
<1>8. LinksOK'
  BY <1>1, <1>2, <1>6 DEF LinksOK, SortStages
<1>9. SortsOK' /\ LevelsKnown'
  BY <1>1, <1>2 DEF SortsOK, SortStages, LevelsKnown
<1>10. CopyOK' /\ ShownOK'
  BY <1>1, <1>6, CopyKept DEF Planned
<1> QED
  BY <1>1, <1>7, <1>8, <1>9, <1>10 DEF PlanInv, EarlyStages

\* A binding made for a needed one is needed.
LEMMA InvExpands == PlanInv /\ ExpandBinding => PlanInv'
<1> SUFFICES ASSUME PlanInv, ExpandBinding PROVE PlanInv'
  OBVIOUS
<1>1. /\ stage = "expanding" /\ stage' = stage /\ after' = after
      /\ nodeLevel' = nodeLevel /\ UNCHANGED manifestVars /\ UNCHANGED given
      /\ bound' \in Expansions(Builder)
  BY DEF ExpandBinding
<1>2. Expansion /\ LinksOK /\ LevelsKnown
  BY DEF PlanInv
<1>3. /\ bound \in Seq(Names) /\ needs \in [Names -> SUBSET Names] /\ IsInjective(bound)
      /\ Bound \subseteq Names
  BY <1>2, BoundIsTuple DEF Expansion, Bound
<1>4. PICK t \in Bound : \E d \in Expandable(Builder, t) : bound' = Append(bound, d)
  BY <1>1, <1>3, ExpansionAdds, BuilderIs DEF Bound
<1>5. PICK d \in Expandable(Builder, t) : bound' = Append(bound, d)
  BY <1>4
<1>6. d \in needs[t] /\ d \notin Bound /\ d \in factories /\ d \in Names
  BY <1>3, <1>4, <1>5, BuilderIs
<1>7. bound' \in Seq(Names) /\ IsInjective(bound') /\ Bound' = Bound \cup {d}
  BY <1>3, <1>5, <1>6, AppendKeeps DEF Bound
<1>8. /\ provided' = provided /\ factories' = factories /\ needs' = needs
      /\ deferred' = deferred
  BY <1>1 DEF given
<1>9. Expansion'
  <2>1. ASSUME NEW S \in SUBSET Names, FactoriesClose(S)' PROVE Bound' \subseteq S
    <3>1. FactoriesClose(S)
      BY <1>8, <2>1 DEF FactoriesClose
    <3>2. Bound \subseteq S
      BY <1>2, <3>1 DEF Expansion
    <3>3. d \in S
      BY <1>4, <1>6, <3>1, <3>2 DEF FactoriesClose
    <3> QED
      BY <1>7, <3>2, <3>3
  <2> QED
    BY <1>1, <1>2, <1>7, <1>8, <2>1 DEF Expansion
<1>10. LinksOK'
  BY <1>1, <1>2, <1>7 DEF LinksOK, SortStages
<1>11. SortsOK' /\ LevelsKnown'
  BY <1>1, <1>2 DEF SortsOK, SortStages, LevelsKnown
<1>12. CopyOK' /\ ShownOK'
  BY <1>1, <1>7, <1>8, CopyKept DEF Planned
<1> QED
  BY <1>1, <1>9, <1>10, <1>11, <1>12 DEF PlanInv, EarlyStages

\* A step of start() that leaves the bindings keeps what is known of them.
LEMMA InvKept ==
  ASSUME PlanInv, ~Planned, UNCHANGED <<given, bound, after, manifestVars>>,
         stage' = "deferring" => stage = "deferring",
         \/ stage' \in {"deferring", "expanding", "rejected"}
         \/ stage \notin {"deferring", "expanding", "rejected"}
         \/ \A t \in Bound : Expandable(Builder, t) = {},
         stage' \in EarlyStages => stage \in EarlyStages,
         stage' = "missing" => Missing # {},
         stage' \in SortStages => Missing = {}
  PROVE  Expansion' /\ LinksOK' /\ CopyOK' /\ ShownOK'
<1>1. /\ bound' = bound /\ after' = after /\ needs' = needs /\ provided' = provided
      /\ deferred' = deferred /\ factories' = factories
      /\ Bound' = Bound /\ Missing' = Missing
      /\ \A t : Expandable(Builder, t)' = Expandable(Builder, t)
      /\ \A S : FactoriesClose(S)' = FactoriesClose(S)
  BY SameBindings DEF given
<1>2. Expansion /\ LinksOK
  BY DEF PlanInv
<1>3. Expansion'
  BY <1>1, <1>2 DEF Expansion
<1>4. LinksOK'
  BY <1>1, <1>2 DEF LinksOK
<1>5. CopyOK' /\ ShownOK'
  BY <1>1, CopyKept
<1> QED
  BY <1>3, <1>4, <1>5

\* The deferred functions are done.
LEMMA InvDeferred == PlanInv /\ DeferredDone => PlanInv'
<1> SUFFICES ASSUME PlanInv, DeferredDone PROVE PlanInv'
  OBVIOUS
<1>1. /\ stage = "deferring" /\ stage' = "expanding"
      /\ UNCHANGED <<given, bound, after, walk, nodeLevel, manifestVars>>
  BY DEF DeferredDone
<1>2. Expansion' /\ LinksOK' /\ CopyOK' /\ ShownOK'
  BY <1>1, InvKept DEF SortStages, EarlyStages, Planned
<1>3. SortsOK' /\ LevelsKnown'
  BY <1>1 DEF PlanInv, SortsOK, SortStages, LevelsKnown
<1> QED
  BY <1>1, <1>2, <1>3 DEF PlanInv, EarlyStages

\* Something throws.
LEMMA InvThrows == PlanInv /\ Throws => PlanInv'
<1> SUFFICES ASSUME PlanInv, Throws PROVE PlanInv'
  OBVIOUS
<1>1. /\ stage \in {"deferring", "expanding"} /\ stage' = "rejected"
      /\ UNCHANGED <<given, bound, after, walk, nodeLevel, manifestVars>>
  BY DEF Throws
<1>2. Expansion' /\ LinksOK' /\ CopyOK' /\ ShownOK'
  BY <1>1, InvKept DEF SortStages, EarlyStages, Planned
<1>3. SortsOK' /\ LevelsKnown'
  BY <1>1 DEF PlanInv, SortsOK, SortStages, LevelsKnown
<1> QED
  BY <1>1, <1>2, <1>3 DEF PlanInv, EarlyStages

\* The expansion ends when no binding asks for more.
LEMMA InvExpanded == PlanInv /\ Expanded => PlanInv'
<1> SUFFICES ASSUME PlanInv, Expanded PROVE PlanInv'
  OBVIOUS
<1>1. /\ stage = "expanding" /\ stage' = "linking" /\ Expansions(Builder) = {}
      /\ UNCHANGED <<given, bound, after, walk, nodeLevel, manifestVars>>
  BY DEF Expanded
<1>2. \A t \in Bound : Expandable(Builder, t) = {}
  BY <1>1, ExpansionsEnd, BuilderIs DEF PlanInv, Expansion, Bound
<1>3. Expansion' /\ LinksOK' /\ CopyOK' /\ ShownOK'
  BY <1>1, <1>2, InvKept DEF SortStages, EarlyStages, Planned
<1>4. SortsOK' /\ LevelsKnown'
  BY <1>1 DEF PlanInv, SortsOK, SortStages, LevelsKnown
<1> QED
  BY <1>1, <1>3, <1>4 DEF PlanInv, EarlyStages

\* Link rules add orderings between bindings only.
LEMMA InvLinks == PlanInv /\ ApplyLinkRules => PlanInv'
<1> SUFFICES ASSUME PlanInv, ApplyLinkRules PROVE PlanInv'
  OBVIOUS
<1>1. /\ stage = "linking" /\ stage' = "validating"
      /\ UNCHANGED <<given, bound, walk, nodeLevel, manifestVars>>
      /\ after' = [t \in Names |-> IF t \in Bound THEN LinkedAfter(t) ELSE {}]
  BY DEF ApplyLinkRules
<1>2. Expansion /\ LinksOK
  BY DEF PlanInv
<1>3. /\ bound' = bound /\ Bound' = Bound /\ provided' = provided /\ needs' = needs
      /\ factories' = factories /\ deferred' = deferred
  BY <1>1 DEF given, Bound
<1>4. Expansion'
  <2>1. \A t : Expandable(Builder, t)' = Expandable(Builder, t)
    BY <1>3 DEF Expandable, Builder
  <2>2. \A S : FactoriesClose(S)' = FactoriesClose(S)
    BY <1>3 DEF FactoriesClose
  <2> QED
    BY <1>1, <1>2, <1>3, <2>1, <2>2 DEF Expansion
<1>5. LinksOK'
  <2>1. \A t : LinkedAfter(t) \subseteq Bound
    BY DEF LinkedAfter
  <2>2. after' \in [Names -> SUBSET Bound]
    BY <1>1, <2>1
  <2> QED
    BY <1>1, <1>3, <2>2 DEF LinksOK, SortStages, EarlyStages
<1>6. SortsOK' /\ LevelsKnown'
  BY <1>1 DEF PlanInv, SortsOK, SortStages, LevelsKnown
<1>7. CopyOK' /\ ShownOK'
  <2>1. \A t \in Names : after[t] = {}
    BY <1>1, <1>2 DEF LinksOK, EarlyStages
  <2> QED
    BY <1>1, <1>3, <2>1, CopyKept DEF Planned
<1> QED
  BY <1>1, <1>4, <1>5, <1>6, <1>7 DEF PlanInv

\* start() rejects a builder in which something is missing.
LEMMA InvRejects == PlanInv /\ Reject => PlanInv'
<1> SUFFICES ASSUME PlanInv, Reject PROVE PlanInv'
  OBVIOUS
<1>1. /\ stage = "validating" /\ stage' = "missing" /\ Missing # {}
      /\ UNCHANGED <<given, bound, after, walk, nodeLevel, manifestVars>>
  BY DEF Reject
<1>2. Expansion' /\ LinksOK' /\ CopyOK' /\ ShownOK'
  BY <1>1, InvKept DEF SortStages, EarlyStages, Planned
<1>3. SortsOK' /\ LevelsKnown'
  BY <1>1 DEF PlanInv, SortsOK, SortStages, LevelsKnown
<1> QED
  BY <1>1, <1>2, <1>3 DEF PlanInv

\* Walks of what is bound: no dependency leads out of it.
LEMMA DepsAreBound ==
  ASSUME PlanInv
  PROVE  /\ bound \in Seq(Bound) /\ Bound \subseteq Names /\ Bound \subseteq DOMAIN AllDeps
         /\ Missing = {} => \A t \in Bound : AllDeps[t] \subseteq Bound
<1>1. bound \in Seq(Bound) /\ Bound \subseteq Names
  BY BoundIsTuple DEF PlanInv, Expansion, Bound
<1>2. Bound \subseteq DOMAIN AllDeps
  BY <1>1 DEF AllDeps
<1>3. Missing = {} => \A t \in Bound : AllDeps[t] \subseteq Bound
  BY DEF Missing
<1> QED
  BY <1>1, <1>2, <1>3

\* And of what manifest() has bound.
LEMMA DepsAreSeen ==
  ASSUME PlanInv
  PROVE  /\ seen.bound \in Seq(Seen) /\ Seen \subseteq Names /\ Seen \subseteq DOMAIN SortableDeps
         /\ \A t \in Seen : SortableDeps[t] \subseteq Seen
<1>1. /\ seen.bound \in Seq(Seen) /\ Seen \subseteq Names
      /\ seen.after \in [Names -> SUBSET Seen]
  BY BoundIsTuple DEF PlanInv, CopyOK, Seen
<1>2. DOMAIN SortableDeps = Names
  BY DEF SortableDeps
<1>3. \A t \in Names : SortableDeps[t] = (seen.needs[t] \cap Seen) \cup seen.after[t]
  BY DEF SortableDeps, ManifestDeps
<1> QED
  BY <1>1, <1>2, <1>3

\* The sort begins with everything provided.
LEMMA InvValidates == PlanInv /\ Validate => PlanInv'
<1> SUFFICES ASSUME PlanInv, Validate PROVE PlanInv'
  OBVIOUS
<1>1. /\ stage = "validating" /\ stage' = "sorting" /\ Missing = {}
      /\ walk' = Begin(bound, AllDeps)
      /\ UNCHANGED <<given, bound, after, nodeLevel, manifestVars>>
  BY DEF Validate
<1>2. Expansion' /\ LinksOK' /\ CopyOK' /\ ShownOK'
  BY <1>1, InvKept DEF SortStages, EarlyStages, Planned
<1>3. WalkOK(Bound, AllDeps, walk)'
  <2>1. WalkOK(Bound, AllDeps, walk')
    <3>1. Bound = ToSet(bound)
      BY DEF Bound
    <3> QED
      BY <1>1, <3>1, DepsAreBound, WalkBegins
  <2>2. Bound' = Bound /\ AllDeps' = AllDeps
    BY <1>1, SameBindings
  <2> QED
    BY <2>1, <2>2
<1>4. SortsOK' /\ LevelsKnown'
  BY <1>1, <1>3 DEF PlanInv, SortsOK, SortStages, LevelsKnown
<1> QED
  BY <1>1, <1>2, <1>4 DEF PlanInv, SortStages

\* The sort's walk goes on.
LEMMA InvSorts == PlanInv /\ SortBindings => PlanInv'
<1> SUFFICES ASSUME PlanInv, SortBindings PROVE PlanInv'
  OBVIOUS
<1>1. /\ stage = "sorting" /\ stage' = stage /\ ~Ended(walk) /\ walk' \in Steps(walk)
      /\ UNCHANGED <<given, bound, after, nodeLevel, manifestVars>>
  BY DEF SortBindings
<1>2. Missing = {} /\ WalkOK(Bound, AllDeps, walk)
  BY <1>1 DEF PlanInv, SortsOK, LinksOK, SortStages
<1>3. Expansion' /\ LinksOK' /\ CopyOK' /\ ShownOK'
  BY <1>1, <1>2, InvKept DEF SortStages, EarlyStages, Planned
<1>4. WalkOK(Bound, AllDeps, walk)'
  <2>1. WalkOK(Bound, AllDeps, walk')
    BY <1>1, <1>2, DepsAreBound, WalkSteps
  <2>2. Bound' = Bound /\ AllDeps' = AllDeps
    BY <1>1, SameBindings
  <2> QED
    BY <2>1, <2>2
<1>5. SortsOK' /\ LevelsKnown'
  BY <1>1, <1>4 DEF PlanInv, SortsOK, SortStages, LevelsKnown
<1> QED
  BY <1>1, <1>3, <1>5 DEF PlanInv, SortStages

\* The sort ends with an order or a cycle.
LEMMA InvSorted == PlanInv /\ SortEnds => PlanInv'
<1> SUFFICES ASSUME PlanInv, SortEnds PROVE PlanInv'
  OBVIOUS
<1>1. /\ stage = "sorting" /\ Ended(walk)
      /\ stage' = (IF walk.cycle # <<>> THEN "circular" ELSE "levels")
      /\ UNCHANGED <<given, bound, after, walk, nodeLevel, manifestVars>>
  BY DEF SortEnds
<1>2. Missing = {} /\ WalkOK(Bound, AllDeps, walk)
  BY <1>1 DEF PlanInv, SortsOK, LinksOK, SortStages
<1>3. stage' \in {"circular", "levels"}
  BY <1>1
<1>4. Expansion' /\ LinksOK' /\ CopyOK' /\ ShownOK'
  BY <1>1, <1>2, <1>3, InvKept DEF SortStages, EarlyStages, Planned
<1>5. WalkOK(Bound, AllDeps, walk)' /\ Ended(walk)'
  <2>1. Bound' = Bound /\ AllDeps' = AllDeps /\ walk' = walk
    BY <1>1, SameBindings
  <2>2. Ended(walk') = Ended(walk)
    BY <2>1
  <2> QED
    BY <1>1, <1>2, <2>1, <2>2
<1>6. SortsOK'
  BY <1>1, <1>5 DEF SortsOK, SortStages
<1>7. LevelsKnown'
  BY <1>1, <1>3 DEF PlanInv, LevelsKnown
<1> QED
  BY <1>3, <1>4, <1>6, <1>7 DEF PlanInv, SortStages

\* The levels are assigned.
LEMMA InvLevels == PlanInv /\ AssignLevels => PlanInv'
<1> SUFFICES ASSUME PlanInv, AssignLevels PROVE PlanInv'
  OBVIOUS
<1>1. /\ stage = "levels" /\ stage' = "planned"
      /\ UNCHANGED <<given, bound, after, walk, manifestVars>>
      /\ nodeLevel' = [t \in Names |-> IF t \in Bound THEN Levels(walk.sorted, AllDeps)[t]
                                       ELSE -1]
  BY DEF AssignLevels
<1>2. /\ Missing = {} /\ WalkOK(Bound, AllDeps, walk)
      /\ Ended(walk) /\ walk.cycle = <<>>
  BY <1>1 DEF PlanInv, SortsOK, LinksOK, SortStages
<1>3. Expansion' /\ LinksOK' /\ CopyOK' /\ ShownOK'
  BY <1>1, <1>2, InvKept DEF SortStages, EarlyStages, Planned
<1>4. Bound' = Bound /\ AllDeps' = AllDeps /\ walk' = walk
  BY <1>1, SameBindings
<1>5. WalkOK(Bound, AllDeps, walk)' /\ Ended(walk)'
  BY <1>2, <1>4
<1>6. SortsOK'
  BY <1>1, <1>2, <1>5 DEF SortsOK, SortStages
<1>7. LevelsKnown'
  BY <1>1, <1>4 DEF LevelsKnown
<1> QED
  BY <1>1, <1>3, <1>6, <1>7 DEF PlanInv, SortStages

\* A step of manifest() leaves what start() has worked out.
LEMMA PlanKept ==
  ASSUME PlanInv, UNCHANGED <<given, stage, bound, after, walk, nodeLevel>>
  PROVE  /\ Expansion' /\ LinksOK' /\ SortsOK' /\ LevelsKnown'
         /\ Bound' = Bound /\ Planned' = Planned /\ factories' = factories /\ needs' = needs
         /\ CopyOK' /\ ShownOK' => PlanInv'
<1>1. /\ bound' = bound /\ after' = after /\ needs' = needs /\ provided' = provided
      /\ deferred' = deferred /\ factories' = factories
      /\ Bound' = Bound /\ Missing' = Missing /\ AllDeps' = AllDeps
      /\ \A t : Expandable(Builder, t)' = Expandable(Builder, t)
      /\ \A S : FactoriesClose(S)' = FactoriesClose(S)
  BY SameBindings DEF given
<1>2. Expansion' /\ LinksOK'
  BY <1>1 DEF PlanInv, Expansion, LinksOK
<1>3. LevelsKnown'
  <2>1. Levels(walk.sorted, AllDeps)' = Levels(walk.sorted, AllDeps)
    BY <1>1
  <2> QED
    BY <1>1, <2>1 DEF PlanInv, LevelsKnown
<1>4. SortsOK'
  <2>1. WalkOK(Bound, AllDeps, walk)' = WalkOK(Bound, AllDeps, walk) /\ Ended(walk)' = Ended(walk)
    BY <1>1
  <2> QED
    BY <2>1 DEF PlanInv, SortsOK
<1>5. Planned' = Planned
  BY DEF Planned
<1> QED
  BY <1>1, <1>2, <1>3, <1>4, <1>5 DEF PlanInv

\* manifest() copies what is registered.
LEMMA InvCallsManifest == PlanInv /\ CallManifest => PlanInv'
<1> SUFFICES ASSUME PlanInv, CallManifest PROVE PlanInv'
  OBVIOUS
<1>1. /\ showing' = "expanding" /\ seen' = Builder
      /\ UNCHANGED <<given, stage, bound, after, walk, nodeLevel>>
  BY DEF CallManifest
<1>2. /\ bound \in Seq(Names) /\ IsInjective(bound) /\ needs \in [Names -> SUBSET Names]
      /\ after \in [Names -> SUBSET Bound]
  BY DEF PlanInv, Expansion, LinksOK
<1>3. Seen' = Bound /\ Bound' = Bound /\ factories' = factories /\ after' = after
  BY <1>1, PlanKept, BuilderIs DEF Seen, Bound
<1>4. CopyOK'
  BY <1>1, <1>2, <1>3, BuilderIs DEF CopyOK
<1>5. ShownOK'
  BY <1>1 DEF ShownOK
<1> QED
  BY <1>1, <1>4, <1>5, PlanKept

\* What start() has bound has all it needs of the factories.
LEMMA BoundIsClosed ==
  ASSUME PlanInv, Planned
  PROVE  \A t \in Bound : needs[t] \cap factories \subseteq Bound
BY BuilderIs DEF PlanInv, Expansion, Planned

\* manifest() binds what a factory can make for a binding it has copied or made.
LEMMA InvExpandsManifest == PlanInv /\ ExpandManifest => PlanInv'
<1> SUFFICES ASSUME PlanInv, ExpandManifest PROVE PlanInv'
  OBVIOUS
<1>1. /\ Planned /\ showing = "expanding" /\ showing' = showing
      /\ UNCHANGED <<given, stage, bound, after, walk, nodeLevel>>
  BY DEF ExpandManifest
<1>2. PICK s \in Expansions(seen) : seen' = [seen EXCEPT !.bound = s]
  BY DEF ExpandManifest
<1>3. CopyOK /\ ShownOK
  BY DEF PlanInv
<1>4. /\ seen'.bound = s /\ seen'.factories = seen.factories /\ seen'.needs = seen.needs
      /\ seen'.after = seen.after
      /\ seen' = [bound |-> seen'.bound, factories |-> seen'.factories, needs |-> seen'.needs,
                  after |-> seen'.after]
  <2>1. seen = [bound |-> seen.bound, factories |-> seen.factories, needs |-> seen.needs,
                after |-> seen.after]
    BY <1>3 DEF CopyOK
  <2> QED
    BY ONLY <1>2, <2>1
<1>5. seen.bound \in Seq(Names) /\ IsInjective(seen.bound) /\ Seen \subseteq Names
  BY <1>3, DepsAreSeen DEF CopyOK
<1>6. PICK t \in Seen : \E d \in Expandable(seen, t) : s = Append(seen.bound, d)
  BY <1>2, <1>5, ExpansionAdds DEF Seen
<1>7. PICK d \in Expandable(seen, t) : s = Append(seen.bound, d)
  BY <1>6
<1>8. d \in seen.needs[t] /\ d \notin Seen /\ d \in seen.factories
  BY <1>7 DEF Expandable, Seen
<1>9. d \in Names
  BY <1>3, <1>5, <1>6, <1>8 DEF CopyOK
<1>10. s \in Seq(Names) /\ IsInjective(s) /\ Seen' = Seen \cup {d}
  BY <1>4, <1>5, <1>7, <1>8, <1>9, AppendKeeps DEF Seen
<1>11. Bound' = Bound /\ Planned' /\ factories' = factories /\ needs' = needs /\ after' = after
  BY <1>1, PlanKept
<1>12. ASSUME NotReplaced' PROVE Seen' \subseteq Bound'
  <2>1. \A x \in Seen \cup {d} : seen.needs[x] = needs[x]
    BY <1>4, <1>10, <1>11, <1>12 DEF NotReplaced
  <2>2. Seen \subseteq Bound
    BY <1>3, <2>1 DEF CopyOK, NotReplaced
  <2>3. d \in needs[t] \cap factories /\ t \in Bound
    BY <1>3, <1>6, <1>8, <2>1, <2>2 DEF CopyOK
  <2> QED
    BY <1>1, <1>10, <1>11, <2>2, <2>3, BoundIsClosed
<1>13. CopyOK'
  <2>1. seen'.after \in [Names -> SUBSET Seen']
    BY <1>3, <1>4, <1>10 DEF CopyOK
  <2>2. /\ seen'.needs \in [Names -> SUBSET Names] /\ seen'.factories \subseteq factories'
        /\ \A x \in Names : seen'.after[x] \subseteq after'[x]
    BY <1>3, <1>4, <1>11 DEF CopyOK
  <2> QED
    BY <1>4, <1>10, <1>11, <1>12, <2>1, <2>2 DEF CopyOK
<1>14. ShownOK'
  BY <1>1 DEF ShownOK
<1> QED
  BY <1>1, <1>13, <1>14, PlanKept

\* A step that leaves the copy keeps what is known of it.
LEMMA SeenKept ==
  ASSUME PlanInv, UNCHANGED <<given, stage, bound, after, walk, nodeLevel, seen>>
  PROVE  CopyOK' /\ Seen' = Seen /\ SortableDeps' = SortableDeps
<1>1. Seen' = Seen /\ SortableDeps' = SortableDeps
  BY DEF Seen, SortableDeps, ManifestDeps
<1>2. /\ Bound' = Bound /\ Planned' = Planned /\ factories' = factories /\ after' = after
      /\ needs' = needs
  BY PlanKept
<1>3. NotReplaced' = NotReplaced
  BY <1>1, <1>2 DEF NotReplaced
<1> QED
  BY <1>1, <1>2, <1>3 DEF PlanInv, CopyOK

\* manifest() has bound all that it can, and begins a walk of its own.
LEMMA InvManifestExpanded == PlanInv /\ ManifestExpanded => PlanInv'
<1> SUFFICES ASSUME PlanInv, ManifestExpanded PROVE PlanInv'
  OBVIOUS
<1>1. /\ Planned /\ Expansions(seen) = {} /\ showing' = "sorting"
      /\ shown' = Begin(seen.bound, SortableDeps) /\ seen' = seen
      /\ UNCHANGED <<given, stage, bound, after, walk, nodeLevel>>
  BY DEF ManifestExpanded
<1>2. CopyOK' /\ Seen' = Seen /\ SortableDeps' = SortableDeps
  BY <1>1, SeenKept
<1>3. \A t \in Seen : Expandable(seen, t) = {}
  BY <1>1, ExpansionsEnd DEF PlanInv, CopyOK, Seen
<1>4. WalkOK(Seen, SortableDeps, shown')
  <2>1. Seen = ToSet(seen.bound)
    BY DEF Seen
  <2> QED
    BY <1>1, <2>1, DepsAreSeen, WalkBegins
<1>5. \A t \in Seen' : Expandable(seen', t) = {}
  BY <1>1, <1>2, <1>3
<1>6. Planned'
  BY <1>1, PlanKept
<1>7. ShownOK'
  BY <1>1, <1>2, <1>4, <1>5, <1>6 DEF ShownOK
<1> QED
  BY <1>1, <1>2, <1>7, PlanKept

\* The manifest's walk goes on.
LEMMA InvSortsManifest == PlanInv /\ SortManifest => PlanInv'
<1> SUFFICES ASSUME PlanInv, SortManifest PROVE PlanInv'
  OBVIOUS
<1>1. /\ Planned /\ showing = "sorting" /\ showing' = showing /\ seen' = seen
      /\ ~Ended(shown) /\ shown' \in Steps(shown)
      /\ UNCHANGED <<given, stage, bound, after, walk, nodeLevel>>
  BY DEF SortManifest
<1>2. CopyOK' /\ Seen' = Seen /\ SortableDeps' = SortableDeps
  BY <1>1, SeenKept
<1>3. WalkOK(Seen, SortableDeps, shown) /\ \A t \in Seen : Expandable(seen, t) = {}
  BY <1>1 DEF PlanInv, ShownOK
<1>4. WalkOK(Seen, SortableDeps, shown')
  BY <1>1, <1>3, DepsAreSeen, WalkSteps
<1>5. \A t \in Seen' : Expandable(seen', t) = {}
  BY <1>1, <1>2, <1>3
<1>6. Planned'
  BY <1>1, PlanKept
<1>7. ShownOK'
  BY <1>1, <1>2, <1>4, <1>5, <1>6 DEF ShownOK
<1> QED
  BY <1>1, <1>2, <1>7, PlanKept

\* All of the steps together.
LEMMA PlanMoves == PlanInv /\ [PlanNext]_planVars => PlanInv'
<1> SUFFICES ASSUME PlanInv, [PlanNext]_planVars PROVE PlanInv'
  OBVIOUS
<1>1. CASE UNCHANGED planVars
  <2>1. /\ UNCHANGED <<given, stage, bound, after, walk, nodeLevel, seen>>
        /\ showing' = showing /\ shown' = shown
    BY <1>1 DEF planVars, given, manifestVars
  <2>2. CopyOK' /\ Seen' = Seen /\ SortableDeps' = SortableDeps
    BY <2>1, SeenKept
  <2>3. \A t \in Seen : Expandable(seen, t)' = Expandable(seen, t)
    BY <2>1 DEF Expandable
  <2>4. ShownOK'
    BY <2>1, <2>2, <2>3, PlanKept DEF ShownOK, PlanInv
  <2> QED
    BY <2>1, <2>2, <2>4, PlanKept
<1> QED
  BY <1>1, InvDeferredProvides, InvDeferredFactory, InvDeferred, InvExpands, InvExpanded,
     InvThrows, InvLinks, InvRejects, InvValidates, InvSorts, InvSorted, InvLevels,
     InvCallsManifest, InvExpandsManifest, InvManifestExpanded, InvSortsManifest DEF PlanNext

\* The invariant holds throughout.
LEMMA AlwaysPlanned == PlanSpec => []PlanInv
<1> QED
  BY PlanInvInit, PlanMoves, PTL DEF PlanSpec

-----------------------------------------------------------------------------
(* Expansion and order.                                                       *)

\* What is bound when the expansion has ended is what can be reached.
LEMMA BoundIsReachable ==
  ASSUME PlanInv, stage \notin {"deferring", "expanding", "rejected"}
  PROVE  Bound = Reachable
<1>1. Bound \subseteq Names /\ Expansion
  BY DepsAreBound DEF PlanInv
<1>2. Bound \subseteq Reachable
  BY <1>1 DEF Expansion, Reachable
<1>3. FactoriesClose(Bound)
  <2>1. \A t \in Bound : \A d \in needs[t] \cap factories : d \in Bound
    BY <1>1, BuilderIs DEF Expansion
  <2> QED
    BY <1>1, <2>1 DEF Expansion, FactoriesClose
<1>4. Reachable \subseteq Bound
  BY <1>1, <1>3 DEF Reachable
<1> QED
  BY <1>2, <1>4

\* ExpandsWhatIsNeeded for every builder: factories are expanded into exactly the
\* bindings that are needed, and start() rejects a builder exactly when something needed
\* is missing (container.ts expandFactories, start).
THEOREM ExpansionIsExact == PlanSpec => []ExpandsWhatIsNeeded
<1>1. ASSUME PlanInv PROVE ExpandsWhatIsNeeded
  <2>1. stage \notin {"deferring", "expanding", "rejected"} => Bound = Reachable
    BY <1>1, BoundIsReachable
  <2>2. \A t \in Bound : AllDeps[t] = needs[t] \cup after[t] /\ after[t] \subseteq Bound
    BY <1>1, DepsAreBound DEF AllDeps, PlanInv, LinksOK
  <2>3. stage = "missing" => \E t \in Bound : ~ needs[t] \subseteq Bound
    <3> SUFFICES ASSUME stage = "missing" PROVE \E t \in Bound : ~ needs[t] \subseteq Bound
      OBVIOUS
    <3>1. PICK t \in Bound : \E d \in AllDeps[t] : d \notin Bound
      BY <1>1 DEF PlanInv, LinksOK, Missing
    <3> QED
      BY <2>2, <3>1
  <2>4. stage \in SortStages => \A t \in Bound : needs[t] \subseteq Bound
    BY <1>1, <2>2, DepsAreBound DEF PlanInv, LinksOK
  <2> QED
    BY <2>1, <2>3, <2>4 DEF ExpandsWhatIsNeeded, SortStages
<1> QED
  BY <1>1, AlwaysPlanned, PTL

\* A walk that ends without a cycle has all of the bindings in order.
LEMMA EndIsOrdered ==
  ASSUME NEW B, NEW D, NEW w, WalkOK(B, D, w), Ended(w), w.cycle = <<>>
  PROVE  /\ w.sorted \in Seq(B) /\ IsInjective(w.sorted) /\ ToSet(w.sorted) \subseteq B
         /\ B \subseteq ToSet(w.sorted)
         /\ \A i \in DOMAIN w.sorted : \A d \in D[w.sorted[i]] :
              \E j \in 1..(i - 1) : w.sorted[j] = d
<1>1. w.path = <<>> /\ w.names = <<>>
  BY DEF Ended
<1>2. w.sorted \in Seq(B) /\ IsInjective(w.sorted) /\ InOrder(D, w.sorted)
  BY DEF WalkOK, WalkTypeOK
<1>3. ToSet(<<>>) = {}
  BY DEF ToSet
<1>4. B \subseteq ToSet(w.sorted)
  BY <1>1, <1>3 DEF WalkOK, Covers
<1>5. DOMAIN w.sorted = 1..Len(w.sorted) /\ Len(w.sorted) \in Nat /\ ToSet(w.sorted) \subseteq B
  BY <1>2 DEF ToSet
<1>6. \A i \in DOMAIN w.sorted : \A d \in D[w.sorted[i]] : \E j \in 1..(i - 1) : w.sorted[j] = d
  <2> TAKE i \in DOMAIN w.sorted
  <2> TAKE d \in D[w.sorted[i]]
  <2>1. PICK j \in DOMAIN w.sorted : j < i /\ w.sorted[j] = d
    BY <1>2 DEF InOrder
  <2>2. j \in 1..(i - 1)
    BY <1>5, <2>1
  <2> QED
    BY <2>1, <2>2
<1> QED
  BY <1>2, <1>4, <1>5, <1>6

\* So has that of start().
LEMMA EndIsTopological ==
  ASSUME NEW D, NEW w, WalkOK(Bound, D, w), Ended(w), w.cycle = <<>>
  PROVE  Topological(w.sorted, D) /\ w.sorted \in Seq(Bound)
<1>1. /\ w.sorted \in Seq(Bound) /\ IsInjective(w.sorted) /\ ToSet(w.sorted) \subseteq Bound
      /\ Bound \subseteq ToSet(w.sorted)
      /\ \A i \in DOMAIN w.sorted : \A d \in D[w.sorted[i]] :
           \E j \in 1..(i - 1) : w.sorted[j] = d
  BY EndIsOrdered
<1> QED
  BY <1>1 DEF Topological

\* OrderIsTopological for every builder: the order start() follows lists each binding
\* once, after all it depends on; a start that fails for a cycle names one (topo-sort.ts).
THEOREM SortIsTopological == PlanSpec => []OrderIsTopological
<1>1. ASSUME PlanInv PROVE OrderIsTopological
  <2>1. stage = "planned" => Topological(walk.sorted, AllDeps)
    BY <1>1, EndIsTopological DEF PlanInv, SortsOK, SortStages
  <2>2. stage = "circular" => IsCycle(walk.cycle, AllDeps)
    BY <1>1 DEF PlanInv, SortsOK, SortStages, WalkOK
  <2> QED
    BY <2>1, <2>2 DEF OrderIsTopological
<1> QED
  BY <1>1, AlwaysPlanned, PTL

-----------------------------------------------------------------------------
(* The levels.                                                                *)

\* The equation of nodeLevel along an order, and the function it defines.
PlaceLevel(f, order, D, i) ==
  1 + Max({-1} \cup {IF \E j \in 1..(i - 1) : order[j] = d THEN f[Position(order, d)] ELSE 0 :
                       d \in D[order[i]]})
PlaceLevels(f, order, D, n) == [i \in 1..n |-> PlaceLevel(f, order, D, i)]

\* A name's position is where it is.
LEMMA PositionIs ==
  ASSUME NEW B, NEW order \in Seq(B), IsInjective(order), NEW i \in DOMAIN order
  PROVE  Position(order, order[i]) = i
BY DEF Position, IsInjective

\* A level depends on those at earlier places only.
LEMMA PlaceIsLocal ==
  ASSUME NEW B, NEW order \in Seq(B), IsInjective(order), NEW D, NEW f, NEW g,
         NEW i \in DOMAIN order, \A j \in 1..(i - 1) : f[j] = g[j]
  PROVE  PlaceLevel(f, order, D, i) = PlaceLevel(g, order, D, i)
<1> DEFINE V(h, d) == IF \E j \in 1..(i - 1) : order[j] = d THEN h[Position(order, d)] ELSE 0
<1>1. ASSUME NEW d PROVE V(f, d) = V(g, d)
  <2>1. CASE \E j \in 1..(i - 1) : order[j] = d
    <3>1. PICK j \in 1..(i - 1) : order[j] = d
      BY <2>1
    <3>2. j \in DOMAIN order
      <4>1. DOMAIN order = 1..Len(order) /\ Len(order) \in Nat
        OBVIOUS
      <4> QED
        BY <4>1
    <3>3. Position(order, d) = j
      BY <3>1, <3>2, PositionIs
    <3> QED
      BY <2>1, <3>3
  <2>2. CASE ~ \E j \in 1..(i - 1) : order[j] = d
    BY <2>2
  <2> QED
    BY <2>1, <2>2
<1>2. /\ PlaceLevel(f, order, D, i) = 1 + Max({-1} \cup {V(f, d) : d \in D[order[i]]})
      /\ PlaceLevel(g, order, D, i) = 1 + Max({-1} \cup {V(g, d) : d \in D[order[i]]})
  BY DEF PlaceLevel
<1> HIDE DEF V
<1>3. {V(f, d) : d \in D[order[i]]} = {V(g, d) : d \in D[order[i]]}
  BY <1>1
<1> QED
  BY <1>2, <1>3

\* The recursion has a solution along any order.
LEMMA PlacesExist ==
  ASSUME NEW B, NEW order \in Seq(B), IsInjective(order), NEW D
  PROVE  \E f : f = PlaceLevels(f, order, D, Len(order))
<1> DEFINE Exists(n) == \E f : f = PlaceLevels(f, order, D, n)
           T == {n \in Nat : n <= Len(order) => Exists(n)}
<1>0. Len(order) \in Nat /\ DOMAIN order = 1..Len(order)
  OBVIOUS
<1>1. 0 \in T
  <2> DEFINE f == [i \in 1..0 |-> 0]
  <2>1. f = PlaceLevels(f, order, D, 0)
    BY DEF PlaceLevels
  <2> QED
    BY <2>1
<1>2. ASSUME NEW n \in Nat, n \in T PROVE n + 1 \in T
  <2> SUFFICES ASSUME n + 1 <= Len(order) PROVE Exists(n + 1)
    OBVIOUS
  <2>0. n <= Len(order)
    BY <1>0
  <2>1. PICK f : f = PlaceLevels(f, order, D, n)
    BY <1>2, <2>0
  <2> DEFINE h == [i \in 1..(n + 1) |-> IF i = n + 1 THEN PlaceLevel(f, order, D, n + 1)
                                        ELSE f[i]]
  <2>2. /\ h = [i \in 1..(n + 1) |-> h[i]] /\ h[n + 1] = PlaceLevel(f, order, D, n + 1)
        /\ \A i \in 1..n : h[i] = f[i]
    OBVIOUS
  <2>3. \A i \in 1..n : f[i] = PlaceLevel(f, order, D, i)
    <3>1. \A i \in 1..n : f[i] = PlaceLevels(f, order, D, n)[i]
      BY <2>1
    <3> QED
      BY <3>1 DEF PlaceLevels
  <2> HIDE DEF h
  <2>4. \A i \in 1..(n + 1) : PlaceLevel(h, order, D, i) = PlaceLevel(f, order, D, i)
    <3> TAKE i \in 1..(n + 1)
    <3>1. i \in DOMAIN order /\ \A j \in 1..(i - 1) : j \in 1..n
      BY <1>0
    <3>2. \A j \in 1..(i - 1) : h[j] = f[j]
      BY <2>2, <3>1
    <3> QED
      BY <3>1, <3>2, PlaceIsLocal
  <2>5. \A i \in 1..(n + 1) : h[i] = PlaceLevel(h, order, D, i)
    <3> TAKE i \in 1..(n + 1)
    <3>1. CASE i = n + 1
      BY <2>2, <2>4, <3>1
    <3>2. CASE i \in 1..n
      BY <2>2, <2>3, <2>4, <3>2
    <3> QED
      BY <3>1, <3>2
  <2>6. h = PlaceLevels(h, order, D, n + 1)
    BY <2>2, <2>5 DEF PlaceLevels
  <2> QED
    BY <2>6
<1>3. Len(order) \in T
  <2> HIDE DEF T
  <2> QED
    BY <1>0, <1>1, <1>2, Climb
<1>4. Exists(Len(order))
  <2> HIDE DEF Exists
  <2> QED
    BY <1>0, <1>3
<1> QED
  BY <1>4

\* What a dependency counts for at a place of the order.
DepLevel(L, order, i, d) == IF \E j \in 1..(i - 1) : order[j] = d THEN L[d] ELSE 0
DepLevels(L, order, D, i) == {-1} \cup {DepLevel(L, order, i, d) : d \in D[order[i]]}

\* The level of a binding in terms of those of its dependencies.
LEMMA LevelsAre ==
  ASSUME NEW B, NEW order \in Seq(B), IsInjective(order), NEW D, NEW i \in DOMAIN order
  PROVE  Levels(order, D)[order[i]] = 1 + Max(DepLevels(Levels(order, D), order, D, i))
<1> DEFINE n == Len(order)
           F(f) == [k \in DOMAIN order |->
                      1 + Max({-1} \cup
                        {IF \E j \in 1..(k - 1) : order[j] = d THEN f[Position(order, d)] ELSE 0 :
                           d \in D[order[k]]})]
           w == CHOOSE f : f = F(f)
           L == Levels(order, D)
<1>1. n \in Nat /\ DOMAIN order = 1..n
  OBVIOUS
<1>2. \A f : F(f) = PlaceLevels(f, order, D, n)
  BY <1>1 DEF PlaceLevels, PlaceLevel
<1>3. L = [t \in ToSet(order) |-> w[Position(order, t)]]
  BY DEF Levels
<1> HIDE DEF F, L, n
<1>4. w = F(w)
  <2>1. \E f : f = F(f)
    BY <1>2, PlacesExist DEF n
  <2> QED
    BY <2>1
<1> HIDE DEF w
<1>5. \A k \in 1..n : w[k] = PlaceLevel(w, order, D, k)
  <2>1. w = PlaceLevels(w, order, D, n)
    BY <1>2, <1>4
  <2>2. \A k \in 1..n : w[k] = PlaceLevels(w, order, D, n)[k]
    BY <2>1
  <2> QED
    BY <2>2 DEF PlaceLevels
<1>6. \A k \in 1..n : order[k] \in ToSet(order) /\ L[order[k]] = w[k]
  <2> TAKE k \in 1..n
  <2>1. order[k] \in ToSet(order) /\ Position(order, order[k]) = k
    BY <1>1, PositionIs DEF ToSet
  <2> QED
    BY <1>3, <2>1
<1> DEFINE V(d) == IF \E j \in 1..(i - 1) : order[j] = d THEN w[Position(order, d)] ELSE 0
           U(d) == DepLevel(L, order, i, d)
<1>7. ASSUME NEW d PROVE V(d) = U(d)
  <2>1. CASE \E j \in 1..(i - 1) : order[j] = d
    <3>1. PICK j \in 1..(i - 1) : order[j] = d
      BY <2>1
    <3>2. j \in 1..n
      BY <1>1
    <3>3. Position(order, d) = j
      BY <1>1, <3>1, <3>2, PositionIs
    <3> QED
      BY <1>6, <2>1, <3>1, <3>2, <3>3 DEF DepLevel
  <2>2. CASE ~ \E j \in 1..(i - 1) : order[j] = d
    BY <2>2 DEF DepLevel
  <2> QED
    BY <2>1, <2>2
<1>8. PlaceLevel(w, order, D, i) = 1 + Max({-1} \cup {V(d) : d \in D[order[i]]})
  BY DEF PlaceLevel
<1>9. L[order[i]] = PlaceLevel(w, order, D, i)
  BY <1>1, <1>5, <1>6
<1> HIDE DEF V
<1>10. {V(d) : d \in D[order[i]]} = {U(d) : d \in D[order[i]]}
  <2> HIDE DEF U
  <2> QED
    BY <1>7
<1>11. L[order[i]] = 1 + Max({-1} \cup {U(d) : d \in D[order[i]]})
  <2> HIDE DEF U
  <2> QED
    BY <1>8, <1>9, <1>10
<1> QED
  BY <1>11 DEF L, DepLevels

\* Levels that rise along the dependencies, by no more than it takes.
Tight(B, D, L) ==
  \A t \in B : /\ L[t] \in Nat
               /\ \A d \in D[t] : L[d] < L[t]
               /\ L[t] > 0 => \E d \in D[t] : L[d] = L[t] - 1

\* Those of an order that respects the dependencies do.
LEMMA LevelsRise ==
  ASSUME NEW B, NEW order \in Seq(B), IsInjective(order), B \subseteq ToSet(order), NEW D,
         \A i \in DOMAIN order : \A d \in D[order[i]] : \E j \in 1..(i - 1) : order[j] = d
  PROVE  Tight(B, D, Levels(order, D))
<1> DEFINE L == Levels(order, D)
           n == Len(order)
           S(i) == {-1} \cup {L[d] : d \in D[order[i]]}
<1>1. n \in Nat /\ DOMAIN order = 1..n
  OBVIOUS
<1>2. ASSUME NEW i \in 1..n PROVE L[order[i]] = 1 + Max(S(i))
  <2>1. L[order[i]] = 1 + Max({-1} \cup {DepLevel(L, order, i, d) : d \in D[order[i]]})
    <3>1. i \in DOMAIN order
      BY <1>1
    <3>2. L[order[i]] = 1 + Max(DepLevels(L, order, D, i))
      BY <3>1, LevelsAre
    <3> QED
      BY <3>2 DEF DepLevels
  <2> HIDE DEF L
  <2>2. \A d \in D[order[i]] : DepLevel(L, order, i, d) = L[d]
    BY <1>1 DEF DepLevel
  <2>3. {DepLevel(L, order, i, d) : d \in D[order[i]]} = {L[d] : d \in D[order[i]]}
    BY <2>2
  <2> QED
    BY <2>1, <2>3
<1> HIDE DEF L
<1> DEFINE Good(i) == /\ L[order[i]] \in 0..i
                      /\ \A d \in D[order[i]] : L[d] < L[order[i]]
                      /\ L[order[i]] > 0 => \E d \in D[order[i]] : L[d] = L[order[i]] - 1
           T == {m \in Nat : m <= n => \A i \in 1..m : Good(i)}
<1>3. 0 \in T
  OBVIOUS
<1>4. ASSUME NEW m \in Nat, m \in T PROVE m + 1 \in T
  <2> SUFFICES ASSUME m + 1 <= n PROVE \A i \in 1..(m + 1) : Good(i)
    OBVIOUS
  <2>1. \A i \in 1..m : Good(i)
    BY <1>1, <1>4
  <2>2. Good(m + 1)
    <3> DEFINE R == S(m + 1)
               l == L[order[m + 1]]
    <3>0. m + 1 \in 1..n
      BY <1>1
    <3>1. \A d \in D[order[m + 1]] : L[d] \in 0..m
      <4> TAKE d \in D[order[m + 1]]
      <4>1. PICK j \in 1..m : order[j] = d
        BY <1>1, <3>0
      <4>2. L[d] \in 0..j
        BY <2>1, <4>1
      <4> QED
        BY <4>1, <4>2
    <3>2. R \subseteq Int /\ R # {} /\ m \in Int /\ \A x \in R : x <= m /\ x >= -1
      BY <3>1
    <3>3. \A d \in D[order[m + 1]] : L[d] \in R
      OBVIOUS
    <3>4. \A x \in R : x # -1 => \E d \in D[order[m + 1]] : L[d] = x
      OBVIOUS
    <3>5. l = 1 + Max(R)
      BY <1>2, <3>0
    <3> HIDE DEF R, l
    <3>6. Max(R) \in R /\ \A x \in R : x <= Max(R)
      BY <3>2, MaxIsLast
    <3>7. Max(R) \in Int /\ Max(R) <= m /\ Max(R) >= -1
      BY <3>2, <3>6
    <3>8. l \in 0..(m + 1) /\ l - 1 = Max(R)
      BY <3>5, <3>7
    <3>9. \A d \in D[order[m + 1]] : L[d] < l
      <4> TAKE d \in D[order[m + 1]]
      <4>1. L[d] \in Int /\ L[d] <= Max(R)
        BY <3>1, <3>3, <3>6
      <4> QED
        BY <3>5, <3>7, <4>1
    <3>10. ASSUME l > 0 PROVE \E d \in D[order[m + 1]] : L[d] = l - 1
      <4>1. Max(R) # -1
        BY <3>5, <3>10
      <4> QED
        BY <3>4, <3>6, <3>8, <4>1
    <3> QED
      BY <3>8, <3>9, <3>10 DEF l
  <2>3. \A i \in 1..(m + 1) : i \in 1..m \/ i = m + 1
    OBVIOUS
  <2> HIDE DEF Good
  <2> QED
    BY <2>1, <2>2, <2>3
<1>5. n \in T
  <2> HIDE DEF T
  <2> QED
    BY <1>1, <1>3, <1>4, Climb
<1>6. \A i \in 1..n : Good(i)
  <2> HIDE DEF Good
  <2> QED
    BY <1>1, <1>5
<1>7. \A t \in B : \E i \in 1..n : order[i] = t
  BY <1>1 DEF ToSet
<1>8. Tight(B, D, L)
  BY <1>6, <1>7 DEF Tight
<1> QED
  BY <1>8 DEF L

\* More dependencies never make a level lower.
LEMMA LevelsGrow ==
  ASSUME NEW B, NEW D, NEW E, NEW L, NEW M, Tight(B, D, L), Tight(B, E, M),
         \A t \in B : D[t] \subseteq E[t] /\ D[t] \subseteq B
  PROVE  \A t \in B : L[t] <= M[t]
<1> DEFINE T == {n \in Nat : \A t \in B : L[t] = n => n <= M[t]}
<1>1. 0 \in T
  BY DEF Tight
<1>2. ASSUME NEW n \in Nat, n \in T PROVE n + 1 \in T
  <2> SUFFICES ASSUME NEW t \in B, L[t] = n + 1 PROVE n + 1 <= M[t]
    OBVIOUS
  <2>1. PICK d \in D[t] : L[d] = n
    BY DEF Tight
  <2>2. d \in B /\ d \in E[t]
    OBVIOUS
  <2>3. n <= M[d] /\ M[d] < M[t] /\ M[d] \in Nat /\ M[t] \in Nat
    BY <1>2, <2>1, <2>2 DEF Tight
  <2> QED
    BY <2>3
<1> HIDE DEF T
<1>3. Nat \subseteq T
  BY <1>1, <1>2, Climb
<1> QED
  BY <1>3 DEF T, Tight

\* Bindings that have levels have no cycle.
LEMMA NoCycle ==
  ASSUME NEW B, NEW D, NEW E, NEW L, Tight(B, E, L), \A t \in B : D[t] \subseteq E[t],
         NEW c \in Seq(B), IsCycle(c, D)
  PROVE  FALSE
<1> DEFINE n == Len(c)
           T == {k \in Nat : k \in 1..(n - 1) => L[c[k + 1]] < L[c[1]]}
<1>1. n \in Nat /\ n > 1 /\ c[1] = c[n] /\ \A i \in 1..n : c[i] \in B
  BY DEF IsCycle, Last
<1>2. \A i \in 1..(n - 1) : L[c[i + 1]] < L[c[i]]
  <2> TAKE i \in 1..(n - 1)
  <2>1. i \in 1..n /\ c[i] \in B
    BY <1>1
  <2>2. c[i + 1] \in D[c[i]]
    BY DEF IsCycle
  <2> QED
    BY <2>1, <2>2 DEF Tight
<1>3. \A i \in 1..n : L[c[i]] \in Nat
  BY <1>1 DEF Tight
<1>4. 0 \in T
  OBVIOUS
<1>5. ASSUME NEW k \in Nat, k \in T PROVE k + 1 \in T
  <2> SUFFICES ASSUME k + 1 \in 1..(n - 1) PROVE L[c[k + 1 + 1]] < L[c[1]]
    OBVIOUS
  <2>1. L[c[k + 1 + 1]] < L[c[k + 1]]
    BY <1>2
  <2>2. k + 1 + 1 \in 1..n /\ k + 1 \in 1..n /\ 1 \in 1..n
    BY <1>1
  <2>3. CASE k = 0
    BY <2>1, <2>3
  <2>4. CASE k # 0
    <3>1. k \in 1..(n - 1)
      BY <1>1, <2>4
    <3>2. L[c[k + 1]] < L[c[1]]
      BY <1>5, <3>1
    <3> QED
      BY <1>3, <2>1, <2>2, <3>2
  <2> QED
    BY <2>3, <2>4
<1> HIDE DEF T
<1>6. n - 1 \in T
  <2>1. n - 1 \in Nat
    BY <1>1
  <2> QED
    BY <1>4, <1>5, <2>1, Climb
<1>7. L[c[n]] < L[c[1]]
  <2>1. n - 1 \in 1..(n - 1) /\ (n - 1) + 1 = n
    BY <1>1
  <2>2. L[c[(n - 1) + 1]] < L[c[1]]
    BY <1>6, <2>1 DEF T
  <2> QED
    BY <2>1, <2>2
<1> QED
  BY <1>1, <1>3, <1>7

\* The levels start() assigns.
LEMMA PlanLevels ==
  ASSUME PlanInv, stage = "planned"
  PROVE  /\ Tight(Bound, AllDeps, nodeLevel) /\ \A t \in Bound : AllDeps[t] \subseteq Bound
         /\ Topological(walk.sorted, AllDeps) /\ walk.sorted \in Seq(Bound)
<1>1. /\ WalkOK(Bound, AllDeps, walk) /\ Ended(walk) /\ walk.cycle = <<>>
      /\ \A t \in Bound : AllDeps[t] \subseteq Bound
  BY DepsAreBound DEF PlanInv, SortsOK, SortStages, LinksOK
<1>2. Topological(walk.sorted, AllDeps) /\ walk.sorted \in Seq(Bound)
  BY <1>1, EndIsTopological
<1>3. Tight(Bound, AllDeps, Levels(walk.sorted, AllDeps))
  BY <1>2, LevelsRise DEF Topological
<1>4. \A t \in Bound : nodeLevel[t] = Levels(walk.sorted, AllDeps)[t]
  BY DepsAreBound DEF PlanInv, LevelsKnown
<1> QED
  BY <1>1, <1>2, <1>3, <1>4 DEF Tight

\* LevelsAreTight for every builder: each binding is on a later level than all it depends
\* on, and on the first such level (container.ts start, nodeLevel).
THEOREM PlanIsTight == PlanSpec => []LevelsAreTight
<1>1. ASSUME PlanInv PROVE LevelsAreTight
  <2> SUFFICES ASSUME stage = "planned", NEW t \in Bound
               PROVE  /\ \A d \in AllDeps[t] : nodeLevel[d] < nodeLevel[t]
                      /\ nodeLevel[t] > 0 =>
                           \E d \in AllDeps[t] : nodeLevel[d] = nodeLevel[t] - 1
    BY DEF LevelsAreTight
  <2> QED
    BY <1>1, PlanLevels DEF Tight
<1> QED
  BY <1>1, AlwaysPlanned, PTL

\* What the manifest of a builder that can start shows when nothing was replaced.
LEMMA ManifestLevels ==
  ASSUME PlanInv, stage = "planned", Shown, NotReplaced
  PROVE  /\ Seen \subseteq Bound /\ Tight(Seen, ManifestDeps, ManifestLevel)
         /\ \A t \in Seen : ManifestDeps[t] = needs[t] \cap Seen
         /\ \A t \in Seen : ManifestDeps[t] \subseteq AllDeps[t]
<1>1. WalkOK(Seen, SortableDeps, shown) /\ Ended(shown)
  BY DEF PlanInv, ShownOK, Shown
<1>2. Seen \subseteq Bound /\ Bound \subseteq Names
  BY DepsAreBound DEF PlanInv, CopyOK
<1>3. Tight(Bound, AllDeps, nodeLevel) /\ \A t \in Bound : AllDeps[t] \subseteq Bound
  BY PlanLevels
<1>4. \A t \in Seen : ManifestDeps[t] = needs[t] \cap Seen
  BY <1>2 DEF ManifestDeps, NotReplaced
<1>5. \A t \in Seen : seen.after[t] \subseteq after[t]
  BY <1>2 DEF PlanInv, CopyOK
<1>6. \A t \in Seen : /\ SortableDeps[t] \subseteq AllDeps[t]
                      /\ ManifestDeps[t] \subseteq SortableDeps[t]
  <2>1. \A t \in Seen : SortableDeps[t] = ManifestDeps[t] \cup seen.after[t]
    BY <1>2 DEF SortableDeps
  <2>2. \A t \in Seen : AllDeps[t] = needs[t] \cup after[t]
    BY <1>2 DEF AllDeps
  <2> QED
    BY <1>4, <1>5, <2>1, <2>2
<1>7. shown.cycle = <<>>
  <2> SUFFICES ASSUME shown.cycle # <<>> PROVE FALSE
    OBVIOUS
  <2>1. IsCycle(shown.cycle, SortableDeps) /\ shown.cycle \in Seq(Seen)
    BY <1>1 DEF WalkOK, WalkTypeOK
  <2>2. Tight(Seen, AllDeps, nodeLevel)
    BY <1>2, <1>3 DEF Tight
  <2> QED
    BY <1>6, <2>1, <2>2, NoCycle
<1>8. /\ shown.sorted \in Seq(Seen) /\ IsInjective(shown.sorted)
      /\ ToSet(shown.sorted) \subseteq Seen /\ Seen \subseteq ToSet(shown.sorted)
      /\ \A i \in DOMAIN shown.sorted : \A d \in SortableDeps[shown.sorted[i]] :
           \E j \in 1..(i - 1) : shown.sorted[j] = d
  BY <1>1, <1>7, EndIsOrdered
<1>9. \A i \in DOMAIN shown.sorted : shown.sorted[i] \in Seen
  BY <1>8
<1>10. \A i \in DOMAIN shown.sorted : \A d \in ManifestDeps[shown.sorted[i]] :
        \E j \in 1..(i - 1) : shown.sorted[j] = d
  BY <1>6, <1>8, <1>9
<1>11. Tight(Seen, ManifestDeps, Levels(shown.sorted, ManifestDeps))
  BY <1>8, <1>10, LevelsRise
<1>12. Tight(Seen, ManifestDeps, ManifestLevel)
  BY <1>7, <1>11 DEF ManifestLevel, ManifestOrder
<1> QED
  BY <1>2, <1>4, <1>6, <1>12

\* A manifest that nothing was registered after has all of the bindings.
LEMMA ManifestIsComplete ==
  ASSUME PlanInv, stage = "planned", Shown, NotReplaced,
         ToSet(provided) \subseteq Seen, factories \subseteq seen.factories
  PROVE  Bound \subseteq Seen
<1>1. \A t \in Seen : Expandable(seen, t) = {}
  BY DEF PlanInv, ShownOK, Shown
<1>2. Seen \subseteq Names
  BY DepsAreSeen
<1>3. FactoriesClose(Seen)
  <2>1. \A t \in Seen : \A d \in needs[t] \cap factories : d \in Seen
    BY <1>1 DEF Expandable, NotReplaced, Seen
  <2> QED
    BY <2>1 DEF FactoriesClose
<1> QED
  BY <1>2, <1>3 DEF PlanInv, Expansion

\* ManifestIsThePlan for every builder that can start, whatever its deferred functions
\* register and whenever manifest() is called: it shows only bindings that start()
\* resolves, and none on a later level, unless a deferred function has provided a shown
\* binding with other dependencies since; each on its level when it waits for nothing the
\* manifest leaves out; and all of them when nothing was registered since (container.ts
\* manifest, start).
THEOREM ManifestShowsThePlan == PlanSpec => []ManifestIsThePlan
<1>1. ASSUME PlanInv PROVE ManifestIsThePlan
  <2> SUFFICES ASSUME stage = "planned", Shown, NotReplaced
               PROVE  /\ \A t \in Seen : t \in Bound /\ ManifestLevel[t] <= nodeLevel[t]
                      /\ (\A t \in Seen : AllDeps[t] \subseteq seen.needs[t] \cap Seen) =>
                           \A t \in Seen : ManifestLevel[t] = nodeLevel[t]
                      /\ ToSet(provided) \subseteq Seen /\ factories \subseteq seen.factories
                           => Seen = Bound
    BY DEF ManifestIsThePlan
  <2>1. /\ Seen \subseteq Bound /\ Tight(Seen, ManifestDeps, ManifestLevel)
        /\ \A t \in Seen : ManifestDeps[t] = needs[t] \cap Seen
        /\ \A t \in Seen : ManifestDeps[t] \subseteq AllDeps[t]
    BY <1>1, ManifestLevels
  <2>2. Tight(Seen, AllDeps, nodeLevel)
    BY <1>1, <2>1, PlanLevels DEF Tight
  <2>3. \A t \in Seen : ManifestDeps[t] \subseteq Seen
    BY <2>1
  <2>4. \A t \in Seen : ManifestLevel[t] <= nodeLevel[t]
    BY <2>1, <2>2, <2>3, LevelsGrow
  <2>5. ASSUME \A t \in Seen : AllDeps[t] \subseteq seen.needs[t] \cap Seen
        PROVE  \A t \in Seen : ManifestLevel[t] = nodeLevel[t]
    <3>1. \A t \in Seen : AllDeps[t] \subseteq ManifestDeps[t] /\ AllDeps[t] \subseteq Seen
      BY <2>1, <2>5 DEF NotReplaced
    <3>2. \A t \in Seen : nodeLevel[t] <= ManifestLevel[t]
      BY <2>1, <2>2, <3>1, LevelsGrow
    <3>3. \A t \in Seen : ManifestLevel[t] \in Nat /\ nodeLevel[t] \in Nat
      BY <2>1, <2>2 DEF Tight
    <3> QED
      BY <2>4, <3>2, <3>3
  <2>6. ASSUME ToSet(provided) \subseteq Seen, factories \subseteq seen.factories
        PROVE  Seen = Bound
    BY <1>1, <2>1, <2>6, ManifestIsComplete
  <2> QED
    BY <2>1, <2>4, <2>5, <2>6
<1> QED
  BY <1>1, AlwaysPlanned, PTL

\* The order start() works out is one the container's life can be run on: what Container
\* assumes of its bindings, that everything a binding depends on is there and comes before
\* it, is what the validation and the sort of start() have made sure of.
THEOREM PlanFitsContainer ==
  PlanSpec => [](stage = "planned" =>
                   /\ walk.sorted \in Seq(ToSet(walk.sorted)) /\ IsInjective(walk.sorted)
                   /\ \A t \in ToSet(walk.sorted) : AllDeps[t] \subseteq Before(walk.sorted, t))
<1> DEFINE Fits == stage = "planned" =>
                     /\ walk.sorted \in Seq(ToSet(walk.sorted)) /\ IsInjective(walk.sorted)
                     /\ \A t \in ToSet(walk.sorted) : AllDeps[t] \subseteq Before(walk.sorted, t)
<1>1. ASSUME PlanInv PROVE Fits
  <2> SUFFICES ASSUME stage = "planned"
               PROVE  /\ walk.sorted \in Seq(ToSet(walk.sorted)) /\ IsInjective(walk.sorted)
                      /\ \A t \in ToSet(walk.sorted) : AllDeps[t] \subseteq Before(walk.sorted, t)
    OBVIOUS
  <2> DEFINE s == walk.sorted
  <2>1. Topological(s, AllDeps) /\ s \in Seq(Bound) /\ ToSet(s) = Bound /\ IsInjective(s)
    BY <1>1, PlanLevels DEF Topological
  <2>2. DOMAIN s = 1..Len(s) /\ Len(s) \in Nat
    BY <2>1
  <2>3. ASSUME NEW t \in ToSet(s), NEW d \in AllDeps[t] PROVE d \in Before(s, t)
    <3>1. PICK i \in DOMAIN s : s[i] = t
      BY <2>3 DEF ToSet
    <3>2. PICK j \in 1..(i - 1) : s[j] = d
      BY <2>1, <2>3, <3>1 DEF Topological
    <3>3. j \in DOMAIN s /\ j < i
      BY <2>2, <3>1, <3>2
    <3> QED
      BY <3>1, <3>2, <3>3 DEF Before
  <2> QED
    BY <2>1, <2>3
<1> QED
  BY <1>1, AlwaysPlanned, PTL

\* The plan is of the types ContainerPlan says, for every builder.
THEOREM PlanTypes == PlanSpec => []PlanTypeOK
<1>1. ASSUME PlanInv PROVE PlanTypeOK
  <2>1. CASE stage = "planned"
    <3>1. Tight(Bound, AllDeps, nodeLevel)
      BY <1>1, <2>1, PlanLevels
    <3>2. \A t \in Names : nodeLevel[t] \in Nat \cup {-1}
      <4> TAKE t \in Names
      <4>1. CASE t \in Bound
        BY <3>1, <4>1 DEF Tight
      <4>2. CASE t \notin Bound
        BY <1>1, <2>1, <4>2 DEF PlanInv, LevelsKnown
      <4> QED
        BY <4>1, <4>2
    <3>3. nodeLevel = [t \in Names |-> nodeLevel[t]]
      BY <1>1, <2>1 DEF PlanInv, LevelsKnown
    <3> QED
      BY <1>1, <3>2, <3>3 DEF PlanInv, PlanTypeOK, SortStages, EarlyStages, Expansion, LinksOK
  <2>2. CASE stage # "planned"
    BY <1>1, <2>2 DEF PlanInv, PlanTypeOK, SortStages, EarlyStages, Expansion, LinksOK, LevelsKnown
  <2> QED
    BY <2>1, <2>2
<1> QED
  BY <1>1, AlwaysPlanned, PTL

\* A container whose life is run on the bindings and the order start() has worked out
\* resolves each binding at the level start() has assigned: Container's levels, which its
\* theorems are about, are those of the plan.
THEOREM LevelsAgree ==
  PlanSpec => [](stage = "planned" /\ Order = walk.sorted
                   /\ deps = [t \in Bound |-> AllDeps[t]]
                 => \A t \in Bound : Level(t) = nodeLevel[t])
<1>1. ASSUME PlanInv, stage = "planned", Order = walk.sorted,
             deps = [t \in Bound |-> AllDeps[t]]
      PROVE  \A t \in Bound : Level(t) = nodeLevel[t]
  <2> DEFINE At(t) == CHOOSE i \in DOMAIN Order : Order[i] = t
             L == [t \in Bound |-> Level(t)]
  <2>1. /\ Tight(Bound, AllDeps, nodeLevel) /\ \A t \in Bound : AllDeps[t] \subseteq Bound
        /\ Topological(Order, AllDeps)
    BY <1>1, PlanLevels
  <2>2. \A i, j \in DOMAIN Order : Order[i] = Order[j] => i = j
    BY <2>1 DEF Topological, IsInjective
  <2>3. \A i \in DOMAIN Order : At(Order[i]) = i
    BY <2>2
  <2> HIDE DEF At
  <2>4. \A i \in DOMAIN Order : Order[i] \in Bound /\ L[Order[i]] = Depth[i]
    <3> TAKE i \in DOMAIN Order
    <3>1. Order[i] \in Bound
      BY <2>1 DEF Topological, ToSet
    <3>2. Level(Order[i]) = Depth[At(Order[i])]
      BY DepthRises DEF At
    <3> QED
      BY <2>3, <3>1, <3>2
  <2> HIDE DEF L
  <2>5. ASSUME NEW t \in Bound
        PROVE  /\ L[t] \in Nat
               /\ \A d \in AllDeps[t] : L[d] < L[t]
               /\ L[t] > 0 => \E d \in AllDeps[t] : L[d] = L[t] - 1
    <3>1. PICK i \in DOMAIN Order : Order[i] = t
      BY <2>1 DEF Topological, ToSet
    <3>2. /\ Depth[i] \in Nat /\ \A j \in Earlier(i) : Depth[j] < Depth[i]
          /\ Depth[i] > 0 => \E j \in Earlier(i) : Depth[j] = Depth[i] - 1
      BY DepthRises
    <3>3. L[t] = Depth[i] /\ deps[t] = AllDeps[t]
      BY <1>1, <2>4, <3>1
    <3>4. DOMAIN Order = 1..Len(Order) /\ Len(Order) \in Nat
      BY OrdersAreDisjoint
    <3>5. \A j \in Earlier(i) : /\ j \in DOMAIN Order /\ Order[j] \in AllDeps[t]
                                 /\ L[Order[j]] = Depth[j]
      <4> TAKE j \in Earlier(i)
      <4>1. j \in 1..(i - 1) /\ Order[j] \in AllDeps[t]
        BY <3>1, <3>3 DEF Earlier
      <4>2. j \in DOMAIN Order
        BY <3>1, <3>4, <4>1
      <4> QED
        BY <2>4, <4>1, <4>2
    <3>6. ASSUME NEW d \in AllDeps[t] PROVE L[d] < L[t]
      <4>1. PICK j \in 1..(i - 1) : Order[j] = d
        BY <2>1, <3>1 DEF Topological
      <4>2. j \in Earlier(i)
        BY <3>1, <3>3, <4>1 DEF Earlier
      <4> QED
        BY <3>2, <3>3, <3>5, <4>1, <4>2
    <3>7. ASSUME L[t] > 0 PROVE \E d \in AllDeps[t] : L[d] = L[t] - 1
      BY <3>2, <3>3, <3>5, <3>7
    <3> QED
      BY <3>2, <3>3, <3>6, <3>7
  <2>6. Tight(Bound, AllDeps, L)
    BY <2>5 DEF Tight
  <2>7. (\A t \in Bound : L[t] <= nodeLevel[t]) /\ (\A t \in Bound : nodeLevel[t] <= L[t])
    BY <2>1, <2>6, LevelsGrow
  <2>8. \A t \in Bound : L[t] \in Nat /\ nodeLevel[t] \in Nat /\ L[t] = Level(t)
    BY <2>1, <2>6 DEF Tight, L
  <2> QED
    BY <2>7, <2>8
<1>2. PlanInv => (stage = "planned" /\ Order = walk.sorted
                   /\ deps = [t \in Bound |-> AllDeps[t]]
                 => \A t \in Bound : Level(t) = nodeLevel[t])
  BY <1>1
<1> QED
  BY <1>2, AlwaysPlanned, PTL

-----------------------------------------------------------------------------
(* The walks end.                                                             *)

\* What a walk has left to do: bindings and dependencies to visit, bindings to list.
EdgesLeft(B, w) == {e \in B \X B : e[2] \in w.rest[e[1]]}
Left(B, w) ==
  Len(w.names) + Cardinality(EdgesLeft(B, w)) + Cardinality(B \ ToSet(w.sorted))

\* visit() itself leaves the lists alone.
LEMMA VisitLeaves ==
  ASSUME NEW w, IsWalk(w), NEW name
  PROVE  LET v == Visit(w, name) IN
         v.names = w.names /\ v.rest = w.rest /\ v.sorted = w.sorted
<1> DEFINE v == Visit(w, name)
<1>1. CASE name \in ToSet(w.sorted)
  BY <1>1 DEF Visit
<1>2. CASE name \notin ToSet(w.sorted) /\ name \in ToSet(w.path)
  <2>1. v = [w EXCEPT !.cycle = CycleFrom(w.path, name)]
    BY <1>2 DEF Visit
  <2> HIDE DEF v
  <2> QED
    BY <2>1, WalkFields DEF v
<1>3. CASE name \notin ToSet(w.sorted) /\ name \notin ToSet(w.path)
  <2>1. v = [w EXCEPT !.path = Append(w.path, name)]
    BY <1>3 DEF Visit
  <2> HIDE DEF v
  <2> QED
    BY <2>1, WalkFields DEF v
<1> QED
  BY <1>1, <1>2, <1>3

\* Finite sets of which one is smaller.
LEMMA Smaller ==
  ASSUME NEW T, IsFiniteSet(T), NEW S \in SUBSET T
  PROVE  /\ Cardinality(S) \in Nat /\ Cardinality(T) \in Nat /\ Cardinality(S) <= Cardinality(T)
         /\ S # T => Cardinality(S) < Cardinality(T)
BY FS_Subset, FS_CardinalityType

\* Every call and every return leaves less to do, whatever the graph.
LEMMA LeftFalls ==
  ASSUME NEW B, IsFiniteSet(B), NEW D, NEW w, WalkOK(B, D, w), \A t \in B : D[t] \subseteq B,
         ~Ended(w), NEW v \in Steps(w)
  PROVE  Left(B, w) \in Nat /\ Left(B, v) \in Nat /\ Left(B, v) < Left(B, w)
<1> DEFINE K(u) == B \ ToSet(u.sorted)
<1>1. /\ IsWalk(w) /\ w.names \in Seq(B) /\ w.path \in Seq(B) /\ w.sorted \in Seq(B)
      /\ ToSet(w.path) \cap ToSet(w.sorted) = {} /\ B \subseteq DOMAIN w.rest
      /\ \A t \in B : w.rest[t] \subseteq D[t]
  BY DEF WalkOK, WalkTypeOK, RestOK
<1>2. w.cycle = <<>> /\ (w.path = <<>> => w.names # <<>>)
  BY DEF Ended
<1>3. IsFiniteSet(B \X B)
  BY FS_Product
<1>4. \A u : /\ IsFiniteSet(EdgesLeft(B, u)) /\ IsFiniteSet(K(u))
             /\ Cardinality(EdgesLeft(B, u)) \in Nat /\ Cardinality(K(u)) \in Nat
  BY <1>3, FS_Subset, FS_CardinalityType DEF EdgesLeft
<1>5. \A u : Left(B, u) = Len(u.names) + Cardinality(EdgesLeft(B, u)) + Cardinality(K(u))
  BY DEF Left
<1> HIDE DEF K
<1>9. Len(w.names) \in Nat
  BY <1>1
<1>6. CASE w.path = <<>>
  <2> DEFINE rest == Tail(w.names)
             u == [w EXCEPT !.names = rest]
  <2>1. v = Visit(u, Head(w.names))
    BY <1>6 DEF Steps, VisitNext
  <2>2. u.names = rest /\ u.rest = w.rest /\ u.sorted = w.sorted /\ IsWalk(u)
    <3> HIDE DEF rest
    <3>1. IsWalk(w)
      BY <1>1
    <3> QED
      BY ONLY <3>1 DEF IsWalk
  <2> HIDE DEF u
  <2>3. v.names = Tail(w.names) /\ v.rest = w.rest /\ v.sorted = w.sorted
    BY <2>1, <2>2, VisitLeaves
  <2>4. Len(v.names) \in Nat /\ Len(w.names) \in Nat /\ Len(v.names) < Len(w.names)
    BY <1>1, <1>2, <1>6, <2>3
  <2>5. EdgesLeft(B, v) = EdgesLeft(B, w) /\ K(v) = K(w)
    BY <2>3 DEF EdgesLeft, K
  <2> QED
    BY <1>4, <1>5, <1>9, <2>4, <2>5
<1>7. CASE w.path # <<>> /\ w.rest[Last(w.path)] = {}
  <2> DEFINE top == Last(w.path)
             u == [w EXCEPT !.path = Front(w.path)]
             s == Append(u.sorted, top)
  <2>1. v = [u EXCEPT !.sorted = s]
    BY <1>7 DEF Steps, Return, Listed
  <2>2. u.names = w.names /\ u.rest = w.rest /\ u.sorted = w.sorted /\ IsWalk(u)
    BY <1>1, WalkFields
  <2>3. top \in B /\ top \in ToSet(w.path)
    BY <1>1, <1>7, PathShrinks
  <2>4. ToSet(s) = ToSet(w.sorted) \cup {top}
    BY <1>1, <2>2, <2>3, AppendKeeps
  <2> HIDE DEF u, s, top
  <2>5. v.names = w.names /\ v.rest = w.rest /\ v.sorted = s
    BY <2>1, <2>2, WalkFields
  <2>6. EdgesLeft(B, v) = EdgesLeft(B, w)
    BY <2>5 DEF EdgesLeft
  <2>7. K(v) \subseteq K(w) /\ K(v) # K(w)
    BY <1>1, <2>3, <2>4, <2>5 DEF K
  <2>8. Cardinality(K(v)) < Cardinality(K(w))
    BY <1>4, <2>7, Smaller
  <2> QED
    BY <1>4, <1>5, <1>9, <2>5, <2>6, <2>8
<1>8. CASE w.path # <<>> /\ w.rest[Last(w.path)] # {}
  <2> DEFINE top == Last(w.path)
  <2>1. PICK d \in w.rest[top] : v = VisitDep(w, d)
    BY <1>8 DEF Steps
  <2> DEFINE r == [w.rest EXCEPT ![top] = @ \ {d}]
             u == [w EXCEPT !.rest = r]
  <2>2. v = Visit(u, d)
    <3>1. [w EXCEPT !.rest[top] = @ \ {d}] = u
      BY <1>1 DEF IsWalk
    <3> QED
      BY <2>1, <3>1 DEF VisitDep
  <2>3. u.names = w.names /\ u.rest = r /\ u.sorted = w.sorted /\ IsWalk(u)
    <3> HIDE DEF r
    <3>1. IsWalk(w)
      BY <1>1
    <3> QED
      BY ONLY <3>1 DEF IsWalk
  <2>4. top \in B
    BY <1>1, <1>8, PathShrinks
  <2>5. d \in B
    BY <1>1, <2>1, <2>4
  <2>6. /\ r[top] = w.rest[top] \ {d}
        /\ \A t \in B : t # top => r[t] = w.rest[t]
    BY <1>1, <2>4
  <2> HIDE DEF u, r, top
  <2>7. v.names = w.names /\ v.rest = r /\ v.sorted = w.sorted
    BY <2>2, <2>3, VisitLeaves
  <2>8. EdgesLeft(B, v) \subseteq EdgesLeft(B, w)
    BY <2>6, <2>7 DEF EdgesLeft
  <2>9. <<top, d>> \in EdgesLeft(B, w) /\ <<top, d>> \notin EdgesLeft(B, v)
    BY <2>1, <2>4, <2>5, <2>6, <2>7 DEF EdgesLeft
  <2>10. Cardinality(EdgesLeft(B, v)) < Cardinality(EdgesLeft(B, w))
    BY <1>4, <2>8, <2>9, Smaller
  <2>11. K(v) = K(w)
    BY <2>7 DEF K
  <2> QED
    BY <1>4, <1>5, <1>9, <2>7, <2>10, <2>11
<1> QED
  BY <1>6, <1>7, <1>8

\* Neither start() nor manifest() walks for ever, whatever cycles the bindings have: every
\* call and every return of visit() leaves less to do, and there is one to make until the
\* walk has ended (topo-sort.ts).
THEOREM SortsTerminate ==
  PlanSpec => [][/\ SortBindings => Left(Bound, walk') < Left(Bound, walk)
                 /\ SortManifest => Left(Seen, shown') < Left(Seen, shown)]_planVars
<1>1. ASSUME PlanInv PROVE IsFiniteSet(Bound) /\ IsFiniteSet(Seen)
  BY <1>1, NamesAreFinite, DepsAreBound, DepsAreSeen, FS_Subset
<1>2. ASSUME PlanInv, SortBindings PROVE Left(Bound, walk') < Left(Bound, walk)
  <2>1. WalkOK(Bound, AllDeps, walk) /\ Missing = {} /\ ~Ended(walk) /\ walk' \in Steps(walk)
    BY <1>2 DEF SortBindings, PlanInv, SortsOK, LinksOK, SortStages
  <2> QED
    BY <1>1, <1>2, <2>1, DepsAreBound, LeftFalls
<1>3. ASSUME PlanInv, SortManifest PROVE Left(Seen, shown') < Left(Seen, shown)
  <2>1. WalkOK(Seen, SortableDeps, shown)
    BY <1>3 DEF SortManifest, PlanInv, ShownOK
  <2>2. ~Ended(shown) /\ shown' \in Steps(shown)
    BY <1>3 DEF SortManifest
  <2> QED
    BY <1>1, <1>3, <2>1, <2>2, DepsAreSeen, LeftFalls
<1>4. PlanInv => [/\ SortBindings => Left(Bound, walk') < Left(Bound, walk)
                  /\ SortManifest => Left(Seen, shown') < Left(Seen, shown)]_planVars
  BY <1>2, <1>3
<1> QED
  BY <1>4, AlwaysPlanned, PTL
=============================================================================
