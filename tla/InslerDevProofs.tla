--------------------------- MODULE InslerDevProofs ---------------------------
(* What the dev session never does to a snapshot it cannot read, and what the *)
(* generated artifacts of a valid fleet have in common, for every fleet, every*)
(* author and every number of saves and interrupts.                           *)
EXTENDS InslerDev, TLAPS, SequenceTheorems, FiniteSetTheorems, WellFoundedInduction,
        NaturalsInduction

------------------------------------------------------------------------------
(* The snapshot. *)

\* The fields of the session.
Fields == {"pc", "initial", "watching", "event", "queued", "todo", "scanned",
           "planned", "environment", "unseen"}

\* The session keeps its fields, whatever they hold.
Whole == /\ DOMAIN dev = Fields
         /\ dev = [x \in Fields |-> dev[x]]

\* A session that is off has its fields.
LEMMA OffIsWhole == DOMAIN DevOff = Fields /\ DevOff = [x \in Fields |-> DevOff[x]]
BY DEF DevOff, Fields

\* No step adds a field to the session or drops one.
LEMMA StaysWhole ==
  ASSUME Whole, [Next]_vars
  PROVE  Whole'
<1>1. CASE StartDev
  BY <1>1, OffIsWhole DEF StartDev, GlobFrom, Whole, Fields
<1>2. CASE RefuseProduction
  BY <1>2 DEF RefuseProduction, vars, Whole
<1>3. ASSUME NEW ok, dev' = Converged(ok) PROVE Whole'
  BY <1>3, OffIsWhole DEF Converged, Whole, Fields
<1>4. CASE Import
  <2>1. CASE dev' = Converged(FALSE)
    BY <2>1, <1>3
  <2>2. CASE dev' = [dev EXCEPT !.todo = Tail(@), !.scanned = Append(@, Scanned(Head(dev.todo)))]
    BY <2>2 DEF Whole, Fields
  <2> QED
    BY <1>4, <2>1, <2>2 DEF Import
<1>5. CASE PlanCycle
  <2>1. CASE dev' = Converged(FALSE)
    BY <2>1, <1>3
  <2>2. CASE dev' # Converged(FALSE)
    BY <1>5, <2>2 DEF PlanCycle, Whole, Fields
  <2> QED
    BY <2>1, <2>2
<1>6. CASE Apply
  <2>1. CASE \E ok \in BOOLEAN : dev' = Converged(ok)
    BY <2>1, <1>3
  <2>2. CASE dev' = [dev EXCEPT !.pc = "write"]
    BY <2>2 DEF Whole, Fields
  <2> QED
    BY <1>6, <2>1, <2>2 DEF Apply
<1>7. CASE WriteSnapshot
  BY <1>7, <1>3 DEF WriteSnapshot
<1>8. CASE Notify
  BY <1>8 DEF Notify, Whole, Fields
<1>9. CASE StartCycle
  BY <1>9 DEF StartCycle, GlobFrom, Whole, Fields
<1>10. CASE Save
  BY <1>10 DEF Save, Whole, Fields
<1>11. CASE Interrupt
  BY <1>11, OffIsWhole DEF Interrupt, Whole
<1>12. CASE RemoveSnapshot
  BY <1>12 DEF RemoveSnapshot, Whole
<1>13. CASE Script
  BY <1>13 DEF Script, Whole
<1>14. CASE UNCHANGED vars
  BY <1>14 DEF vars, Whole
<1> QED
  BY <1>1, <1>2, <1>4, <1>5, <1>6, <1>7, <1>8, <1>9, <1>10, <1>11, <1>12, <1>13, <1>14
     DEF Next, DevSteps

\* No step that cannot read the snapshot begins to write it, and only the user's
\* removal changes it (reconcile-shared.ts readSnapshot, dev.ts converge).
LEMMA KeepsUnreadable ==
  ASSUME Whole, [Next]_vars, snapshot = Corrupt, dev.pc # "write"
  PROVE  snapshot' \in {Corrupt, Missing} /\ dev'.pc # "write"
<1>1. CASE StartDev
  BY <1>1 DEF StartDev, GlobFrom, DevOff
<1>2. CASE RefuseProduction
  BY <1>2 DEF RefuseProduction, vars
<1>3. ASSUME NEW ok PROVE Converged(ok).pc # "write"
  BY DEF Converged, DevOff, Whole, Fields
<1>4. CASE Import
  <2>1. CASE dev' = Converged(FALSE)
    BY <1>4, <2>1, <1>3 DEF Import
  <2>2. CASE dev' = [dev EXCEPT !.todo = Tail(@), !.scanned = Append(@, Scanned(Head(dev.todo)))]
    BY <1>4, <2>2 DEF Import, Whole, Fields
  <2> QED
    BY <1>4, <2>1, <2>2 DEF Import
<1>5. CASE PlanCycle
  <2>1. dev' = Converged(FALSE)
    BY <1>5 DEF PlanCycle, ReadSnapshot
  <2> QED
    BY <1>5, <2>1, <1>3 DEF PlanCycle
<1>6. CASE Apply
  <2>1. ~ReadSnapshot.ok
    BY DEF ReadSnapshot
  <2>2. dev' = Converged(FALSE) /\ UNCHANGED snapshot
    BY <1>6, <2>1 DEF Apply
  <2> QED
    BY <2>2, <1>3
<1>7. CASE WriteSnapshot
  BY <1>7 DEF WriteSnapshot
<1>8. CASE Notify
  BY <1>8 DEF Notify, Whole, Fields
<1>9. CASE StartCycle
  BY <1>9 DEF StartCycle, GlobFrom, Whole, Fields
<1>10. CASE Save
  BY <1>10 DEF Save, Whole, Fields
<1>11. CASE Interrupt
  BY <1>11 DEF Interrupt, DevOff
<1>12. CASE RemoveSnapshot
  BY <1>12 DEF RemoveSnapshot
<1>13. CASE Script
  BY <1>13 DEF Script
<1>14. CASE UNCHANGED vars
  BY <1>14 DEF vars
<1> QED
  BY <1>1, <1>2, <1>4, <1>5, <1>6, <1>7, <1>8, <1>9, <1>10, <1>11, <1>12, <1>13, <1>14
     DEF Next, DevSteps

\* SnapshotSurvives for every fleet, environment and budget: a snapshot cut short by
\* a crash stays until the user removes it, whichever session follows.
THEOREM UnreadableIsKept == Spec => SnapshotSurvives
<1>1. Init => Whole
  BY OffIsWhole DEF Init, Whole, DevOff, Fields
<1>2. Whole /\ [Next]_vars => Whole'
  BY StaysWhole
<1>3. Whole /\ [Next]_vars => [snapshot = Corrupt /\ dev.pc # "write" =>
                        snapshot' \in {Corrupt, Missing} /\ dev'.pc # "write"]_vars
  BY KeepsUnreadable
<1> QED
  BY <1>1, <1>2, <1>3, PTL DEF Spec, SnapshotSurvives

------------------------------------------------------------------------------
(* Sequences by what is in them. *)

\* A set of numbers that has 0 and the successor of its members has them all.
LEMMA Climb ==
  ASSUME NEW T, 0 \in T, \A n \in Nat : n \in T => n + 1 \in T
  PROVE  Nat \subseteq T
<1> SUFFICES ASSUME Nat \ T # {} PROVE FALSE
  OBVIOUS
<1> DEFINE R == OpToRel(<, Nat)
<1>1. IsWellFoundedOn(R, Nat)
  BY NatLessThanWellFounded, Zenon
<1>2. \A x, y \in Nat : <<x, y>> \in R <=> x < y
  BY DEF OpToRel
<1> HIDE DEF R
<1>3. PICK n \in Nat \ T : \A m \in Nat \ T : <<m, n>> \notin R
  BY <1>1, WFMin
<1>4. n # 0 /\ n \in Nat
  BY <1>3
<1>5. n - 1 \in Nat /\ n - 1 < n /\ n = (n - 1) + 1
  BY <1>4
<1>6. n - 1 \in T
  BY <1>2, <1>3, <1>4, <1>5
<1> QED
  BY <1>3, <1>5, <1>6

\* A sequence, of whatever it holds.
IsTuple(s) == s \in Seq(ToSet(s))

\* What a sequence holds is at its places.
LEMMA TupleIn ==
  ASSUME NEW S, NEW s \in Seq(S)
  PROVE  /\ IsTuple(s) /\ ToSet(s) \subseteq S
         /\ Len(s) \in Nat /\ DOMAIN s = 1..Len(s)
         /\ \A x : x \in ToSet(s) <=> \E i \in 1..Len(s) : s[i] = x
<1>1. Len(s) \in Nat /\ DOMAIN s = 1..Len(s) /\ s \in [1..Len(s) -> S]
  BY LenProperties
<1>2. s \in [1..Len(s) -> ToSet(s)] /\ ToSet(s) \subseteq S
  BY <1>1 DEF ToSet
<1>3. \A x : x \in ToSet(s) <=> \E i \in 1..Len(s) : s[i] = x
  BY <1>1 DEF ToSet
<1>4. \A n \in Nat : [1..n -> ToSet(s)] \subseteq Seq(ToSet(s))
  BY SeqDef
<1> QED
  BY <1>1, <1>2, <1>3, <1>4 DEF IsTuple

\* A function of the numbers up to n is a sequence of length n.
LEMMA ListTuple ==
  ASSUME NEW S, NEW n \in Nat, NEW s \in [1..n -> S]
  PROVE  s \in Seq(S) /\ IsTuple(s) /\ Len(s) = n
<1>1. s \in Seq(S)
  BY SeqDef
<1>2. DOMAIN s = 1..n /\ Len(s) \in Nat /\ DOMAIN s = 1..Len(s)
  BY <1>1, LenProperties
<1>3. Len(s) = n
  BY <1>1, <1>2
<1>4. IsTuple(s)
  BY <1>1, TupleIn
<1> QED
  BY <1>1, <1>3, <1>4

\* A sequence is one over every set that has its members.
LEMMA WiderTuple ==
  ASSUME NEW s, IsTuple(s), NEW S, ToSet(s) \subseteq S
  PROVE  s \in Seq(S)
<1>1. Len(s) \in Nat /\ s \in [1..Len(s) -> ToSet(s)]
  BY LenProperties DEF IsTuple
<1>2. s \in [1..Len(s) -> S]
  BY <1>1
<1> QED
  BY <1>1, <1>2, SeqDef

\* What is in two sequences, one after the other.
LEMMA ConcatMembers ==
  ASSUME NEW s, IsTuple(s), NEW t, IsTuple(t)
  PROVE  /\ IsTuple(s \o t)
         /\ ToSet(s \o t) = ToSet(s) \cup ToSet(t)
<1> DEFINE S == ToSet(s) \cup ToSet(t)
<1>1. s \in Seq(S) /\ t \in Seq(S)
  BY WiderTuple
<1> HIDE DEF S
<1>2. /\ s \o t \in Seq(S) /\ Len(s \o t) = Len(s) + Len(t)
      /\ Len(s) \in Nat /\ Len(t) \in Nat
      /\ \A i \in 1..Len(s) : (s \o t)[i] = s[i]
      /\ \A i \in (Len(s) + 1)..(Len(s) + Len(t)) : (s \o t)[i] = t[i - Len(s)]
  BY <1>1, ConcatProperties, LenProperties
<1>3. /\ IsTuple(s \o t) /\ ToSet(s \o t) \subseteq S
      /\ \A x : x \in ToSet(s \o t) <=> \E i \in 1..(Len(s) + Len(t)) : (s \o t)[i] = x
  <2> DEFINE u == s \o t
  <2>1. u \in Seq(S) /\ Len(u) = Len(s) + Len(t)
    BY <1>2
  <2> HIDE DEF u
  <2>2. /\ IsTuple(u) /\ ToSet(u) \subseteq S
        /\ \A x : x \in ToSet(u) <=> \E i \in 1..Len(u) : u[i] = x
    BY <2>1, TupleIn
  <2>3. \A x : x \in ToSet(u) <=> \E i \in 1..(Len(s) + Len(t)) : u[i] = x
    BY <2>1, <2>2
  <2> QED
    BY <2>2, <2>3 DEF u
<1>4. /\ \A x : x \in ToSet(s) <=> \E i \in 1..Len(s) : s[i] = x
      /\ \A x : x \in ToSet(t) <=> \E i \in 1..Len(t) : t[i] = x
  BY <1>1, TupleIn
<1>5. ASSUME NEW x \in ToSet(s) PROVE x \in ToSet(s \o t)
  <2>1. PICK i \in 1..Len(s) : s[i] = x
    BY <1>4
  <2>2. i \in 1..(Len(s) + Len(t)) /\ (s \o t)[i] = x
    BY <1>2, <2>1
  <2> QED
    BY <1>3, <2>2
<1>6. ASSUME NEW x \in ToSet(t) PROVE x \in ToSet(s \o t)
  <2>1. PICK i \in 1..Len(t) : t[i] = x
    BY <1>4
  <2>2. i + Len(s) \in (Len(s) + 1)..(Len(s) + Len(t)) /\ (i + Len(s)) - Len(s) = i
    BY <1>2, <2>1
  <2>3. i + Len(s) \in 1..(Len(s) + Len(t)) /\ (s \o t)[i + Len(s)] = x
    BY <1>2, <2>1, <2>2
  <2> QED
    BY <1>3, <2>3
<1> QED
  BY <1>3, <1>5, <1>6 DEF S

\* A sequence is flattened, element by element.
LEMMA FlattenMembers ==
  ASSUME NEW N \in Nat, NEW ss, DOMAIN ss = 1..N, ss = [i \in 1..N |-> ss[i]],
         \A i \in 1..N : IsTuple(ss[i])
  PROVE  /\ IsTuple(FlattenSeq(ss))
         /\ \A x : x \in ToSet(FlattenSeq(ss)) <=> \E i \in 1..N : x \in ToSet(ss[i])
<1> DEFINE Def(f, M) == [i \in 1..M |-> IF i = 1 THEN ss[i] ELSE f[i - 1] \o ss[i]]
<1>0. Len(ss) = N
  <2>1. ss \in [1..N -> ToSet(ss)]
    BY DEF ToSet
  <2> HIDE DEF Def
  <2> QED
    BY <2>1, ListTuple
<1>1. \E f : f = Def(f, N)
  <2> DEFINE Exists(M) == \E f : f = Def(f, M)
             T == {M \in Nat : M <= N => Exists(M)}
  <2>1. 0 \in T
    <3> DEFINE f == [n \in 1..0 |-> 0]
    <3>1. f = Def(f, 0)
      OBVIOUS
    <3> HIDE DEF f, Def
    <3> QED
      BY <3>1
  <2>2. ASSUME NEW M \in Nat, M \in T PROVE M + 1 \in T
    <3> SUFFICES ASSUME M + 1 <= N PROVE Exists(M + 1)
      <4> HIDE DEF Exists
      <4> QED
        OBVIOUS
    <3>0. Exists(M)
      <4> HIDE DEF Exists
      <4> QED
        BY <2>2
    <3>1. PICK f : f = Def(f, M)
      <4> HIDE DEF Def
      <4> QED
        BY <3>0
    <3> DEFINE e == IF M = 0 THEN ss[1] ELSE f[M] \o ss[M + 1]
               h == [n \in 1..(M + 1) |-> IF n = M + 1 THEN e ELSE f[n]]
    <3>2. \A n \in 1..M : f[n] = IF n = 1 THEN ss[n] ELSE f[n - 1] \o ss[n]
      <4>1. \A n \in 1..M : f[n] = Def(f, M)[n]
        <5> HIDE DEF Def
        <5> QED
          BY <3>1
      <4>2. \A n \in 1..M : Def(f, M)[n] = IF n = 1 THEN ss[n] ELSE f[n - 1] \o ss[n]
        OBVIOUS
      <4> HIDE DEF Def
      <4> QED
        BY <4>1, <4>2
    <3> HIDE DEF e
    <3>3. /\ h[M + 1] = e /\ \A n \in 1..M : h[n] = f[n]
          /\ DOMAIN h = 1..(M + 1) /\ h = [n \in 1..(M + 1) |-> h[n]]
      OBVIOUS
    <3> HIDE DEF h
    <3>4. \A n \in 1..(M + 1) : h[n] = IF n = 1 THEN ss[n] ELSE h[n - 1] \o ss[n]
      <4> TAKE n \in 1..(M + 1)
      <4>1. CASE n = M + 1 /\ M = 0
        BY <3>3, <4>1 DEF e
      <4>2. CASE n = M + 1 /\ M # 0
        <5>1. M \in 1..M /\ n - 1 = M /\ n # 1
          BY <4>2
        <5>2. h[n] = f[M] \o ss[M + 1] /\ h[M] = f[M]
          BY <3>3, <4>2, <5>1 DEF e
        <5> QED
          BY <4>2, <5>1, <5>2
      <4>3. CASE n \in 1..M
        <5>1. n # 1 => n - 1 \in 1..M
          BY <4>3
        <5> QED
          BY <3>2, <3>3, <4>3, <5>1
      <4>4. n \in 1..M \/ n = M + 1
        OBVIOUS
      <4> QED
        BY <4>1, <4>2, <4>3, <4>4
    <3>5. h = Def(h, M + 1)
      BY <3>3, <3>4
    <3> HIDE DEF Def
    <3> QED
      BY <3>5
  <2> HIDE DEF T
  <2>3. N \in T
    BY <2>1, <2>2, Climb
  <2>4. Exists(N)
    <3> HIDE DEF Exists
    <3> QED
      BY <2>3 DEF T
  <2> QED
    BY <2>4
<1> DEFINE w == CHOOSE f : f = Def(f, N)
<1>2. w = Def(w, N)
  <2> HIDE DEF Def
  <2> QED
    BY <1>1
<1>3. FlattenSeq(ss) = IF N = 0 THEN ss ELSE w[N]
  BY <1>0 DEF FlattenSeq
<1>4. \A i \in 1..N : w[i] = IF i = 1 THEN ss[i] ELSE w[i - 1] \o ss[i]
  <2>1. \A i \in 1..N : w[i] = Def(w, N)[i]
    <3> HIDE DEF Def, w
    <3> QED
      BY <1>2
  <2> HIDE DEF w
  <2>2. \A n \in 1..N : Def(w, N)[n] = IF n = 1 THEN ss[n] ELSE w[n - 1] \o ss[n]
    OBVIOUS
  <2> HIDE DEF Def
  <2> QED
    BY <2>1, <2>2
<1> HIDE DEF w, Def
<1> DEFINE Good(n) == /\ IsTuple(w[n])
                      /\ \A x : x \in ToSet(w[n]) <=> \E i \in 1..n : x \in ToSet(ss[i])
           T == {n \in Nat : n \in 1..N => Good(n)}
<1>5. 0 \in T
  OBVIOUS
<1>6. ASSUME NEW n \in Nat, n \in T PROVE n + 1 \in T
  <2> SUFFICES ASSUME n + 1 \in 1..N PROVE Good(n + 1)
    OBVIOUS
  <2>1. CASE n = 0
    <3>1. w[1] = ss[1] /\ 1 \in 1..N /\ n + 1 = 1
      BY <1>4, <2>1
    <3>2. \A i \in 1..1 : i = 1
      OBVIOUS
    <3>3. Good(1)
      BY <3>1, <3>2
    <3> HIDE DEF Good
    <3> QED
      BY <3>1, <3>3
  <2>2. CASE n # 0
    <3>1. n \in 1..N /\ n + 1 # 1 /\ (n + 1) - 1 = n /\ Good(n)
      BY <1>6, <2>2
    <3>2. w[n + 1] = w[n] \o ss[n + 1] /\ IsTuple(ss[n + 1])
      BY <1>4, <3>1
    <3>3. IsTuple(w[n + 1]) /\ ToSet(w[n + 1]) = ToSet(w[n]) \cup ToSet(ss[n + 1])
      BY <3>1, <3>2, ConcatMembers
    <3>4. \A i : i \in 1..(n + 1) <=> i \in 1..n \/ i = n + 1
      OBVIOUS
    <3> QED
      BY <3>1, <3>3, <3>4
  <2> QED
    BY <2>1, <2>2
<1> HIDE DEF Good
<1>7. N \in T
  <2> HIDE DEF T
  <2> QED
    BY <1>5, <1>6, Climb
<1>8. CASE N = 0
  <2>1. FlattenSeq(ss) = ss /\ ToSet(ss) = {}
    BY <1>3, <1>8 DEF ToSet
  <2>2. ss \in [1..0 -> {}] /\ 0 \in Nat
    BY <1>8
  <2>3. IsTuple(ss)
    BY <2>2, ListTuple
  <2> QED
    BY <1>8, <2>1, <2>3
<1>9. CASE N # 0
  <2>1. Good(N) /\ FlattenSeq(ss) = w[N]
    BY <1>3, <1>7, <1>9
  <2> QED
    BY <2>1 DEF Good
<1> QED
  BY <1>8, <1>9

------------------------------------------------------------------------------
(* What the plugins write of a manifest m with the options o. *)

\* A manifest whose services are typed as defineService() types them.
IsManifest(m) == IsTuple(m.services) /\ IsTuple(m.edges)
                 /\ \A d \in ToSet(m.services) : IsTyped(d)

\* A plugin that goes service by service writes what it does of each.
LEMMA EachMembers ==
  ASSUME NEW m, IsTuple(m.services), NEW files,
         \A d \in ToSet(m.services) : IsTuple(files[d])
  PROVE  /\ IsTuple(Each(m, files))
         /\ \A x : x \in ToSet(Each(m, files)) <=>
                      \E d \in ToSet(m.services) : x \in ToSet(files[d])
<1> DEFINE s == m.services
           N == Len(s)
           ss == [i \in DOMAIN s |-> files[s[i]]]
<1>1. /\ N \in Nat /\ DOMAIN s = 1..N
      /\ \A x : x \in ToSet(s) <=> \E i \in 1..N : s[i] = x
  BY TupleIn DEF IsTuple
<1>2. \A i \in 1..N : s[i] \in ToSet(s)
  BY <1>1
<1>3. /\ DOMAIN ss = 1..N /\ ss = [i \in 1..N |-> ss[i]]
      /\ \A i \in 1..N : ss[i] = files[s[i]]
  BY <1>1
<1>4. Each(m, files) = FlattenSeq(ss)
  BY DEF Each
<1> HIDE DEF ss
<1>5. \A i \in 1..N : IsTuple(ss[i])
  BY <1>2, <1>3
<1> HIDE DEF N
<1>6. /\ IsTuple(FlattenSeq(ss))
      /\ \A x : x \in ToSet(FlattenSeq(ss)) <=> \E i \in 1..N : x \in ToSet(ss[i])
  BY <1>1, <1>3, <1>5, FlattenMembers
<1>7. \A x : (\E i \in 1..N : x \in ToSet(ss[i])) <=> \E d \in ToSet(s) : x \in ToSet(files[d])
  BY <1>1, <1>2, <1>3
<1> HIDE DEF s
<1> QED
  BY <1>4, <1>6, <1>7 DEF s

\* What is in a list that is written out.
LEMMA Listed1 ==
  ASSUME NEW a
  PROVE  IsTuple(<<a>>) /\ ToSet(<<a>>) = {a}
BY DEF IsTuple, ToSet

\* A list of four.
LEMMA Listed4 ==
  ASSUME NEW a, NEW b, NEW c, NEW d
  PROVE  IsTuple(<<a, b, c, d>>) /\ ToSet(<<a, b, c, d>>) = {a, b, c, d}
BY DEF IsTuple, ToSet

\* The empty list.
LEMMA ListedNone == IsTuple(<<>>) /\ ToSet(<<>>) = {}
BY DEF IsTuple, ToSet

\* The documents of a sequence of files.
Docs(files) == {f.content : f \in ToSet(files)}

\* The four documents of a service, kubernetes.ts's.
KubernetesDocs(d, o) ==
  LET id == DeriveIdentity(d, KubernetesEnv(o.environment))
  IN  {ServiceAccount(id), Deployment(d, id), ClusterService(id), ConfigMap(d, id)}

\* kubernetes.ts writes the four documents of each service.
LEMMA KubernetesWrites ==
  ASSUME NEW m, IsManifest(m), NEW o
  PROVE  /\ IsTuple(Kubernetes(m, o))
         /\ Docs(Kubernetes(m, o)) = UNION {KubernetesDocs(d, o) : d \in ToSet(m.services)}
<1> DEFINE id(d) == DeriveIdentity(d, KubernetesEnv(o.environment))
           At(d, leaf, content) == File("kubernetes", ResourceName(id(d)), leaf, content)
           Four(d) == <<At(d, "serviceaccount.yaml", ServiceAccount(id(d))),
                        At(d, "deployment.yaml", Deployment(d, id(d))),
                        At(d, "service.yaml", ClusterService(id(d))),
                        At(d, "configmap.yaml", ConfigMap(d, id(d)))>>
           files == [d \in ToSet(m.services) |-> Four(d)]
<1>1. Kubernetes(m, o) = Each(m, files)
  BY DEF Kubernetes
<1>2. \A d : /\ IsTuple(Four(d))
             /\ {f.content : f \in ToSet(Four(d))} = KubernetesDocs(d, o)
  <2> TAKE d
  <2> DEFINE a == At(d, "serviceaccount.yaml", ServiceAccount(id(d)))
             b == At(d, "deployment.yaml", Deployment(d, id(d)))
             c == At(d, "service.yaml", ClusterService(id(d)))
             e == At(d, "configmap.yaml", ConfigMap(d, id(d)))
  <2>1. IsTuple(Four(d)) /\ ToSet(Four(d)) = {a, b, c, e}
    <3> HIDE DEF a, b, c, e
    <3>1. Four(d) = <<a, b, c, e>>
      BY DEF a, b, c, e
    <3> HIDE DEF Four
    <3> QED
      BY <3>1, Listed4
  <2>2. /\ a.content = ServiceAccount(id(d)) /\ b.content = Deployment(d, id(d))
        /\ c.content = ClusterService(id(d)) /\ e.content = ConfigMap(d, id(d))
    BY DEF File
  <2>3. KubernetesDocs(d, o) = {a.content, b.content, c.content, e.content}
    BY <2>2 DEF KubernetesDocs
  <2> HIDE DEF a, b, c, e, Four
  <2> QED
    BY <2>1, <2>3
<1>3. \A d \in ToSet(m.services) : files[d] = Four(d)
  OBVIOUS
<1> HIDE DEF files, Four
<1>4. /\ IsTuple(Each(m, files))
      /\ \A x : x \in ToSet(Each(m, files)) <=> \E d \in ToSet(m.services) : x \in ToSet(files[d])
  BY <1>2, <1>3, EachMembers DEF IsManifest
<1> QED
  BY <1>1, <1>2, <1>3, <1>4 DEF Docs

\* autoscaler.ts writes one ScaledObject for each service.
LEMMA AutoscalerWrites ==
  ASSUME NEW m, IsManifest(m), NEW o
  PROVE  /\ IsTuple(Autoscaler(m, o))
         /\ Docs(Autoscaler(m, o)) = {ScaledObject(d) : d \in ToSet(m.services)}
<1> DEFINE One(d) == File("keda", d.name, "yaml", ScaledObject(d))
           files == [d \in ToSet(m.services) |-> <<One(d)>>]
<1>1. Autoscaler(m, o) = Each(m, files)
  BY DEF Autoscaler
<1>2. \A d : One(d).content = ScaledObject(d)
  BY DEF File
<1> HIDE DEF One
<1>3. \A d \in ToSet(m.services) : files[d] = <<One(d)>>
  OBVIOUS
<1> HIDE DEF files
<1>4. \A d \in ToSet(m.services) : IsTuple(files[d]) /\ ToSet(files[d]) = {One(d)}
  BY <1>3, Listed1
<1>5. /\ IsTuple(Each(m, files))
      /\ \A x : x \in ToSet(Each(m, files)) <=> \E d \in ToSet(m.services) : x \in ToSet(files[d])
  BY <1>4, EachMembers DEF IsManifest
<1> QED
  BY <1>1, <1>2, <1>4, <1>5 DEF Docs

\* secret-binding.ts writes one ExternalSecret for each need of each service.
LEMMA SecretBindingWrites ==
  ASSUME NEW m, IsManifest(m), NEW o
  PROVE  /\ IsTuple(SecretBinding(m, o))
         /\ Docs(SecretBinding(m, o)) =
              UNION {{ExternalSecret(d, n, o.environment) : n \in ToSet(d.needs)} :
                       d \in ToSet(m.services)}
<1> DEFINE One(d, n) == File("secret-bindings", ExternalSecret(d, n, o.environment).name, "yaml",
                             ExternalSecret(d, n, o.environment))
           All(d) == [i \in DOMAIN d.needs |-> One(d, d.needs[i])]
           files == [d \in ToSet(m.services) |-> All(d)]
<1>1. SecretBinding(m, o) = Each(m, files)
  BY DEF SecretBinding
<1>2. \A d, n : One(d, n).content = ExternalSecret(d, n, o.environment)
  BY DEF File
<1> HIDE DEF One
<1>3. ASSUME NEW d \in ToSet(m.services)
      PROVE  IsTuple(All(d)) /\ ToSet(All(d)) = {One(d, n) : n \in ToSet(d.needs)}
  <2>1. d.needs \in Seq(Seq(STRING))
    BY DEF IsManifest, IsTyped
  <2>2. /\ Len(d.needs) \in Nat /\ DOMAIN d.needs = 1..Len(d.needs)
        /\ \A x : x \in ToSet(d.needs) <=> \E i \in 1..Len(d.needs) : d.needs[i] = x
    BY <2>1, TupleIn
  <2> DEFINE S == {One(d, n) : n \in ToSet(d.needs)}
  <2>3. All(d) \in [1..Len(d.needs) -> S]
    BY <2>2
  <2>4. IsTuple(All(d))
    <3> HIDE DEF All, S
    <3> QED
      BY <2>2, <2>3, ListTuple
  <2>5. ToSet(All(d)) = S
    BY <2>2 DEF ToSet
  <2> QED
    BY <2>4, <2>5
<1>4. \A d \in ToSet(m.services) : files[d] = All(d)
  OBVIOUS
<1> HIDE DEF files, All
<1>5. /\ IsTuple(Each(m, files))
      /\ \A x : x \in ToSet(Each(m, files)) <=> \E d \in ToSet(m.services) : x \in ToSet(files[d])
  BY <1>3, <1>4, EachMembers DEF IsManifest
<1>6. \A x : x \in ToSet(Each(m, files)) <=>
               \E d \in ToSet(m.services) : \E n \in ToSet(d.needs) : x = One(d, n)
  BY <1>3, <1>4, <1>5
<1> QED
  BY <1>1, <1>2, <1>5, <1>6 DEF Docs

\* serverless.ts writes of services only, whichever the target.
LEMMA ServerlessWrites ==
  ASSUME NEW m, IsManifest(m), NEW o
  PROVE  /\ IsTuple(Serverless(m, o))
         /\ Docs(Serverless(m, o)) \subseteq
              {ServerlessService(d, o.environment) : d \in ToSet(m.services)}
<1> DEFINE One(d) == File("cloud-run", d.name, "service.yaml", ServerlessService(d, o.environment))
           files == [d \in ToSet(m.services) |-> <<One(d)>>]
<1>1. Serverless(m, o) \in {Each(m, files), <<>>}
  BY DEF Serverless
<1>2. \A d : One(d).content = ServerlessService(d, o.environment)
  BY DEF File
<1> HIDE DEF One
<1>3. \A d \in ToSet(m.services) : files[d] = <<One(d)>>
  OBVIOUS
<1> HIDE DEF files
<1>4. \A d \in ToSet(m.services) : IsTuple(files[d]) /\ ToSet(files[d]) = {One(d)}
  BY <1>3, Listed1
<1>5. /\ IsTuple(Each(m, files))
      /\ \A x : x \in ToSet(Each(m, files)) <=> \E d \in ToSet(m.services) : x \in ToSet(files[d])
  BY <1>4, EachMembers DEF IsManifest
<1> QED
  BY <1>1, <1>2, <1>4, <1>5, ListedNone DEF Docs

\* The one document of nats-credentials.ts.
TheCredentials(m, o) ==
  [kind |-> "credentials",
   users |-> {AuthUser(d, NatsEnv(o.environment)) : d \in ToSet(m.services)}]

\* The plugins that write one file, whatever the fleet.
LEMMA SingleWrites ==
  ASSUME NEW m, NEW o
  PROVE  /\ IsTuple(NatsCredentials(m, o)) /\ Docs(NatsCredentials(m, o)) = {TheCredentials(m, o)}
         /\ IsTuple(EdgeRouting(m, o)) /\ \A c \in Docs(EdgeRouting(m, o)) : c.kind = "routes"
         /\ IsTuple(FleetInventory(m, o))
         /\ \A c \in Docs(FleetInventory(m, o)) : c.kind = "inventory"
<1>1. ASSUME NEW f PROVE IsTuple(<<f>>) /\ Docs(<<f>>) = {f.content}
  <2>1. IsTuple(<<f>>) /\ ToSet(<<f>>) = {f}
    BY Listed1
  <2> QED
    BY <2>1 DEF Docs
<1>2. \A dir, name, leaf, content : File(dir, name, leaf, content).content = content
  BY DEF File
<1>3. IsTuple(NatsCredentials(m, o)) /\ Docs(NatsCredentials(m, o)) = {TheCredentials(m, o)}
  <2>1. NatsCredentials(m, o) = <<File("nats", <<"credentials">>, "json", TheCredentials(m, o))>>
    BY DEF NatsCredentials, TheCredentials
  <2> QED
    BY <1>1, <1>2, <2>1
<1>4. IsTuple(EdgeRouting(m, o)) /\ \A c \in Docs(EdgeRouting(m, o)) : c.kind = "routes"
  <2> DEFINE c == [kind |-> "routes", routes |-> {EdgeRoute(r) : r \in ToSet(m.routes)}]
  <2>1. c.kind = "routes"
    OBVIOUS
  <2>2. EdgeRouting(m, o) = <<File("edge", <<"routing-table">>, "json", c)>>
    BY DEF EdgeRouting
  <2> HIDE DEF c
  <2> QED
    BY <1>1, <1>2, <2>1, <2>2
<1>5. IsTuple(FleetInventory(m, o)) /\ \A c \in Docs(FleetInventory(m, o)) : c.kind = "inventory"
  <2> DEFINE c == [kind |-> "inventory", environment |-> o.environment, target |-> o.target,
                   services |-> {[kind |-> d.kind, name |-> d.name] : d \in ToSet(m.services)}]
  <2>1. c.kind = "inventory"
    OBVIOUS
  <2>2. FleetInventory(m, o) = <<File("fleet", <<"inventory">>, "json", c)>>
    BY DEF FleetInventory
  <2> HIDE DEF c
  <2> QED
    BY <1>1, <1>2, <2>1, <2>2
<1> QED
  BY <1>3, <1>4, <1>5

\* There are finitely many in a sequence.
LEMMA ListIsFinite ==
  ASSUME NEW s, IsTuple(s)
  PROVE  IsFiniteSet(ToSet(s))
<1>1. /\ Len(s) \in Nat /\ s \in [1..Len(s) -> ToSet(s)]
      /\ \A x \in ToSet(s) : \E i \in 1..Len(s) : s[i] = x
  BY LenProperties, TupleIn DEF IsTuple
<1>2. IsFiniteSet(1..Len(s))
  BY <1>1, FS_Interval
<1>3. s \in Surjection(1..Len(s), ToSet(s))
  BY <1>1 DEF Surjection
<1> QED
  BY <1>2, <1>3, FS_Surjection

\* data-store-claims.ts writes claims and plan errors, and no other document.
LEMMA DataStoreClaimsWrites ==
  ASSUME NEW m, IsManifest(m), NEW o
  PROVE  /\ IsTuple(DataStoreClaims(m, o))
         /\ \A c \in Docs(DataStoreClaims(m, o)) : c.kind \in {"PostgreSQLInstance", "planErrors"}
<1> DEFINE U == Unbound(m) \ PlanErrors(m)
           q == SetToSeq(U)
           Claim(n) == [kind |-> "PostgreSQLInstance", name |-> n, connectionSecret |-> n]
           g(n) == File("data-store-claims", n, "yaml", Claim(n))
           a == [i \in DOMAIN q |-> g(q[i])]
           Plan == [kind |-> "planErrors", unboundNeeds |-> PlanErrors(m)]
           b == IF PlanErrors(m) = {}
                THEN <<>>
                ELSE <<File("data-store-claims", <<"plan", "-", "errors">>, "yaml", Plan)>>
<1>1. DataStoreClaims(m, o) = a \o b
  BY DEF DataStoreClaims
<1>2. IsFiniteSet(U)
  <2> DEFINE E == {e \in ToSet(m.edges) : e.type = "needs"}
             T == {e.to : e \in E}
             h == [e \in E |-> e.to]
  <2>1. IsFiniteSet(ToSet(m.edges))
    BY ListIsFinite DEF IsManifest
  <2>2. IsFiniteSet(E)
    BY <2>1, FS_Subset
  <2>3. h \in Surjection(E, T)
    BY DEF Surjection
  <2>4. IsFiniteSet(T)
    <3> HIDE DEF h, E, T
    <3> QED
      BY <2>2, <2>3, FS_Surjection
  <2>5. U \subseteq T
    BY DEF Unbound
  <2> HIDE DEF T, U
  <2> QED
    BY <2>4, <2>5, FS_Subset
<1> HIDE DEF U
<1> DEFINE n == Cardinality(U)
<1>3. n \in Nat /\ q \in [1..n -> U]
  <2>1. n \in Nat /\ ExistsBijection(1..n, U)
    BY <1>2, FS_CardinalityType
  <2>2. PICK f : f \in Bijection(1..n, U)
    BY <2>1 DEF ExistsBijection
  <2>3. f \in [1..n -> U] /\ IsInjective(f)
    BY <2>2 DEF Bijection, Injection, IsInjective
  <2>4. q = CHOOSE r \in [1..n -> U] : IsInjective(r)
    BY DEF SetToSeq
  <2> HIDE DEF n, q
  <2> QED
    BY <2>1, <2>3, <2>4
<1> HIDE DEF n, q
<1>4. \A x : g(x).content.kind = "PostgreSQLInstance"
  BY DEF File
<1> HIDE DEF g
<1>5. a \in [1..n -> {g(x) : x \in U}] /\ ToSet(a) \subseteq {g(x) : x \in U}
  BY <1>3 DEF ToSet
<1> HIDE DEF a
<1>6. IsTuple(a)
  BY <1>3, <1>5, ListTuple
<1>7. IsTuple(b) /\ \A f \in ToSet(b) : f.content.kind = "planErrors"
  BY Listed1, ListedNone DEF File
<1> HIDE DEF b
<1>8. IsTuple(a \o b) /\ ToSet(a \o b) = ToSet(a) \cup ToSet(b)
  BY <1>6, <1>7, ConcatMembers
<1> QED
  BY <1>1, <1>4, <1>5, <1>7, <1>8 DEF Docs

\* A generation that succeeds has every plugin's documents, and no others.
LEMMA GenerationHasAll ==
  ASSUME NEW m, IsManifest(m), NEW o, ~GenerateAll(m, o).thrown
  PROVE  {f.content : f \in GenerateAll(m, o).files} =
           Docs(Kubernetes(m, o)) \cup Docs(Autoscaler(m, o)) \cup Docs(SecretBinding(m, o))
           \cup Docs(NatsCredentials(m, o)) \cup Docs(EdgeRouting(m, o))
           \cup Docs(DataStoreClaims(m, o)) \cup Docs(Serverless(m, o))
           \cup Docs(FleetInventory(m, o))
<1> DEFINE p1 == Kubernetes(m, o)
           p2 == Autoscaler(m, o)
           p3 == SecretBinding(m, o)
           p4 == NatsCredentials(m, o)
           p5 == EdgeRouting(m, o)
           p6 == DataStoreClaims(m, o)
           p7 == Serverless(m, o)
           p8 == FleetInventory(m, o)
           all == p1 \o p2 \o p3 \o p4 \o p5 \o p6 \o p7 \o p8
<1>1. /\ IsTuple(p1) /\ IsTuple(p2) /\ IsTuple(p3) /\ IsTuple(p4)
      /\ IsTuple(p5) /\ IsTuple(p6) /\ IsTuple(p7) /\ IsTuple(p8)
  BY KubernetesWrites, AutoscalerWrites, SecretBindingWrites, SingleWrites,
     DataStoreClaimsWrites, ServerlessWrites
<1>2. GenerateAll(m, o).files = ToSet(all)
  <2>1. ASSUME NEW s, ~Collect(s).thrown PROVE Collect(s).files = ToSet(s)
    BY <2>1 DEF Collect
  <2>2. [thrown |-> TRUE, files |-> {}].thrown = TRUE
    OBVIOUS
  <2>3. GenerateAll(m, o) \in {[thrown |-> TRUE, files |-> {}], Collect(all)}
    BY DEF GenerateAll
  <2> HIDE DEF all
  <2>4. GenerateAll(m, o) = Collect(all)
    BY <2>2, <2>3
  <2> QED
    BY <2>1, <2>4
<1> HIDE DEF p1, p2, p3, p4, p5, p6, p7, p8
<1>3. ToSet(all) = ToSet(p1) \cup ToSet(p2) \cup ToSet(p3) \cup ToSet(p4)
                   \cup ToSet(p5) \cup ToSet(p6) \cup ToSet(p7) \cup ToSet(p8)
  <2> DEFINE q2 == p1 \o p2
             q3 == q2 \o p3
             q4 == q3 \o p4
             q5 == q4 \o p5
             q6 == q5 \o p6
             q7 == q6 \o p7
             q8 == q7 \o p8
  <2>1. all = q8
    OBVIOUS
  <2> HIDE DEF all
  <2>2. IsTuple(q2) /\ ToSet(q2) = ToSet(p1) \cup ToSet(p2)
    BY <1>1, ConcatMembers
  <2> HIDE DEF q2
  <2>3. IsTuple(q3) /\ ToSet(q3) = ToSet(q2) \cup ToSet(p3)
    BY <1>1, <2>2, ConcatMembers
  <2> HIDE DEF q3
  <2>4. IsTuple(q4) /\ ToSet(q4) = ToSet(q3) \cup ToSet(p4)
    BY <1>1, <2>3, ConcatMembers
  <2> HIDE DEF q4
  <2>5. IsTuple(q5) /\ ToSet(q5) = ToSet(q4) \cup ToSet(p5)
    BY <1>1, <2>4, ConcatMembers
  <2> HIDE DEF q5
  <2>6. IsTuple(q6) /\ ToSet(q6) = ToSet(q5) \cup ToSet(p6)
    BY <1>1, <2>5, ConcatMembers
  <2> HIDE DEF q6
  <2>7. IsTuple(q7) /\ ToSet(q7) = ToSet(q6) \cup ToSet(p7)
    BY <1>1, <2>6, ConcatMembers
  <2> HIDE DEF q7
  <2>8. ToSet(q8) = ToSet(q7) \cup ToSet(p8)
    BY <1>1, <2>7, ConcatMembers
  <2> HIDE DEF q8
  <2> QED
    BY <2>1, <2>2, <2>3, <2>4, <2>5, <2>6, <2>7, <2>8
<1> HIDE DEF all
<1>4. /\ Docs(p1) = {f.content : f \in ToSet(p1)} /\ Docs(p2) = {f.content : f \in ToSet(p2)}
      /\ Docs(p3) = {f.content : f \in ToSet(p3)} /\ Docs(p4) = {f.content : f \in ToSet(p4)}
      /\ Docs(p5) = {f.content : f \in ToSet(p5)} /\ Docs(p6) = {f.content : f \in ToSet(p6)}
      /\ Docs(p7) = {f.content : f \in ToSet(p7)} /\ Docs(p8) = {f.content : f \in ToSet(p8)}
  BY DEF Docs
<1>5. {f.content : f \in GenerateAll(m, o).files} =
        Docs(p1) \cup Docs(p2) \cup Docs(p3) \cup Docs(p4) \cup Docs(p5) \cup Docs(p6)
        \cup Docs(p7) \cup Docs(p8)
  BY <1>2, <1>3, <1>4
<1> QED
  BY <1>5 DEF p1, p2, p3, p4, p5, p6, p7, p8

\* What a document is is in its kind.
LEMMA KindsOfDocs ==
  /\ \A id : ServiceAccount(id).kind = "ServiceAccount" /\ ClusterService(id).kind = "Service"
  /\ \A d, id : Deployment(d, id).kind = "Deployment" /\ ConfigMap(d, id).kind = "ConfigMap"
  /\ \A d : ScaledObject(d).kind = "ScaledObject"
  /\ \A d, n, e : ExternalSecret(d, n, e).kind = "ExternalSecret"
  /\ \A d, e : ServerlessService(d, e).kind = "CloudRun"
  /\ \A m, o : TheCredentials(m, o).kind = "credentials"
BY DEF ServiceAccount, ClusterService, Deployment, ConfigMap, ScaledObject, ExternalSecret,
       ServerlessService, TheCredentials

\* The generated documents of a kind.
WrittenOf(m, o, kind) == {c \in {f.content : f \in GenerateAll(m, o).files} : c.kind = kind}

\* The Deployment of a service in an environment.
DeploymentOf(d, o) == Deployment(d, DeriveIdentity(d, KubernetesEnv(o.environment)))

\* A generation that succeeds writes, of each kind, what its plugin writes and nothing else.
LEMMA WhatIsWritten ==
  ASSUME NEW m, IsManifest(m), NEW o, ~GenerateAll(m, o).thrown
  PROVE  /\ WrittenOf(m, o, "Deployment") = {DeploymentOf(d, o) : d \in ToSet(m.services)}
         /\ WrittenOf(m, o, "ScaledObject") = {ScaledObject(d) : d \in ToSet(m.services)}
         /\ WrittenOf(m, o, "ExternalSecret") =
              UNION {{ExternalSecret(d, n, o.environment) : n \in ToSet(d.needs)} :
                       d \in ToSet(m.services)}
         /\ WrittenOf(m, o, "CloudRun") \subseteq
              {ServerlessService(d, o.environment) : d \in ToSet(m.services)}
         /\ WrittenOf(m, o, "credentials") = {TheCredentials(m, o)}
<1> DEFINE S == ToSet(m.services)
           A == {f.content : f \in GenerateAll(m, o).files}
           K1 == {ServiceAccount(DeriveIdentity(d, KubernetesEnv(o.environment))) : d \in S}
           K2 == {DeploymentOf(d, o) : d \in S}
           K3 == {ClusterService(DeriveIdentity(d, KubernetesEnv(o.environment))) : d \in S}
           K4 == {ConfigMap(d, DeriveIdentity(d, KubernetesEnv(o.environment))) : d \in S}
           SO == {ScaledObject(d) : d \in S}
           ES == UNION {{ExternalSecret(d, n, o.environment) : n \in ToSet(d.needs)} : d \in S}
           CR == {ServerlessService(d, o.environment) : d \in S}
           TC == TheCredentials(m, o)
<1>1. Docs(Kubernetes(m, o)) = K1 \cup K2 \cup K3 \cup K4
  <2>1. Docs(Kubernetes(m, o)) = UNION {KubernetesDocs(d, o) : d \in S}
    BY KubernetesWrites
  <2>2. \A d : KubernetesDocs(d, o) =
                 {ServiceAccount(DeriveIdentity(d, KubernetesEnv(o.environment))),
                  DeploymentOf(d, o),
                  ClusterService(DeriveIdentity(d, KubernetesEnv(o.environment))),
                  ConfigMap(d, DeriveIdentity(d, KubernetesEnv(o.environment)))}
    BY DEF KubernetesDocs, DeploymentOf
  <2> HIDE DEF S
  <2> QED
    BY <2>1, <2>2
<1>2. /\ Docs(Autoscaler(m, o)) = SO /\ Docs(SecretBinding(m, o)) = ES
      /\ Docs(NatsCredentials(m, o)) = {TC} /\ Docs(Serverless(m, o)) \subseteq CR
      /\ \A c \in Docs(EdgeRouting(m, o)) : c.kind = "routes"
      /\ \A c \in Docs(FleetInventory(m, o)) : c.kind = "inventory"
      /\ \A c \in Docs(DataStoreClaims(m, o)) : c.kind \in {"PostgreSQLInstance", "planErrors"}
  BY AutoscalerWrites, SecretBindingWrites, SingleWrites, DataStoreClaimsWrites, ServerlessWrites
<1>3. /\ \A c \in K1 : c.kind = "ServiceAccount"
      /\ \A c \in K2 : c.kind = "Deployment"
      /\ \A c \in K3 : c.kind = "Service"
      /\ \A c \in K4 : c.kind = "ConfigMap"
      /\ \A c \in SO : c.kind = "ScaledObject"
      /\ \A c \in ES : c.kind = "ExternalSecret"
      /\ \A c \in CR : c.kind = "CloudRun"
      /\ TC.kind = "credentials"
  BY KindsOfDocs DEF DeploymentOf
<1>4. A = Docs(Kubernetes(m, o)) \cup Docs(Autoscaler(m, o)) \cup Docs(SecretBinding(m, o))
          \cup Docs(NatsCredentials(m, o)) \cup Docs(EdgeRouting(m, o))
          \cup Docs(DataStoreClaims(m, o)) \cup Docs(Serverless(m, o))
          \cup Docs(FleetInventory(m, o))
  BY GenerationHasAll
<1>5. \A kind : WrittenOf(m, o, kind) = {c \in A : c.kind = kind}
  BY DEF WrittenOf
<1> HIDE DEF A, K1, K2, K3, K4, SO, ES, CR, TC
<1>6. \A c \in A : \/ c \in K1 /\ c.kind = "ServiceAccount"
                   \/ c \in K2 /\ c.kind = "Deployment"
                   \/ c \in K3 /\ c.kind = "Service"
                   \/ c \in K4 /\ c.kind = "ConfigMap"
                   \/ c \in SO /\ c.kind = "ScaledObject"
                   \/ c \in ES /\ c.kind = "ExternalSecret"
                   \/ c \in CR /\ c.kind = "CloudRun"
                   \/ c = TC /\ c.kind = "credentials"
                   \/ c.kind \in {"routes", "inventory", "PostgreSQLInstance", "planErrors"}
  BY <1>1, <1>2, <1>3, <1>4
<1>7. K2 \subseteq A /\ SO \subseteq A /\ ES \subseteq A /\ TC \in A
  BY <1>1, <1>2, <1>4
<1>8. WrittenOf(m, o, "Deployment") = K2
  BY <1>3, <1>5, <1>6, <1>7
<1>9. WrittenOf(m, o, "ScaledObject") = SO
  BY <1>3, <1>5, <1>6, <1>7
<1>10. WrittenOf(m, o, "ExternalSecret") = ES
  BY <1>3, <1>5, <1>6, <1>7
<1>11. WrittenOf(m, o, "CloudRun") \subseteq CR
  BY <1>5, <1>6
<1>12. WrittenOf(m, o, "credentials") = {TC}
  BY <1>3, <1>5, <1>6, <1>7
<1> QED
  BY <1>8, <1>9, <1>10, <1>11, <1>12 DEF K2, SO, ES, CR, TC

------------------------------------------------------------------------------
(* The fleet. *)

\* What a scan finds.
IsFleet(scanned) ==
  /\ IsTuple(scanned)
  /\ \A i \in 1..Len(scanned) : IsTyped(scanned[i].service) /\ DefineService(scanned[i].service)

\* Every set of numbers has a least one.
LEMMA LeastNat ==
  ASSUME NEW T, T \subseteq Nat, T # {}
  PROVE  \E n \in T : \A m \in T : n <= m
<1> DEFINE R == OpToRel(<, Nat)
<1>1. IsWellFoundedOn(R, Nat)
  BY NatLessThanWellFounded, Zenon
<1>2. \A x, y \in Nat : <<x, y>> \in R <=> x < y
  BY DEF OpToRel
<1> HIDE DEF R
<1>3. PICK n \in T : \A m \in T : <<m, n>> \notin R
  BY <1>1, WFMin
<1>4. \A m \in T : m \in Nat /\ n \in Nat /\ ~(m < n)
  BY <1>2, <1>3
<1>5. \A m \in T : n <= m
  BY <1>4
<1> QED
  BY <1>3, <1>5

\* A set of places of a sequence has a last one.
LEMMA LastIn ==
  ASSUME NEW N \in Nat, NEW S \in SUBSET (1..N), S # {}
  PROVE  \E i \in S : \A j \in S : j <= i
<1> DEFINE T == {N - i : i \in S}
<1>1. T \subseteq Nat /\ T # {}
  <2>1. \A i \in S : i \in 1..N
    OBVIOUS
  <2>2. \A i \in 1..N : N - i \in Nat
    OBVIOUS
  <2> QED
    BY <2>1, <2>2
<1> HIDE DEF T
<1>2. PICK n \in T : \A m \in T : n <= m
  BY <1>1, LeastNat
<1>3. PICK i \in S : n = N - i
  BY DEF T
<1>4. \A j \in S : N - j \in T
  BY DEF T
<1>5. \A j \in S : N - i <= N - j
  BY <1>2, <1>3, <1>4
<1> QED
  BY <1>5

\* Where no value is shared, a value tells its position.
LEMMA SharedTells ==
  ASSUME NEW N \in Nat, NEW scanned, DOMAIN scanned = 1..N, NEW kind,
         NEW values, DOMAIN values = 1..N, Shared(scanned, kind, values) = {}
  PROVE  \A i, j \in 1..N : values[i] = values[j] => i = j
<1> SUFFICES ASSUME NEW i \in 1..N, NEW j \in 1..N, values[i] = values[j], i # j
             PROVE  FALSE
  OBVIOUS
<1> DEFINE v == values[i]
           Group(x) == {k \in DOMAIN scanned : values[k] = x}
           G == Group(v)
<1>1. {i, j} \subseteq G /\ G \subseteq 1..N
  OBVIOUS
<1>2. v \in ToSet(values)
  BY DEF ToSet
<1>3. IsFiniteSet(G) /\ Cardinality(G) \in Nat
  <2>1. IsFiniteSet(1..N)
    BY FS_Interval
  <2> HIDE DEF G
  <2> QED
    BY <1>1, <2>1, FS_Subset, FS_CardinalityType
<1>4. Cardinality({i, j}) = 2
  <2>1. IsFiniteSet({i}) /\ Cardinality({i}) = 1
    BY FS_Singleton
  <2>2. {i, j} = {i} \cup {j} /\ j \notin {i}
    OBVIOUS
  <2> DEFINE I == {i}
  <2>3. IsFiniteSet(I) /\ Cardinality(I) = 1 /\ j \notin I
    BY <2>1, <2>2
  <2> HIDE DEF I
  <2>4. Cardinality(I \cup {j}) = IF j \in I THEN Cardinality(I) ELSE Cardinality(I) + 1
    BY <2>3, FS_AddElement
  <2>5. {i, j} = I \cup {j}
    BY <2>2 DEF I
  <2>6. Cardinality(I \cup {j}) = 1 + 1
    BY <2>3, <2>4
  <2>7. Cardinality({i, j}) = Cardinality(I \cup {j})
    BY <2>5, Zenon
  <2> QED
    BY <2>6, <2>7
<1>5. Cardinality(G) > 1
  <2> HIDE DEF G
  <2>1. Cardinality({i, j}) <= Cardinality(G)
    BY <1>1, <1>3, FS_Subset
  <2> QED
    BY <1>3, <1>4, <2>1
<1>6. v \in {x \in ToSet(values) : Cardinality(Group(x)) > 1}
  <2> HIDE DEF Group, v
  <2> QED
    BY <1>2, <1>5
<1>7. Shared(scanned, kind, values) =
        {[kind |-> kind, files |-> {scanned[k].file : k \in Group(x)}] :
           x \in {x \in ToSet(values) : Cardinality(Group(x)) > 1}}
  BY DEF Shared
<1> HIDE DEF Group, v
<1>8. [kind |-> kind, files |-> {scanned[k].file : k \in Group(v)}]
        \in Shared(scanned, kind, values)
  BY <1>6, <1>7
<1> QED
  BY <1>8

\* The edges from a service: its needs, then its calls.
EdgesOf(scanned, d) ==
  [i \in DOMAIN d.needs |-> [from |-> d.name, to |-> d.needs[i], type |-> "needs"]] \o
  [i \in DOMAIN d.calls |-> [from |-> d.name, type |-> "calls",
                             to |-> SubjectOwner(scanned, CallSubjects(d)[i])]]

\* Each call of a service is an edge to the owner of its subject.
LEMMA EdgesAre ==
  ASSUME NEW scanned, NEW d, IsTyped(d)
  PROVE  /\ IsTuple(EdgesOf(scanned, d))
         /\ \A i \in DOMAIN d.calls :
              [from |-> d.name, to |-> SubjectOwner(scanned, CallSubjects(d)[i]), type |-> "calls"]
                \in ToSet(EdgesOf(scanned, d))
<1> DEFINE n(i) == [from |-> d.name, to |-> d.needs[i], type |-> "needs"]
           c(i) == [from |-> d.name, type |-> "calls",
                    to |-> SubjectOwner(scanned, CallSubjects(d)[i])]
           needs == [i \in DOMAIN d.needs |-> n(i)]
           calls == [i \in DOMAIN d.calls |-> c(i)]
<1>1. /\ Len(d.needs) \in Nat /\ DOMAIN d.needs = 1..Len(d.needs)
      /\ Len(d.calls) \in Nat /\ DOMAIN d.calls = 1..Len(d.calls)
  BY LenProperties DEF IsTyped
<1>2. EdgesOf(scanned, d) = needs \o calls
  BY DEF EdgesOf
<1>3. \A i : c(i) = [from |-> d.name, to |-> SubjectOwner(scanned, CallSubjects(d)[i]),
                     type |-> "calls"]
  OBVIOUS
<1> HIDE DEF n, c
<1>4. /\ needs \in [1..Len(d.needs) -> {n(i) : i \in DOMAIN d.needs}]
      /\ calls \in [1..Len(d.calls) -> {c(i) : i \in DOMAIN d.calls}]
      /\ \A i \in DOMAIN d.calls : c(i) \in ToSet(calls)
  BY <1>1 DEF ToSet
<1> HIDE DEF needs, calls
<1>5. IsTuple(needs) /\ IsTuple(calls)
  BY <1>1, <1>4, ListTuple
<1>6. IsTuple(needs \o calls) /\ ToSet(needs \o calls) = ToSet(needs) \cup ToSet(calls)
  BY <1>5, ConcatMembers
<1> QED
  BY <1>2, <1>3, <1>4, <1>6

\* The edges of a fleet are those of its services.
LEMMA EdgesOfFleet ==
  ASSUME NEW scanned, IsFleet(scanned)
  PROVE  /\ IsTuple(Edges(scanned))
         /\ \A x : x \in ToSet(Edges(scanned)) <=>
              \E i \in 1..Len(scanned) : x \in ToSet(EdgesOf(scanned, scanned[i].service))
<1> DEFINE N == Len(scanned)
           ss == [i \in DOMAIN scanned |-> EdgesOf(scanned, scanned[i].service)]
<1>1. N \in Nat /\ DOMAIN scanned = 1..N
  BY TupleIn DEF IsFleet, IsTuple
<1>2. Edges(scanned) = FlattenSeq(ss)
  BY DEF Edges, EdgesOf
<1>3. /\ DOMAIN ss = 1..N /\ ss = [i \in 1..N |-> ss[i]]
      /\ \A i \in 1..N : ss[i] = EdgesOf(scanned, scanned[i].service)
  BY <1>1
<1> HIDE DEF ss
<1>4. \A i \in 1..N : IsTuple(ss[i])
  BY <1>3, EdgesAre DEF IsFleet
<1> HIDE DEF N
<1>5. /\ IsTuple(FlattenSeq(ss))
      /\ \A x : x \in ToSet(FlattenSeq(ss)) <=> \E i \in 1..N : x \in ToSet(ss[i])
  BY <1>1, <1>3, <1>4, FlattenMembers
<1> QED
  BY <1>2, <1>3, <1>5 DEF N

\* Somebody of the fleet serves a subject that has an owner.
LEMMA OwnerServes ==
  ASSUME NEW scanned, IsFleet(scanned), NEW s, SubjectOwner(scanned, s) # None
  PROVE  \E i \in 1..Len(scanned) : /\ s \in OwnSubjects(scanned[i].service)
                                    /\ SubjectOwner(scanned, s) = scanned[i].service.name
<1> DEFINE serving == {i \in DOMAIN scanned : s \in OwnSubjects(scanned[i].service)}
<1>1. Len(scanned) \in Nat /\ DOMAIN scanned = 1..Len(scanned)
  BY TupleIn DEF IsFleet, IsTuple
<1>2. serving # {}
  BY DEF SubjectOwner
<1>3. serving \in SUBSET (1..Len(scanned))
  BY <1>1
<1> DEFINE k == CHOOSE i \in serving : \A j \in serving : j <= i
<1>4. k \in serving
  <2> HIDE DEF serving
  <2>1. \E i \in serving : \A j \in serving : j <= i
    BY <1>1, <1>2, <1>3, LastIn
  <2> QED
    BY <2>1
<1>5. SubjectOwner(scanned, s) = scanned[k].service.name
  BY <1>2 DEF SubjectOwner
<1> QED
  BY <1>1, <1>4, <1>5

\* The manifest of a fleet.
TheManifest(scanned) == BuildFleetManifest(scanned, "production").manifest

\* The manifest of a valid fleet: services that no two of are called alike, and an
\* edge from whoever calls to somebody who serves the call.
LEMMA ManifestOfFleet ==
  ASSUME NEW scanned, IsFleet(scanned), BuildFleetManifest(scanned, "production").errors = {}
  PROVE  LET m == TheManifest(scanned)
             N == Len(scanned)
         IN  /\ IsManifest(m) /\ N \in Nat /\ Len(m.services) = N
             /\ DOMAIN m.services = 1..N
             /\ \A i \in 1..N : m.services[i] = scanned[i].service
             /\ \A i, j \in 1..N :
                  m.services[i].name = m.services[j].name => i = j
             /\ \A i, j \in 1..N :
                  DeriveIdentity(m.services[i], "production").qualifiedName
                    = DeriveIdentity(m.services[j], "production").qualifiedName => i = j
             /\ \A d \in ToSet(m.services) : DefineService(d)
             /\ \A d \in ToSet(m.services) : \A s \in ToSet(CallSubjects(d)) :
                  \E v \in ToSet(m.services) :
                    /\ s \in OwnSubjects(v)
                    /\ [from |-> d.name, to |-> v.name, type |-> "calls"] \in ToSet(m.edges)
<1> DEFINE m == TheManifest(scanned)
           N == Len(scanned)
           services == [i \in DOMAIN scanned |-> scanned[i].service]
           names == [i \in DOMAIN scanned |-> scanned[i].service.name]
           identities == [i \in DOMAIN scanned |->
                            DeriveIdentity(scanned[i].service, "production").qualifiedName]
<1>1. N \in Nat /\ DOMAIN scanned = 1..N
  BY TupleIn DEF IsFleet, IsTuple
<1>2. m.services = services /\ m.edges = Edges(scanned)
  BY DEF TheManifest, BuildFleetManifest
<1>3. FleetErrors(scanned, "production") = {}
  BY DEF BuildFleetManifest
<1>4. /\ Shared(scanned, "duplicate-service-name", names) = {}
      /\ Shared(scanned, "duplicate-service-identity", identities) = {}
      /\ UnknownCalls(scanned) = {}
  BY <1>3 DEF FleetErrors
<1>5. DOMAIN services = 1..N /\ \A i \in 1..N : services[i] = scanned[i].service
  BY <1>1
<1>6. DOMAIN names = 1..N /\ \A i \in 1..N : names[i] = scanned[i].service.name
  BY <1>1
<1>7. /\ DOMAIN identities = 1..N
      /\ \A i \in 1..N : identities[i] =
                             DeriveIdentity(scanned[i].service, "production").qualifiedName
  BY <1>1
<1>8. services \in [1..N -> {scanned[i].service : i \in 1..N}]
  BY <1>5
<1> HIDE DEF services, names, identities, m, N
<1>9. IsTuple(services) /\ Len(services) = N
  BY <1>1, <1>8, ListTuple
<1>10. \A d : d \in ToSet(services) <=> \E i \in 1..N : d = scanned[i].service
  BY <1>5 DEF ToSet
<1>11. \A i \in 1..N : IsTyped(scanned[i].service) /\ DefineService(scanned[i].service)
  BY DEF IsFleet, N
<1>12. IsManifest(m)
  BY <1>2, <1>9, <1>10, <1>11, EdgesOfFleet DEF IsManifest
<1>13. \A i, j \in 1..N : names[i] = names[j] => i = j
  BY <1>1, <1>4, <1>6, SharedTells
<1>14. \A i, j \in 1..N : identities[i] = identities[j] => i = j
  BY <1>1, <1>4, <1>7, SharedTells
<1>15. ASSUME NEW i \in 1..N, NEW s \in ToSet(CallSubjects(scanned[i].service))
       PROVE  \E v \in ToSet(services) :
                /\ s \in OwnSubjects(v)
                /\ [from |-> scanned[i].service.name, to |-> v.name, type |-> "calls"]
                     \in ToSet(Edges(scanned))
  <2> DEFINE d == scanned[i].service
  <2>1. SubjectOwner(scanned, s) # None
    <3> SUFFICES ASSUME SubjectOwner(scanned, s) = None PROVE FALSE
      OBVIOUS
    <3>1. i \in {k \in DOMAIN scanned :
                   \E x \in ToSet(CallSubjects(scanned[k].service)) :
                     SubjectOwner(scanned, x) = None}
      BY <1>1
    <3> QED
      BY <1>4, <3>1 DEF UnknownCalls
  <2>2. PICK k \in 1..N : /\ s \in OwnSubjects(scanned[k].service)
                          /\ SubjectOwner(scanned, s) = scanned[k].service.name
    BY <2>1, OwnerServes DEF N
  <2>3. PICK c \in DOMAIN d.calls : s = CallSubjects(d)[c]
    BY DEF ToSet, CallSubjects
  <2>4. [from |-> d.name, to |-> SubjectOwner(scanned, s), type |-> "calls"]
          \in ToSet(EdgesOf(scanned, d))
    BY <1>11, <2>3, EdgesAre
  <2>5. [from |-> d.name, to |-> scanned[k].service.name, type |-> "calls"]
          \in ToSet(Edges(scanned))
    BY <2>2, <2>4, EdgesOfFleet DEF N
  <2> QED
    BY <1>10, <2>2, <2>5
<1>16. \A i, j \in 1..N : m.services[i].name = m.services[j].name => i = j
  BY <1>2, <1>5, <1>6, <1>13
<1>17. \A i, j \in 1..N :
         DeriveIdentity(m.services[i], "production").qualifiedName
           = DeriveIdentity(m.services[j], "production").qualifiedName => i = j
  BY <1>2, <1>5, <1>7, <1>14
<1>18. \A d \in ToSet(m.services) : DefineService(d)
  BY <1>2, <1>10, <1>11
<1>19. \A d \in ToSet(m.services) : \A s \in ToSet(CallSubjects(d)) :
         \E v \in ToSet(m.services) :
           /\ s \in OwnSubjects(v)
           /\ [from |-> d.name, to |-> v.name, type |-> "calls"] \in ToSet(m.edges)
  <2> TAKE d \in ToSet(m.services)
  <2>1. PICK i \in 1..N : d = scanned[i].service
    BY <1>2, <1>10
  <2> TAKE s \in ToSet(CallSubjects(d))
  <2>2. s \in ToSet(CallSubjects(scanned[i].service))
    BY <2>1
  <2> QED
    BY <1>2, <1>15, <2>1, <2>2
<1> QED
  BY <1>1, <1>2, <1>5, <1>9, <1>12, <1>16, <1>17, <1>18, <1>19 DEF m, N

------------------------------------------------------------------------------
(* What is generated of a fleet. *)

\* generated is what a script made of some fleet.
Generated(scanned, e, t) ==
  /\ IsFleet(scanned)
  /\ generated =
       [manifest |-> TheManifest(scanned), environment |-> e, target |-> t,
        result |-> IF BuildFleetManifest(scanned, "production").errors # {}
                   THEN None
                   ELSE GenerateAll(TheManifest(scanned), [environment |-> e, target |-> t])]

\* What the properties speak of, when the generation succeeded.
LEMMA WhatIsGenerated ==
  ASSUME NEW scanned, NEW e, NEW t, Generated(scanned, e, t), Written
  PROVE  /\ BuildFleetManifest(scanned, "production").errors = {}
         /\ generated.manifest = TheManifest(scanned) /\ IsManifest(generated.manifest)
         /\ generated.environment = e
         /\ Of("Deployment") = {DeploymentOf(d, [environment |-> e, target |-> t]) :
                                  d \in ToSet(generated.manifest.services)}
         /\ Of("ScaledObject") = {ScaledObject(d) : d \in ToSet(generated.manifest.services)}
         /\ Of("ExternalSecret") =
              UNION {{ExternalSecret(d, n, e) : n \in ToSet(d.needs)} :
                       d \in ToSet(generated.manifest.services)}
         /\ Of("CloudRun") \subseteq
              {ServerlessService(d, e) : d \in ToSet(generated.manifest.services)}
         /\ Of("credentials") =
              {TheCredentials(generated.manifest, [environment |-> e, target |-> t])}
         /\ \A d1, d2 \in ToSet(generated.manifest.services) : d1.name = d2.name => d1 = d2
<1> DEFINE m == TheManifest(scanned)
           o == [environment |-> e, target |-> t]
           errors == BuildFleetManifest(scanned, "production").errors
           result == IF errors # {} THEN None ELSE GenerateAll(m, o)
<1>1. generated = [manifest |-> m, environment |-> e, target |-> t, result |-> result]
  BY DEF Generated
<1>2. o.environment = e
  OBVIOUS
<1> HIDE DEF m, o, result, errors
<1>3. generated.manifest = m /\ generated.environment = e /\ generated.result = result
  BY <1>1
<1>4. errors = {} /\ result = GenerateAll(m, o) /\ ~GenerateAll(m, o).thrown
  BY <1>3 DEF Written, result
<1>5. IsFleet(scanned)
  BY DEF Generated
<1>6. /\ IsManifest(m) /\ Len(scanned) \in Nat /\ DOMAIN m.services = 1..Len(scanned)
      /\ \A i, j \in 1..Len(scanned) : m.services[i].name = m.services[j].name => i = j
  BY <1>4, <1>5, ManifestOfFleet DEF m, errors
<1>7. \A d1, d2 \in ToSet(m.services) : d1.name = d2.name => d1 = d2
  BY <1>6 DEF ToSet
<1>8. \A kind : Of(kind) = WrittenOf(m, o, kind)
  BY <1>3, <1>4 DEF Of, WrittenOf
<1> DEFINE Artifacts(x) ==
             /\ Of("Deployment") = {DeploymentOf(d, o) : d \in ToSet(x.services)}
             /\ Of("ScaledObject") = {ScaledObject(d) : d \in ToSet(x.services)}
             /\ Of("ExternalSecret") =
                  UNION {{ExternalSecret(d, n, e) : n \in ToSet(d.needs)} : d \in ToSet(x.services)}
             /\ Of("CloudRun") \subseteq {ServerlessService(d, e) : d \in ToSet(x.services)}
             /\ Of("credentials") = {TheCredentials(x, o)}
             /\ \A d1, d2 \in ToSet(x.services) : d1.name = d2.name => d1 = d2
<1>9. Artifacts(m)
  <2>1. /\ WrittenOf(m, o, "Deployment") = {DeploymentOf(d, o) : d \in ToSet(m.services)}
        /\ WrittenOf(m, o, "ScaledObject") = {ScaledObject(d) : d \in ToSet(m.services)}
        /\ WrittenOf(m, o, "ExternalSecret") =
             UNION {{ExternalSecret(d, n, o.environment) : n \in ToSet(d.needs)} :
                       d \in ToSet(m.services)}
        /\ WrittenOf(m, o, "CloudRun") \subseteq
             {ServerlessService(d, o.environment) : d \in ToSet(m.services)}
        /\ WrittenOf(m, o, "credentials") = {TheCredentials(m, o)}
    BY <1>4, <1>6, WhatIsWritten, Zenon
  <2> DEFINE secrets(w) == UNION {{ExternalSecret(d, n, w) : n \in ToSet(d.needs)} :
                                    d \in ToSet(m.services)}
             runs(w) == {ServerlessService(d, w) : d \in ToSet(m.services)}
  <2>2. secrets(o.environment) = secrets(e) /\ runs(o.environment) = runs(e)
    <3> HIDE DEF secrets, runs
    <3> QED
      BY <1>2
  <2>3. /\ Of("ExternalSecret") = secrets(e)
        /\ Of("CloudRun") \subseteq runs(e)
    <3>1. /\ WrittenOf(m, o, "ExternalSecret") = secrets(o.environment)
          /\ WrittenOf(m, o, "CloudRun") \subseteq runs(o.environment)
      BY <2>1, Zenon
    <3> HIDE DEF secrets, runs
    <3> QED
      BY <1>8, <2>2, <3>1
  <2>4. /\ Of("Deployment") = {DeploymentOf(d, o) : d \in ToSet(m.services)}
        /\ Of("ScaledObject") = {ScaledObject(d) : d \in ToSet(m.services)}
        /\ Of("credentials") = {TheCredentials(m, o)}
    BY <1>8, <2>1
  <2> QED
    BY <1>7, <2>3, <2>4
<1>10. generated.manifest = TheManifest(scanned) /\ IsManifest(generated.manifest)
  BY <1>3, <1>6 DEF m
<1>11. BuildFleetManifest(scanned, "production").errors = {} /\ generated.environment = e
  BY <1>3, <1>4 DEF errors
<1>12. m = generated.manifest
  BY <1>3
<1> HIDE DEF Artifacts
<1>13. Artifacts(generated.manifest)
  BY <1>9, <1>12, Zenon
<1> QED
  BY <1>10, <1>11, <1>13 DEF o, Artifacts

\* The least number of instances a kind of service allows.
Floor(d) == IF d.kind = "ephemeral" THEN 0 ELSE 1

\* No declared or default scale is below the floor of its kind (scale.ts).
LEMMA ScaleFloor ==
  ASSUME NEW d, IsTyped(d), DefineService(d)
  PROVE  ResolveScale(d).min \in Int /\ ResolveScale(d).min >= Floor(d)
<1> DEFINE k == ServiceKindProfiles[d.kind].minReplicas
           given == d.scale.min
<1>1. d.kind \in ServiceKinds /\ given \in Int \cup {None}
  BY DEF IsTyped
<1>2. k = Floor(d)
  BY <1>1 DEF ServiceKindProfiles, ServiceKinds, Floor
<1>3. ResolveScale(d).min = Given(given, k)
  BY DEF ResolveScale
<1>4. given # None => given >= 0 /\ (d.kind # "ephemeral" => given >= 1)
  BY DEF DefineService, ScaleIsValid
<1> HIDE DEF k, given
<1>5. CASE given = None
  BY <1>2, <1>3, <1>5 DEF Given, Floor
<1>6. CASE given # None
  BY <1>1, <1>3, <1>4, <1>6 DEF Given, Floor
<1> QED
  BY <1>5, <1>6

\* Clamped into the window of the platform the scale stays above the floor
\* (serverless.ts).
LEMMA ServerlessFloor ==
  ASSUME NEW d, IsTyped(d), DefineService(d)
  PROVE  LET s == ServerlessScale(d)
         IN  /\ Floor(d) <= s.minScale /\ s.minScale <= s.maxScale
             /\ s.maxScale <= Platform.maxScaleCeiling
<1> DEFINE a == Given(d.scale.min, IF d.kind = "ephemeral" THEN 0 ELSE 1)
           b == Given(d.scale.max, AtLeast(a, 1))
           lo == Platform.minScaleFloor
           hi == Platform.maxScaleCeiling
           x == Clamp(a, lo, hi)
           y == Clamp(AtLeast(b, x), x, hi)
<1>1. ServerlessScale(d).minScale = x /\ ServerlessScale(d).maxScale = y
  BY DEF ServerlessScale
<1>2. d.scale.min \in Int \cup {None} /\ d.scale.max \in Int \cup {None}
  BY DEF IsTyped
<1>3. d.scale.min # None => d.scale.min >= 0 /\ (d.kind # "ephemeral" => d.scale.min >= 1)
  BY DEF DefineService, ScaleIsValid
<1>4. a \in Int /\ a >= Floor(d) /\ Floor(d) \in {0, 1}
  BY <1>2, <1>3 DEF Given, Floor
<1>5. lo \in Int /\ hi \in Int /\ lo >= 0 /\ hi >= 1 /\ lo <= hi
  BY PlatformAssumption
<1> HIDE DEF a, lo, hi
<1>6. b \in Int
  BY <1>2, <1>4 DEF Given, AtLeast
<1> HIDE DEF b
<1>7. x \in Int /\ x <= hi /\ x >= Floor(d)
  BY <1>4, <1>5 DEF Clamp, AtLeast, AtMost
<1> HIDE DEF x
<1>8. y \in Int /\ x <= y /\ y <= hi
  BY <1>5, <1>6, <1>7 DEF Clamp, AtLeast, AtMost
<1> QED
  BY <1>1, <1>7, <1>8 DEF hi

\* FloorsHold of what is made of a fleet.
LEMMA GeneratedFloors ==
  ASSUME NEW scanned, NEW e, NEW t, Generated(scanned, e, t)
  PROVE  FloorsHold
<1> SUFFICES ASSUME Written,
                    NEW d \in ToSet(generated.manifest.services)
             PROVE  LET floor == IF d.kind = "ephemeral" THEN 0 ELSE 1
                    IN  /\ \A o \in Of("Deployment") : o.serviceName = d.name =>
                             /\ o.replicas >= floor
                             /\ \A k \in Of("ScaledObject") :
                                  k.name = d.name => k.minReplicaCount = o.replicas
                        /\ \A o \in Of("CloudRun") : o.name = d.name =>
                             /\ floor <= o.scale.minScale /\ o.scale.minScale <= o.scale.maxScale
                             /\ o.scale.maxScale <= Platform.maxScaleCeiling
  BY DEF FloorsHold
<1> DEFINE m == generated.manifest
           o0 == [environment |-> e, target |-> t]
<1>1. /\ BuildFleetManifest(scanned, "production").errors = {}
      /\ m = TheManifest(scanned) /\ IsManifest(m)
      /\ Of("Deployment") = {DeploymentOf(x, o0) : x \in ToSet(m.services)}
      /\ Of("ScaledObject") = {ScaledObject(x) : x \in ToSet(m.services)}
      /\ Of("CloudRun") \subseteq {ServerlessService(x, e) : x \in ToSet(m.services)}
      /\ \A d1, d2 \in ToSet(m.services) : d1.name = d2.name => d1 = d2
  BY WhatIsGenerated
<1>2. IsTyped(d) /\ DefineService(d)
  <2>1. \A x \in ToSet(TheManifest(scanned).services) : DefineService(x)
    BY <1>1, ManifestOfFleet DEF Generated
  <2> QED
    BY <1>1, <2>1 DEF IsManifest
<1> HIDE DEF o0, m
<1>3. \A x : /\ DeploymentOf(x, o0).serviceName = x.name
             /\ DeploymentOf(x, o0).replicas = ResolveScale(x).min
  BY DEF DeploymentOf, Deployment
<1>4. \A x : ScaledObject(x).name = x.name /\ ScaledObject(x).minReplicaCount = ResolveScale(x).min
  BY DEF ScaledObject
<1>5. \A x : /\ ServerlessService(x, e).name = x.name
             /\ ServerlessService(x, e).scale = ServerlessScale(x)
  BY DEF ServerlessService
<1>6. d \in ToSet(m.services)
  BY DEF m
<1>7. ASSUME NEW o \in Of("Deployment"), o.serviceName = d.name
      PROVE  /\ o.replicas >= Floor(d)
             /\ \A k \in Of("ScaledObject") : k.name = d.name => k.minReplicaCount = o.replicas
  <2>1. o = DeploymentOf(d, o0)
    BY <1>1, <1>3, <1>6, <1>7
  <2>2. \A k \in Of("ScaledObject") : k.name = d.name => k = ScaledObject(d)
    BY <1>1, <1>4, <1>6
  <2> QED
    BY <1>2, <1>3, <1>4, <2>1, <2>2, ScaleFloor
<1>8. ASSUME NEW o \in Of("CloudRun"), o.name = d.name
      PROVE  /\ Floor(d) <= o.scale.minScale /\ o.scale.minScale <= o.scale.maxScale
             /\ o.scale.maxScale <= Platform.maxScaleCeiling
  <2>1. o = ServerlessService(d, e)
    BY <1>1, <1>5, <1>6, <1>8
  <2> QED
    BY <1>2, <1>5, <2>1, ServerlessFloor
<1> QED
  BY <1>7, <1>8 DEF Floor

\* CallsAreGranted of what is made of a fleet.
LEMMA GeneratedGrants ==
  ASSUME NEW scanned, NEW e, NEW t, Generated(scanned, e, t)
  PROVE  CallsAreGranted
<1> SUFFICES ASSUME Written,
                    NEW d \in ToSet(generated.manifest.services),
                    NEW s \in ToSet(CallSubjects(d))
             PROVE  \E c \in Of("credentials") : \E u, v \in c.users :
                      /\ u.queue = d.name /\ Wire(s) \in u.publish \cap v.subscribe
                      /\ [from |-> d.name, to |-> v.queue, type |-> "calls"]
                           \in ToSet(generated.manifest.edges)
  BY DEF CallsAreGranted
<1> DEFINE m == generated.manifest
           o == [environment |-> e, target |-> t]
           env == NatsEnv(o.environment)
<1>1. /\ BuildFleetManifest(scanned, "production").errors = {}
      /\ m = TheManifest(scanned)
      /\ Of("credentials") = {TheCredentials(m, o)}
  BY WhatIsGenerated
<1>2. PICK w \in ToSet(m.services) :
         /\ s \in OwnSubjects(w)
         /\ [from |-> d.name, to |-> w.name, type |-> "calls"] \in ToSet(m.edges)
  <2>1. \A x \in ToSet(TheManifest(scanned).services) : \A y \in ToSet(CallSubjects(x)) :
          \E z \in ToSet(TheManifest(scanned).services) :
            /\ y \in OwnSubjects(z)
            /\ [from |-> x.name, to |-> z.name, type |-> "calls"]
                 \in ToSet(TheManifest(scanned).edges)
    BY <1>1, ManifestOfFleet DEF Generated
  <2> QED
    BY <1>1, <2>1
<1>3. TheCredentials(m, o).users = {AuthUser(x, env) : x \in ToSet(m.services)}
  BY DEF TheCredentials
<1>4. \A x : /\ AuthUser(x, env).queue = x.name
             /\ AuthUser(x, env).publish =
                  {Wire(y) : y \in ToSet(CallSubjects(x))} \cup {ReplyInbox}
             /\ AuthUser(x, env).subscribe = {Wire(y) : y \in OwnSubjects(x)} \cup {ReplyInbox}
  BY DEF AuthUser
<1> DEFINE c == TheCredentials(m, o)
           u == AuthUser(d, env)
           v == AuthUser(w, env)
<1>5. c \in Of("credentials")
  BY <1>1
<1>6. u \in c.users /\ v \in c.users
  BY <1>2, <1>3
<1>7. u.queue = d.name /\ v.queue = w.name /\ Wire(s) \in u.publish \cap v.subscribe
  BY <1>2, <1>4
<1> HIDE DEF c, u, v, m, o
<1> QED
  BY <1>2, <1>5, <1>6, <1>7 DEF m

\* A text of one word.
LEMMA Word ==
  ASSUME NEW S, NEW x \in S
  PROVE  <<x>> \in Seq(S)
  OBVIOUS

\* A text of two words.
LEMMA TwoWords ==
  ASSUME NEW S, NEW x \in S, NEW y \in S
  PROVE  <<x, y>> \in Seq(S) /\ Len(<<x, y>>) = 2
  OBVIOUS

\* The words of a text: the provers do not know a given one for a string.
Words == STRING \cup {".", "default", "prod", "dev", "test"}

\* The environment is a prefix of a qualified name: it tells nobody apart.
LEMMA QualifiedNames ==
  ASSUME NEW d1, NEW d2, IsTyped(d1), IsTyped(d2),
         NEW a \in {"production", "development", "test"},
         DeriveIdentity(d1, a).qualifiedName = DeriveIdentity(d2, a).qualifiedName
  PROVE  DeriveIdentity(d1, "production").qualifiedName
           = DeriveIdentity(d2, "production").qualifiedName
<1> DEFINE n1 == SplitName(d1.name)
           n2 == SplitName(d2.name)
           Text == Seq(Words)
           Of1(p) == (p \o n1.namespace) \o <<".">> \o n1.name
           Of2(p) == (p \o n2.namespace) \o <<".">> \o n2.name
           prefix(e) == <<EnvironmentTokens[e], ".">>
<1>1. \A name \in Text : SplitName(name).namespace \in Text /\ SplitName(name).name \in Text
  <2> TAKE name \in Text
  <2> DEFINE dots == {i \in DOMAIN name : name[i] = "."}
             last == CHOOSE i \in dots : \A j \in dots : j <= i
  <2>1. Len(name) \in Nat /\ DOMAIN name = 1..Len(name)
    BY LenProperties
  <2>2. CASE dots = {}
    <3>1. SplitName(name) = [namespace |-> <<"default">>, name |-> name]
      BY <2>2 DEF SplitName
    <3> QED
      BY <3>1, Word DEF Words
  <2>3. CASE dots # {}
    <3>1. \E i \in dots : \A j \in dots : j <= i
      <4>1. dots \in SUBSET (1..Len(name))
        BY <2>1
      <4> HIDE DEF dots
      <4> QED
        BY <2>1, <2>3, <4>1, LastIn
    <3>2. last \in dots
      <4> HIDE DEF dots
      <4> QED
        BY <3>1
    <3>3. SplitName(name) = [namespace |-> SubSeq(name, 1, last - 1),
                             name |-> SubSeq(name, last + 1, Len(name))]
      BY <2>3 DEF SplitName
    <3>4. last \in 1..Len(name)
      BY <2>1, <3>2
    <3> HIDE DEF last, dots
    <3>5. /\ SubSeq(name, 1, last - 1) \in Text
          /\ SubSeq(name, last + 1, Len(name)) \in Text
      BY <2>1, <3>4, SubSeqProperties
    <3> QED
      BY <3>3, <3>5
  <2> QED
    BY <2>2, <2>3
<1>2. /\ n1.namespace \in Text /\ n1.name \in Text
      /\ n2.namespace \in Text /\ n2.name \in Text
  <2>1. d1.name \in Text /\ d2.name \in Text
    BY TupleIn, WiderTuple DEF IsTyped, Words
  <2> QED
    BY <1>1, <2>1
<1>3. \A e : /\ DeriveIdentity(d1, e).qualifiedName = Of1(prefix(e))
             /\ DeriveIdentity(d2, e).qualifiedName = Of2(prefix(e))
  BY DEF DeriveIdentity
<1>4. \A e \in {"production", "development", "test"} : prefix(e) \in Text /\ Len(prefix(e)) = 2
  <2> TAKE e \in {"production", "development", "test"}
  <2> DEFINE x == EnvironmentTokens[e]
  <2>1. x \in Words /\ "." \in Words
    BY DEF EnvironmentTokens, Words
  <2>2. prefix(e) = <<x, ".">>
    BY DEF x
  <2> HIDE DEF x, prefix
  <2>3. <<x, ".">> \in Seq(Words) /\ Len(<<x, ".">>) = 2
    BY <2>1, TwoWords, Zenon
  <2> QED
    BY <2>2, <2>3
<1> DEFINE t1 == n1.namespace \o (<<".">> \o n1.name)
           t2 == n2.namespace \o (<<".">> \o n2.name)
<1> HIDE DEF prefix, n1, n2
<1>5. t1 \in Text /\ t2 \in Text
  <2> HIDE DEF Text
  <2>1. \A x, y \in Text : x \o y \in Text
    BY ConcatProperties DEF Text
  <2>2. <<".">> \in Text
    BY Word DEF Text, Words
  <2> QED
    BY <1>2, <2>1, <2>2
<1>6. \A p \in Text : Of1(p) = p \o t1 /\ Of2(p) = p \o t2
  <2> TAKE p \in Text
  <2> HIDE DEF Text
  <2>1. ASSUME NEW x \in Text, NEW y \in Text
        PROVE  (p \o x) \o <<".">> \o y = p \o (x \o (<<".">> \o y))
    <3>1. <<".">> \in Text
      BY Word DEF Text, Words
    <3>2. /\ p \o x \in Text /\ <<".">> \o y \in Text
          /\ ((p \o x) \o <<".">>) \o y = (p \o x) \o (<<".">> \o y)
      BY <3>1, ConcatProperties, ConcatAssociative DEF Text
    <3>3. (p \o x) \o (<<".">> \o y) = p \o (x \o (<<".">> \o y))
      BY <3>2, ConcatAssociative DEF Text
    <3> QED
      BY <3>2, <3>3
  <2> QED
    BY <1>2, <2>1
<1> HIDE DEF t1, t2, Of1, Of2
<1>7. ASSUME NEW p \in Text, p \o t1 = p \o t2
      PROVE  t1 = t2
  BY <1>5, <1>7, ConcatSimplifications
<1>8. prefix(a) \in Text /\ Len(prefix(a)) = 2 /\ prefix("production") \in Text
  BY <1>4
<1>9. prefix(a) \o t1 = prefix(a) \o t2
  BY <1>3, <1>6, <1>8
<1>10. t1 = t2
  BY <1>7, <1>8, <1>9
<1> QED
  BY <1>3, <1>6, <1>8, <1>10

\* As many of anything as there are numbers, when the numbers tell them apart.
LEMMA CountedBy ==
  ASSUME NEW N \in Nat, NEW f, DOMAIN f = 1..N,
         \A i, j \in 1..N : f[i] = f[j] => i = j
  PROVE  Cardinality({f[i] : i \in 1..N}) = N
<1> DEFINE T == {f[i] : i \in 1..N}
           g == [i \in 1..N |-> f[i]]
<1>1. g \in Bijection(1..N, T)
  <2>1. g \in [1..N -> T] /\ \A t \in T : \E i \in 1..N : g[i] = t
    OBVIOUS
  <2>2. \A i, j \in 1..N : g[i] = g[j] => i = j
    OBVIOUS
  <2> HIDE DEF g, T
  <2> QED
    BY <2>1, <2>2 DEF Bijection, Injection, Surjection, IsInjective
<1> HIDE DEF g, T
<1>2. ExistsBijection(1..N, T)
  BY <1>1 DEF ExistsBijection
<1>3. IsFiniteSet(1..N) /\ Cardinality(1..N) = N
  BY FS_Interval
<1> QED
  BY <1>2, <1>3, FS_Bijection DEF T

\* EveryServiceIsDeployed of what is made of a fleet.
LEMMA GeneratedDeployments ==
  ASSUME NEW scanned, NEW e, NEW t, Generated(scanned, e, t)
  PROVE  EveryServiceIsDeployed
<1> SUFFICES ASSUME Written,
                    NEW d \in ToSet(generated.manifest.services)
             PROVE  /\ Cardinality({o \in Of("Deployment") : o.serviceName = d.name}) = 1
                    /\ \A n \in ToSet(d.needs) :
                         \E o \in Of("ExternalSecret") :
                           o.remoteKey = <<generated.environment, d.name, n>>
                    /\ Cardinality({o \in Of("ScaledObject") : o.name = d.name}) = 1
                    /\ Cardinality({o.queueGroup : o \in Of("Deployment")})
                         = Len(generated.manifest.services)
  BY DEF EveryServiceIsDeployed
<1> DEFINE m == generated.manifest
           o0 == [environment |-> e, target |-> t]
           N == Len(scanned)
           env == KubernetesEnv(e)
           group(x) == DeriveIdentity(x, env).qualifiedName
<1>1. /\ BuildFleetManifest(scanned, "production").errors = {}
      /\ m = TheManifest(scanned) /\ IsManifest(m) /\ generated.environment = e
      /\ Of("Deployment") = {DeploymentOf(x, o0) : x \in ToSet(m.services)}
      /\ Of("ScaledObject") = {ScaledObject(x) : x \in ToSet(m.services)}
      /\ Of("ExternalSecret") =
           UNION {{ExternalSecret(x, n, e) : n \in ToSet(x.needs)} : x \in ToSet(m.services)}
      /\ \A d1, d2 \in ToSet(m.services) : d1.name = d2.name => d1 = d2
  BY WhatIsGenerated
<1>2. /\ N \in Nat /\ Len(m.services) = N /\ DOMAIN m.services = 1..N
      /\ \A i, j \in 1..N :
           DeriveIdentity(m.services[i], "production").qualifiedName
             = DeriveIdentity(m.services[j], "production").qualifiedName => i = j
  <2>1. LET M == TheManifest(scanned)
        IN  /\ N \in Nat /\ Len(M.services) = N /\ DOMAIN M.services = 1..N
            /\ \A i, j \in 1..N :
                 DeriveIdentity(M.services[i], "production").qualifiedName
                   = DeriveIdentity(M.services[j], "production").qualifiedName => i = j
    BY <1>1, ManifestOfFleet DEF Generated
  <2> HIDE DEF m
  <2> QED
    BY <1>1, <2>1
<1>3. \A x : /\ DeploymentOf(x, o0).serviceName = x.name
             /\ DeploymentOf(x, o0).queueGroup = group(x)
  BY DEF DeploymentOf, Deployment
<1>4. \A x : ScaledObject(x).name = x.name
  BY DEF ScaledObject
<1>5. \A x, n : ExternalSecret(x, n, e).remoteKey = <<e, x.name, n>>
  BY DEF ExternalSecret
<1>6. env \in {"production", "development", "test"}
  BY DEF KubernetesEnv, EnvironmentOf
<1> HIDE DEF m, o0, N, env
<1>7. d \in ToSet(m.services)
  BY DEF m
<1>8. \A x : IsFiniteSet({x}) /\ Cardinality({x}) = 1
  BY FS_Singleton
<1>9. Cardinality({o \in Of("Deployment") : o.serviceName = d.name}) = 1
  <2>1. {o \in Of("Deployment") : o.serviceName = d.name} = {DeploymentOf(d, o0)}
    <3>1. \A o : o \in Of("Deployment") <=> \E x \in ToSet(m.services) : o = DeploymentOf(x, o0)
      BY <1>1
    <3>2. \A x : DeploymentOf(x, o0).serviceName = x.name
      BY <1>3
    <3>3. \A x \in ToSet(m.services) : x.name = d.name => x = d
      BY <1>1, <1>7
    <3> QED
      BY <1>7, <3>1, <3>2, <3>3
  <2> QED
    BY <1>8, <2>1
<1>10. Cardinality({o \in Of("ScaledObject") : o.name = d.name}) = 1
  <2>1. {o \in Of("ScaledObject") : o.name = d.name} = {ScaledObject(d)}
    BY <1>1, <1>4, <1>7
  <2> QED
    BY <1>8, <2>1
<1>11. ASSUME NEW n \in ToSet(d.needs)
       PROVE  \E o \in Of("ExternalSecret") :
                o.remoteKey = <<generated.environment, d.name, n>>
  <2>1. ExternalSecret(d, n, e) \in Of("ExternalSecret")
    BY <1>1, <1>7
  <2> QED
    BY <1>1, <1>5, <2>1
<1>12. Cardinality({o.queueGroup : o \in Of("Deployment")}) = Len(m.services)
  <2> DEFINE f == [i \in 1..N |-> group(m.services[i])]
  <2>1. {o.queueGroup : o \in Of("Deployment")} = {group(x) : x \in ToSet(m.services)}
    <3> HIDE DEF group
    <3> QED
      BY <1>1, <1>3
  <2>2. ToSet(m.services) = {m.services[i] : i \in 1..N}
    BY <1>2 DEF ToSet
  <2>3. {group(x) : x \in ToSet(m.services)} = {f[i] : i \in 1..N}
    <3> HIDE DEF group
    <3> QED
      BY <2>2
  <2>4. ASSUME NEW i \in 1..N, NEW j \in 1..N, f[i] = f[j] PROVE i = j
    <3> DEFINE a == m.services[i]
               b == m.services[j]
    <3>1. a \in ToSet(m.services) /\ b \in ToSet(m.services)
      BY <2>2
    <3>2. IsTyped(a) /\ IsTyped(b)
      BY <1>1, <3>1 DEF IsManifest
    <3>3. group(a) = group(b)
      <4> HIDE DEF group
      <4> QED
        BY <2>4
    <3>4. DeriveIdentity(a, "production").qualifiedName
            = DeriveIdentity(b, "production").qualifiedName
      <4> HIDE DEF a, b
      <4> QED
        BY <1>6, <3>2, <3>3, QualifiedNames
    <3> QED
      BY <1>2, <3>4
  <2>5. DOMAIN f = 1..N
    OBVIOUS
  <2> HIDE DEF f
  <2>6. Cardinality({f[i] : i \in 1..N}) = N
    BY <1>2, <2>4, <2>5, CountedBy
  <2> QED
    BY <1>2, <2>1, <2>3, <2>6
<1> QED
  BY <1>9, <1>10, <1>11, <1>12 DEF m

\* What the glob finds are files that are there.
LEMMA GlobbedFiles == Globbed \in Seq({f \in FileSet : disk[f] # Absent})
<1> DEFINE L == Len(Files)
           P == {f \in FileSet : disk[f] # Absent}
           next(s, n) == IF disk[Files[n]] = Absent THEN s ELSE Append(s, Files[n])
           Def(f, M) == [n \in 0..M |-> IF n = 0 THEN <<>> ELSE next(f[n - 1], n)]
<1>1. L \in Nat /\ \A n \in 1..L : Files[n] \in FileSet
  BY FilesAssumption, LenProperties DEF FileSet
<1>2. \E f : f = Def(f, L)
  <2> DEFINE Exists(M) == \E f : f = Def(f, M)
             T == {M \in Nat : Exists(M)}
  <2>1. 0 \in T
    <3> DEFINE f == [n \in 0..0 |-> <<>>]
    <3>1. f = Def(f, 0)
      OBVIOUS
    <3> HIDE DEF f, Def
    <3> QED
      BY <3>1
  <2>2. ASSUME NEW M \in Nat, M \in T PROVE M + 1 \in T
    <3>1. PICK f : f = Def(f, M)
      <4> HIDE DEF Def
      <4> QED
        BY <2>2
    <3> DEFINE e == next(f[M], M + 1)
               h == [n \in 0..(M + 1) |-> IF n = M + 1 THEN e ELSE f[n]]
    <3>2. \A n \in 0..M : f[n] = IF n = 0 THEN <<>> ELSE next(f[n - 1], n)
      <4>1. \A n \in 0..M : f[n] = Def(f, M)[n]
        <5> HIDE DEF Def
        <5> QED
          BY <3>1
      <4> HIDE DEF next
      <4>2. \A n \in 0..M : Def(f, M)[n] = IF n = 0 THEN <<>> ELSE next(f[n - 1], n)
        OBVIOUS
      <4> HIDE DEF Def
      <4> QED
        BY <4>1, <4>2
    <3> HIDE DEF e, next
    <3>3. /\ h[M + 1] = e /\ \A n \in 0..M : h[n] = f[n]
          /\ DOMAIN h = 0..(M + 1) /\ h = [n \in 0..(M + 1) |-> h[n]]
      OBVIOUS
    <3> HIDE DEF h
    <3>4. \A n \in 0..(M + 1) : h[n] = IF n = 0 THEN <<>> ELSE next(h[n - 1], n)
      <4> TAKE n \in 0..(M + 1)
      <4>1. CASE n = M + 1
        <5>1. n - 1 = M /\ n # 0 /\ M \in 0..M
          BY <4>1
        <5>2. h[n] = e /\ h[n - 1] = f[M]
          BY <3>3, <4>1, <5>1
        <5> QED
          BY <4>1, <5>1, <5>2 DEF e
      <4>2. CASE n \in 0..M
        <5>1. n # 0 => n - 1 \in 0..M
          BY <4>2
        <5> QED
          BY <3>2, <3>3, <4>2, <5>1
      <4>3. n \in 0..M \/ n = M + 1
        OBVIOUS
      <4> QED
        BY <4>1, <4>2, <4>3
    <3>5. h = Def(h, M + 1)
      BY <3>3, <3>4
    <3> HIDE DEF Def
    <3> QED
      BY <3>5
  <2> HIDE DEF T
  <2>3. L \in T
    BY <1>1, <2>1, <2>2, Climb
  <2> QED
    BY <2>3 DEF T
<1> DEFINE w == CHOOSE f : f = Def(f, L)
<1>3. w = Def(w, L)
  <2> HIDE DEF Def
  <2> QED
    BY <1>2
<1>4. Globbed = w[L]
  BY DEF Globbed
<1>5. \A n \in 0..L : w[n] = IF n = 0 THEN <<>> ELSE next(w[n - 1], n)
  <2> HIDE DEF next
  <2>1. \A n \in 0..L : w[n] = Def(w, L)[n]
    <3> HIDE DEF Def, w
    <3> QED
      BY <1>3
  <2> HIDE DEF w
  <2>2. \A n \in 0..L : Def(w, L)[n] = IF n = 0 THEN <<>> ELSE next(w[n - 1], n)
    OBVIOUS
  <2> HIDE DEF Def
  <2> QED
    BY <2>1, <2>2
<1> HIDE DEF w, Def
<1> DEFINE T == {n \in Nat : n <= L => w[n] \in Seq(P)}
<1>6. 0 \in T
  <2>1. w[0] = <<>>
    BY <1>1, <1>5
  <2> HIDE DEF P
  <2>2. w[0] \in Seq(P)
    BY <2>1
  <2> QED
    BY <2>2
<1>7. ASSUME NEW n \in Nat, n \in T PROVE n + 1 \in T
  <2> SUFFICES ASSUME n + 1 <= L PROVE w[n + 1] \in Seq(P)
    OBVIOUS
  <2>1. n + 1 \in 0..L /\ n + 1 \in 1..L /\ n + 1 # 0 /\ (n + 1) - 1 = n /\ n <= L
    BY <1>1
  <2>2. w[n] \in Seq(P)
    BY <1>7, <2>1
  <2>3. w[n + 1] = next(w[n], n + 1)
    BY <1>5, <2>1
  <2>4. Files[n + 1] \in FileSet
    BY <1>1, <2>1
  <2> HIDE DEF P
  <2>5. CASE disk[Files[n + 1]] = Absent
    BY <2>2, <2>3, <2>5
  <2>6. CASE disk[Files[n + 1]] # Absent
    <3>1. Files[n + 1] \in P
      BY <2>4, <2>6 DEF P
    <3> QED
      BY <2>2, <2>3, <2>6, <3>1, AppendProperties
  <2> QED
    BY <2>5, <2>6
<1> HIDE DEF T
<1>8. L \in T
  BY <1>1, <1>6, <1>7, Climb
<1> QED
  BY <1>1, <1>4, <1>8 DEF T, P

------------------------------------------------------------------------------
(* What the command generates. *)

\* A generation reads a disk that nobody touches, with no module loaded, and what it
\* made is made of a fleet.
MadeOfAFleet ==
  /\ Whole
  /\ dev.pc = "script" => disk \in ScriptDisks /\ modules = Unloaded
  /\ generated # None => \E scanned, e, t : Generated(scanned, e, t)

\* What a generation scans is a fleet: each file there loads as what it holds.
LEMMA ScannedFleet ==
  ASSUME disk \in ScriptDisks, modules = Unloaded,
         \A f \in FileSet : disk[f] # Absent => Loads(disk[f])
  PROVE  IsFleet([i \in DOMAIN Globbed |-> Scanned(Globbed[i])])
<1> DEFINE P == {f \in FileSet : disk[f] # Absent}
           N == Len(Globbed)
           fleet == [i \in DOMAIN Globbed |-> Scanned(Globbed[i])]
<1>1. N \in Nat /\ DOMAIN Globbed = 1..N /\ \A i \in 1..N : Globbed[i] \in P
  BY GlobbedFiles, LenProperties
<1>2. \A f \in P : Imported(f) = disk[f] /\ IsTyped(disk[f]) /\ DefineService(disk[f])
  <2> TAKE f \in P
  <2>1. modules[f] = None
    BY DEF Unloaded
  <2>2. Imported(f) = disk[f]
    BY <2>1 DEF Imported
  <2>3. IsDeclaration(disk[f]) /\ DefineService(disk[f])
    BY DEF Loads
  <2>4. f \in ToSet(Files)
    BY DEF FileSet
  <2>5. IsTyped(disk[f])
    BY <2>3, <2>4, DisksAssumption DEF IsDeclaration
  <2> QED
    BY <2>2, <2>3, <2>5
<1> HIDE DEF P, N
<1>3. DOMAIN fleet = 1..N /\ \A i \in 1..N : fleet[i].service = Imported(Globbed[i])
  BY <1>1 DEF Scanned
<1>4. fleet \in [1..N -> ToSet(fleet)]
  BY <1>1 DEF ToSet
<1> HIDE DEF fleet
<1>5. IsTuple(fleet) /\ Len(fleet) = N
  BY <1>1, <1>4, ListTuple
<1>6. \A i \in 1..N : IsTyped(fleet[i].service) /\ DefineService(fleet[i].service)
  BY <1>1, <1>2, <1>3
<1> QED
  BY <1>5, <1>6 DEF IsFleet, fleet

\* What a generation makes it makes of a fleet.
LEMMA ScriptMakes ==
  ASSUME MadeOfAFleet, Script
  PROVE  \E scanned, e, t : Generated(scanned, e, t)'
<1> DEFINE scanned == [i \in DOMAIN Globbed |-> Scanned(Globbed[i])]
           fleet == BuildFleetManifest(scanned, "production")
<1>1. IsFleet(scanned)
  BY ScannedFleet DEF MadeOfAFleet, Script
<1>2. PICK e \in Environments, t \in {"kubernetes", "serverless"} :
         generated' = [manifest |-> fleet.manifest, environment |-> e, target |-> t,
                       result |-> IF fleet.errors # {}
                                  THEN None
                                  ELSE GenerateAll(fleet.manifest,
                                                   [environment |-> e, target |-> t])]
  BY DEF Script
<1> HIDE DEF scanned
<1>3. generated' =
        [manifest |-> TheManifest(scanned), environment |-> e, target |-> t,
         result |-> IF BuildFleetManifest(scanned, "production").errors # {}
                    THEN None
                    ELSE GenerateAll(TheManifest(scanned), [environment |-> e, target |-> t])]
  BY <1>2 DEF TheManifest
<1> QED
  BY <1>1, <1>3 DEF Generated

\* Nothing is generated at first.
LEMMA MadeAtFirst == Init => MadeOfAFleet
BY OffIsWhole DEF Init, MadeOfAFleet, Whole, DevOff, Fields

\* Only a process that is one from the start generates.
LEMMA NoScriptBegins ==
  ASSUME Whole, [Next]_vars, dev'.pc = "script"
  PROVE  dev.pc = "script"
<1>1. CASE StartDev
  BY <1>1 DEF StartDev, GlobFrom, DevOff
<1>2. CASE RefuseProduction
  BY <1>2 DEF RefuseProduction, vars
<1>3. \A ok : Converged(ok).pc # "script"
  BY DEF Converged, DevOff, Whole, Fields
<1>4. CASE Import
  <2>1. CASE dev' = Converged(FALSE)
    BY <2>1, <1>3
  <2>2. CASE dev' = [dev EXCEPT !.todo = Tail(@), !.scanned = Append(@, Scanned(Head(dev.todo)))]
    BY <1>4, <2>2 DEF Import, Whole, Fields
  <2> QED
    BY <1>4, <2>1, <2>2 DEF Import
<1>5. CASE PlanCycle
  <2>1. CASE dev' = Converged(FALSE)
    BY <2>1, <1>3
  <2>2. CASE dev' # Converged(FALSE)
    BY <1>5, <2>2 DEF PlanCycle, Whole, Fields
  <2> QED
    BY <2>1, <2>2
<1>6. CASE Apply
  <2>1. CASE \E ok \in BOOLEAN : dev' = Converged(ok)
    BY <2>1, <1>3
  <2>2. CASE dev' = [dev EXCEPT !.pc = "write"]
    BY <2>2 DEF Whole, Fields
  <2> QED
    BY <1>6, <2>1, <2>2 DEF Apply
<1>7. CASE WriteSnapshot
  BY <1>7, <1>3 DEF WriteSnapshot
<1>8. CASE Notify
  BY <1>8 DEF Notify, Whole, Fields
<1>9. CASE StartCycle
  BY <1>9 DEF StartCycle, GlobFrom, Whole, Fields
<1>10. CASE Save
  BY <1>10 DEF Save, Whole, Fields
<1>11. CASE Interrupt
  BY <1>11 DEF Interrupt, DevOff
<1>12. CASE RemoveSnapshot
  BY <1>12 DEF RemoveSnapshot
<1>13. CASE Script
  BY <1>13 DEF Script
<1>14. CASE UNCHANGED vars
  BY <1>14 DEF vars
<1> QED
  BY <1>1, <1>2, <1>4, <1>5, <1>6, <1>7, <1>8, <1>9, <1>10, <1>11, <1>12, <1>13, <1>14
     DEF Next, DevSteps

\* Every step keeps MadeOfAFleet.
LEMMA StaysMade ==
  ASSUME MadeOfAFleet, [Next]_vars
  PROVE  MadeOfAFleet'
<1>1. Whole'
  BY StaysWhole DEF MadeOfAFleet
<1>2. (dev.pc = "script" => disk \in ScriptDisks /\ modules = Unloaded)'
  <2> SUFFICES ASSUME dev'.pc = "script"
               PROVE  disk' \in ScriptDisks /\ modules' = Unloaded
    BY DEF Unloaded
  <2>1. dev.pc = "script" /\ disk \in ScriptDisks /\ modules = Unloaded
    BY NoScriptBegins DEF MadeOfAFleet
  <2>2. UNCHANGED <<disk, modules>>
    BY <2>1 DEF Next, DevSteps, StartDev, RefuseProduction, Import, PlanCycle, Apply,
                WriteSnapshot, Notify, StartCycle, Save, Interrupt, RemoveSnapshot, Script, vars
  <2> QED
    BY <2>1, <2>2
<1>3. (generated # None => \E scanned, e, t : Generated(scanned, e, t))'
  <2> SUFFICES ASSUME generated' # None
               PROVE  \E scanned, e, t : Generated(scanned, e, t)'
    OBVIOUS
  <2>1. CASE Script
    BY <2>1, ScriptMakes
  <2>2. CASE ~Script
    <3>1. generated' = generated
      BY <2>2 DEF Next, DevSteps, StartDev, RefuseProduction, Import, PlanCycle, Apply,
                  WriteSnapshot, Notify, StartCycle, Save, Interrupt, RemoveSnapshot, vars
    <3>2. PICK scanned, e, t : Generated(scanned, e, t)
      BY <3>1 DEF MadeOfAFleet
    <3>3. Generated(scanned, e, t)'
      BY <3>1, <3>2 DEF Generated
    <3> QED
      BY <3>3
  <2> QED
    BY <2>1, <2>2
<1> QED
  BY <1>1, <1>2, <1>3 DEF MadeOfAFleet

\* What the properties say of the artifacts, whatever the fleet.
LEMMA ArtifactsAgree ==
  ASSUME MadeOfAFleet
  PROVE  FloorsHold /\ CallsAreGranted /\ EveryServiceIsDeployed
<1>1. CASE generated = None
  BY <1>1 DEF FloorsHold, CallsAreGranted, EveryServiceIsDeployed, Written
<1>2. CASE generated # None
  BY <1>2, GeneratedFloors, GeneratedGrants, GeneratedDeployments DEF MadeOfAFleet
<1> QED
  BY <1>1, <1>2

\* FloorsHold for every fleet, platform and environment: no target scales a persistent
\* or workflow service to zero (scale.ts, kubernetes.ts, autoscaler.ts, serverless.ts).
THEOREM FloorsAreHeld == Spec => []FloorsHold
<1>1. MadeOfAFleet => FloorsHold
  BY ArtifactsAgree
<1> QED
  BY <1>1, MadeAtFirst, StaysMade, PTL DEF Spec

\* CallsAreGranted for every fleet: who calls may publish what some service of the
\* graph subscribes to (manifest.ts, nats-credentials.ts).
THEOREM EveryCallIsGranted == Spec => []CallsAreGranted
<1>1. MadeOfAFleet => CallsAreGranted
  BY ArtifactsAgree
<1> QED
  BY <1>1, MadeAtFirst, StaysMade, PTL DEF Spec

\* EveryServiceIsDeployed for every fleet: a generation that succeeds has one
\* Deployment, one ScaledObject and one queue group of its own for each service, and a
\* remote secret for each need (generator.ts collect, kubernetes.ts, secret-binding.ts).
THEOREM NoServiceIsLost == Spec => []EveryServiceIsDeployed
<1>1. MadeOfAFleet => EveryServiceIsDeployed
  BY ArtifactsAgree
<1> QED
  BY <1>1, MadeAtFirst, StaysMade, PTL DEF Spec
==============================================================================
