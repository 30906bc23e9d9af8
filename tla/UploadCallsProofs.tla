---------------------------- MODULE UploadCallsProofs ---------------------------
(***************************************************************************)
(* What is proved of a clientStream or a duplex call, for every set of     *)
(* calls: every window, number of inputs and outputs, budget of faults,    *)
(* choice of timers and set of events.                                     *)
(*                                                                         *)
(* One inductive invariant, UploadInv: what a frame says of its sender     *)
(* wherever it is (PumpInOrder, HostInOrder), what the queue between drain *)
(* and handler holds (GivenInOrder), who waits for a credit (Windows), and *)
(* the sums of credits, outputs and grants of each window.  The steps are  *)
(* proved in families that disturb the same parts: ClientTurns, PumpTurns, *)
(* HostTurns, HostRests and HostStarts each keep the invariant, and every  *)
(* action is shown to be one of them.                                      *)
(***************************************************************************)
EXTENDS UploadCalls, StreamLemmas, WellFoundedInduction

-------------------------------------------------------------------------------
(* Induction on numbers, from the least element of a set of numbers: a         *)
(* recursive function is reasoned about with the set of the arguments for      *)
(* which a claim holds.                                                        *)

\* A set of numbers that has 0 and the successor of its members has them all.
LEMMA Climb ==
  ASSUME NEW T, 0 \in T, \A n \in Nat : n \in T => n + 1 \in T
  PROVE  Nat \subseteq T
<1> SUFFICES ASSUME Nat \ T # {} PROVE FALSE
  OBVIOUS
<1> DEFINE R == OpToRel(<, Nat)
<1>1. IsWellFoundedOn(R, Nat)
  BY NatLessThanWellFounded, Zenon
<1>2. \A x, y \in Nat : <<x, y>> \in R <=> x < y
  BY DEF OpToRel
<1> HIDE DEF R
<1>3. PICK n \in Nat \ T : \A m \in Nat \ T : <<m, n>> \notin R
  BY <1>1, WFMin
<1>4. n # 0 /\ n \in Nat
  BY <1>3
<1>5. n - 1 \in Nat /\ n - 1 < n /\ n = (n - 1) + 1
  BY <1>4
<1>6. n - 1 \notin Nat \ T
  BY <1>2, <1>3, <1>4, <1>5
<1> QED
  BY <1>3, <1>5, <1>6

-------------------------------------------------------------------------------
(* What the CreditFrames of a FIFO grant.                                      *)

\* What one frame grants.
Grants(f) == IF f.t = "c" THEN f.data ELSE 0

\* What the frames of s grant together, first to last.
Summed(s, w) ==
  /\ w[0] = 0
  /\ \A n \in 1..Len(s) : w[n] = w[n - 1] + Grants(s[n])

\* Granted is the last of the partial sums.
LEMMA GrantedSums ==
  ASSUME NEW s \in Seq(Frame)
  PROVE  \E w : Summed(s, w) /\ Granted(s) = w[Len(s)]
<1> DEFINE g(n) == IF s[n].t = "c" THEN s[n].data ELSE 0
           N == Len(s)
           Def(f, M) == [n \in 0..M |-> IF n = 0 THEN 0 ELSE f[n - 1] + g(n)]
<1>n. N \in Nat
  BY LenProperties
<1>1. \E f : f = Def(f, N)
  <2> DEFINE T == {M \in Nat : \E f : f = Def(f, M)}
  <2>1. 0 \in T
    <3> DEFINE f == [n \in 0..0 |-> 0]
    <3>1. f = Def(f, 0)
      OBVIOUS
    <3> QED
      BY <3>1
  <2>2. ASSUME NEW M \in Nat, M \in T PROVE M + 1 \in T
    <3>1. PICK f : f = Def(f, M)
      BY <2>2
    <3> DEFINE h == [n \in 0..(M + 1) |-> IF n = M + 1 THEN f[M] + g(M + 1) ELSE f[n]]
    <3>2. \A n \in 0..M : h[n] = f[n] /\ f[n] = IF n = 0 THEN 0 ELSE f[n - 1] + g(n)
      <4> HIDE DEF g
      <4>1. \A n \in 0..M : h[n] = f[n]
        OBVIOUS
      <4>2. \A n \in 0..M : f[n] = Def(f, M)[n]
        <5> HIDE DEF Def
        <5> QED
          BY <3>1
      <4> HIDE DEF h
      <4>3. \A n \in 0..M : Def(f, M)[n] = IF n = 0 THEN 0 ELSE f[n - 1] + g(n)
        OBVIOUS
      <4> HIDE DEF Def
      <4> QED
        BY <4>1, <4>2, <4>3
    <3>3. h[M + 1] = f[M] + g(M + 1)
      <4> HIDE DEF g
      <4> QED
        OBVIOUS
    <3>4. M \in 0..M /\ \A n \in 0..(M + 1) : n = M + 1 \/ n \in 0..M
      OBVIOUS
    <3>5. DOMAIN h = 0..(M + 1) /\ h = [n \in 0..(M + 1) |-> h[n]]
      OBVIOUS
    <3> HIDE DEF h
    <3>6. \A n \in 0..(M + 1) : h[n] = IF n = 0 THEN 0 ELSE h[n - 1] + g(n)
      <4> TAKE n \in 0..(M + 1)
      <4> HIDE DEF g
      <4>1. CASE n = M + 1
        BY <3>2, <3>3, <3>4, <4>1
      <4>2. CASE n \in 0..M
        <5>1. n # 0 => n - 1 \in 0..M
          BY <4>2
        <5> QED
          BY <3>2, <4>2, <5>1
      <4> QED
        BY <3>4, <4>1, <4>2
    <3>7. h = Def(h, M + 1)
      <4> HIDE DEF g
      <4> QED
        BY <3>5, <3>6
    <3>8. \E e : e = Def(e, M + 1)
      <4> HIDE DEF Def
      <4> QED
        BY <3>7
    <3> QED
      BY <3>8
  <2> HIDE DEF T
  <2>3. N \in T
    BY <1>n, <2>1, <2>2, Climb
  <2> QED
    BY <2>3 DEF T
<1> DEFINE w == CHOOSE f : f = Def(f, N)
<1>2. w = Def(w, N)
  <2> HIDE DEF Def
  <2> QED
    BY <1>1
<1>3. Granted(s) = w[N]
  BY DEF Granted
<1> HIDE DEF w, N
<1>4. \A n \in 0..N : w[n] = IF n = 0 THEN 0 ELSE w[n - 1] + g(n)
  <2> HIDE DEF g
  <2> QED
    BY <1>2
<1>5. \A n \in 1..N : g(n) = Grants(s[n])
  BY DEF Grants
<1> HIDE DEF g
<1>6. w[0] = 0
  BY <1>n, <1>4
<1>7. \A n \in 1..N : w[n] = w[n - 1] + Grants(s[n])
  BY <1>n, <1>4, <1>5
<1> QED
  BY <1>3, <1>6, <1>7 DEF Summed, N

\* A frame grants a number of credits; partial sums are numbers.
LEMMA GrantsType == \A f \in Frame : Grants(f) \in Nat
BY DEF Frame, Grants

\* Partial sums are numbers.
LEMMA SummedType ==
  ASSUME NEW s \in Seq(Frame), NEW w, Summed(s, w)
  PROVE  \A n \in 0..Len(s) : w[n] \in Nat
<1> DEFINE T == {n \in Nat : n <= Len(s) => w[n] \in Nat}
<1>1. Len(s) \in Nat /\ \A n \in 1..Len(s) : s[n] \in Frame
  BY LenProperties, ElementOfSeq
<1>2. 0 \in T
  BY DEF Summed
<1>3. ASSUME NEW n \in Nat, n \in T PROVE n + 1 \in T
  <2> SUFFICES ASSUME n + 1 <= Len(s) PROVE w[n + 1] \in Nat
    OBVIOUS
  <2>1. w[n] \in Nat /\ n + 1 \in 1..Len(s) /\ (n + 1) - 1 = n
    BY <1>1, <1>3
  <2>2. Grants(s[n + 1]) \in Nat
    BY <1>1, <2>1, GrantsType
  <2>3. w[n + 1] = w[n] + Grants(s[n + 1])
    BY <2>1 DEF Summed
  <2> QED
    BY <2>1, <2>2, <2>3
<1>4. Nat \subseteq T
  <2> HIDE DEF T
  <2> QED
    BY <1>2, <1>3, Climb
<1> QED
  BY <1>1, <1>4

\* A FIFO grants a number of credits.
LEMMA GrantedType == \A s \in Seq(Frame) : Granted(s) \in Nat
<1> TAKE s \in Seq(Frame)
<1>1. PICK w : Summed(s, w) /\ Granted(s) = w[Len(s)]
  BY GrantedSums
<1>2. Len(s) \in 0..Len(s)
  BY LenProperties
<1> QED
  BY <1>1, <1>2, SummedType

\* An empty FIFO grants nothing.
LEMMA GrantedEmpty == Granted(<<>>) = 0
<1>1. <<>> \in Seq(Frame) /\ Len(<<>>) = 0
  BY EmptySeq
<1>2. PICK w : Summed(<<>>, w) /\ Granted(<<>>) = w[Len(<<>>)]
  BY <1>1, GrantedSums
<1> QED
  BY <1>1, <1>2 DEF Summed

\* Two sums over frames that agree up to a shift differ by where they start.
LEMMA SummedShift ==
  ASSUME NEW s \in Seq(Frame), NEW u \in Seq(Frame), NEW w, NEW v,
         Summed(s, w), Summed(u, v), NEW k \in 0..Len(s),
         NEW m \in Nat, m + k <= Len(s), m <= Len(u),
         \A n \in 1..m : u[n] = s[n + k]
  PROVE  w[m + k] = w[k] + v[m]
<1> DEFINE T == {n \in Nat : n <= m => w[n + k] = w[k] + v[n]}
<1>1. Len(s) \in Nat /\ Len(u) \in Nat
  BY LenProperties
<1>w. (\A n \in 0..Len(s) : w[n] \in Nat) /\ (\A n \in 0..Len(u) : v[n] \in Nat)
  BY SummedType
<1>2. 0 \in T
  BY <1>1, <1>w DEF Summed
<1>3. ASSUME NEW n \in Nat, n \in T PROVE n + 1 \in T
  <2> SUFFICES ASSUME n + 1 <= m PROVE w[(n + 1) + k] = w[k] + v[n + 1]
    OBVIOUS
  <2>1. n <= m /\ n + 1 \in 1..m /\ n + 1 \in 1..Len(u) /\ n + k + 1 \in 1..Len(s)
    BY <1>1
  <2>2. w[n + k] = w[k] + v[n]
    BY <1>3, <2>1
  <2>3. v[n + 1] = v[n] + Grants(u[n + 1])
    <3>1. (n + 1) - 1 = n
      OBVIOUS
    <3> QED
      BY <2>1, <3>1 DEF Summed
  <2>4. w[n + k + 1] = w[n + k] + Grants(s[n + k + 1])
    <3>1. (n + k + 1) - 1 = n + k
      OBVIOUS
    <3> QED
      BY <2>1, <3>1 DEF Summed
  <2>5. u[n + 1] = s[n + k + 1] /\ (n + 1) + k = n + k + 1
    BY <2>1
  <2>6. /\ w[k] \in Nat /\ v[n] \in Nat /\ Grants(s[n + k + 1]) \in Nat
    BY <1>1, <1>w, <2>1, GrantsType, ElementOfSeq
  <2> QED
    BY <2>2, <2>3, <2>4, <2>5, <2>6
<1>4. Nat \subseteq T
  <2> HIDE DEF T
  <2> QED
    BY <1>2, <1>3, Climb
<1> QED
  BY <1>4

\* Sending a frame adds what it grants.
LEMMA GrantedAppend ==
  ASSUME NEW s \in Seq(Frame), NEW f \in Frame
  PROVE  Granted(Append(s, f)) = Granted(s) + Grants(f)
<1> DEFINE u == Append(s, f)
<1>1. /\ u \in Seq(Frame) /\ Len(s) \in Nat /\ Len(u) = Len(s) + 1
      /\ u[Len(s) + 1] = f /\ \A n \in 1..Len(s) : u[n] = s[n]
  BY AppendProperties, LenProperties
<1> HIDE DEF u
<1>2. PICK w : Summed(s, w) /\ Granted(s) = w[Len(s)]
  BY GrantedSums
<1>3. PICK v : Summed(u, v) /\ Granted(u) = v[Len(u)]
  BY <1>1, GrantedSums
<1>4. v[Len(s)] = w[Len(s)]
  <2>1. 0 \in 0..Len(u) /\ Len(s) + 0 <= Len(u) /\ Len(s) + 0 = Len(s)
    BY <1>1
  <2>2. \A n \in 1..Len(s) : s[n] = u[n + 0]
    BY <1>1
  <2>3. v[Len(s) + 0] = v[0] + w[Len(s)]
    BY <1>1, <1>2, <1>3, <2>1, <2>2, SummedShift
  <2>4. v[0] = 0 /\ w[Len(s)] \in Nat
    BY <1>1, <1>2, <1>3, SummedType DEF Summed
  <2> QED
    BY <2>1, <2>3, <2>4
<1>5. v[Len(s) + 1] = v[Len(s)] + Grants(f)
  <2>1. Len(s) + 1 \in 1..Len(u) /\ (Len(s) + 1) - 1 = Len(s)
    BY <1>1
  <2> QED
    BY <1>1, <1>3, <2>1 DEF Summed
<1>6. Granted(u) = Granted(s) + Grants(f)
  BY <1>1, <1>2, <1>3, <1>4, <1>5
<1> QED
  BY <1>6 DEF u

\* Taking the head takes what it grants.
LEMMA GrantedTail ==
  ASSUME NEW s \in Seq(Frame), s # <<>>
  PROVE  Granted(s) = Granted(Tail(s)) + Grants(Head(s))
<1> DEFINE u == Tail(s)
<1>1. /\ Len(s) \in Nat /\ Len(s) > 0 /\ u \in Seq(Frame)
      /\ Len(u) = Len(s) - 1 /\ \A i \in 1..Len(u) : u[i] = s[i + 1]
      /\ Head(s) = s[1] /\ Head(s) \in Frame
  BY HeadTailProperties, LenProperties, EmptySeq
<1> HIDE DEF u
<1>2. PICK w : Summed(s, w) /\ Granted(s) = w[Len(s)]
  BY GrantedSums
<1>3. PICK v : Summed(u, v) /\ Granted(u) = v[Len(u)]
  BY <1>1, GrantedSums
<1>4. w[Len(s)] = w[1] + v[Len(u)]
  <2>1. 1 \in 0..Len(s) /\ Len(u) + 1 <= Len(s) /\ Len(u) + 1 = Len(s) /\ Len(u) \in Nat
    BY <1>1
  <2>2. w[Len(u) + 1] = w[1] + v[Len(u)]
    BY <1>1, <1>2, <1>3, <2>1, SummedShift
  <2> QED
    BY <2>1, <2>2
<1>5. w[1] = Grants(Head(s)) /\ Grants(Head(s)) \in Nat
  <2>1. 1 \in 1..Len(s) /\ 1 - 1 = 0
    BY <1>1
  <2>2. w[1] = w[1 - 1] + Grants(s[1]) /\ w[0] = 0
    BY <1>2, <2>1 DEF Summed
  <2> QED
    BY <1>1, <2>1, <2>2, GrantsType
<1>6. v[Len(u)] \in Nat
  BY <1>1, <1>3, SummedType
<1>7. Granted(s) = Granted(u) + Grants(Head(s))
  BY <1>2, <1>3, <1>4, <1>5, <1>6
<1> QED
  BY <1>7 DEF u

-------------------------------------------------------------------------------
(* The states. *)

\* Why an input or a call failed.
Causes == {"none", "cancelled", "timeout", "handler"}

\* The fields of the client, the pump, the host and the network.
ClientState ==
  [pc : {"idle", "pulling", "yielded", "failed", "closing", "done"},
   sub : Subscription, timer : BOOLEAN, terminated : BOOLEAN, expired : BOOLEAN,
   hostDone : BOOLEAN, connected : BOOLEAN, seq : Nat, got : Seq(Nat),
   outcome : {"none", "ok", "remote", "abandoned", "__transport__",
              "__timeout__", "__serde__"}]

PumpState ==
  [pc : {"off", "gate", "input", "acquiring", "done"}, ready : BOOLEAN,
   credit : Controller, taken : Nat, seq : Nat, ended : BOOLEAN, threw : BOOLEAN]

HostState ==
  [pc : {"idle", "handler", "reading", "acquiring", "closing", "done"},
   sub : Subscription, timer : BOOLEAN, seq : Nat, got : Seq(Nat),
   input : {"open", "ended", "failed"}, upError : Causes, callError : Causes,
   ended : {"none", "e", "x"}, recorded : {"none", "ok", "error"},
   credit : Controller, terminated : BOOLEAN, drain : {"off", "reading", "done"},
   expected : Nat, queue : Seq(Nat), produced : Nat, registered : BOOLEAN,
   connected : BOOLEAN]

NetState == [open : BOOLEAN, down : Seq(Frame), up : Seq(Frame), faults : Nat]

\* Every variable has its type.
UploadTypeOK == /\ call \in Call /\ client \in ClientState /\ pump \in PumpState
                /\ host \in HostState /\ net \in NetState

\* The fields of a state have their types, and replacing one by a value of its
\* type gives a state again.
LEMMA ClientFields ==
  ASSUME NEW c \in ClientState
  PROVE  /\ c.pc \in {"idle", "pulling", "yielded", "failed", "closing", "done"}
         /\ c.sub \in Subscription /\ c.seq \in Nat /\ c.got \in Seq(Nat)
         /\ c.connected \in BOOLEAN /\ c.expired \in BOOLEAN /\ c.terminated \in BOOLEAN
         /\ c.hostDone \in BOOLEAN /\ c.timer \in BOOLEAN
         /\ c.outcome \in {"none", "ok", "remote", "abandoned", "__transport__",
                           "__timeout__", "__serde__"}
         /\ \A x \in {"idle", "pulling", "yielded", "failed", "closing", "done"} :
              [c EXCEPT !.pc = x] \in ClientState
         /\ \A x \in Subscription : [c EXCEPT !.sub = x] \in ClientState
         /\ \A x \in BOOLEAN : [c EXCEPT !.timer = x] \in ClientState
         /\ \A x \in BOOLEAN : [c EXCEPT !.terminated = x] \in ClientState
         /\ \A x \in BOOLEAN : [c EXCEPT !.expired = x] \in ClientState
         /\ \A x \in BOOLEAN : [c EXCEPT !.hostDone = x] \in ClientState
         /\ \A x \in BOOLEAN : [c EXCEPT !.connected = x] \in ClientState
         /\ \A x \in Nat : [c EXCEPT !.seq = x] \in ClientState
         /\ \A x \in Seq(Nat) : [c EXCEPT !.got = x] \in ClientState
         /\ \A x \in {"none", "ok", "remote", "abandoned", "__transport__",
                      "__timeout__", "__serde__"} : [c EXCEPT !.outcome = x] \in ClientState
BY DEF ClientState

\* The same of the pump.
LEMMA PumpFields ==
  ASSUME NEW p \in PumpState
  PROVE  /\ p.pc \in {"off", "gate", "input", "acquiring", "done"}
         /\ p.credit \in Controller /\ p.taken \in Nat /\ p.seq \in Nat
         /\ p.ready \in BOOLEAN /\ p.ended \in BOOLEAN /\ p.threw \in BOOLEAN
         /\ \A x \in {"off", "gate", "input", "acquiring", "done"} :
              [p EXCEPT !.pc = x] \in PumpState
         /\ \A x \in BOOLEAN : [p EXCEPT !.ready = x] \in PumpState
         /\ \A x \in Controller : [p EXCEPT !.credit = x] \in PumpState
         /\ \A x \in Nat : [p EXCEPT !.taken = x] \in PumpState
         /\ \A x \in Nat : [p EXCEPT !.seq = x] \in PumpState
         /\ \A x \in BOOLEAN : [p EXCEPT !.ended = x] \in PumpState
         /\ \A x \in BOOLEAN : [p EXCEPT !.threw = x] \in PumpState
BY DEF PumpState

\* The fields of the host have their types.
LEMMA HostFields ==
  ASSUME NEW h \in HostState
  PROVE  /\ h.pc \in {"idle", "handler", "reading", "acquiring", "closing", "done"}
         /\ h.sub \in Subscription /\ h.seq \in Nat /\ h.got \in Seq(Nat)
         /\ h.input \in {"open", "ended", "failed"} /\ h.timer \in BOOLEAN
         /\ h.upError \in Causes /\ h.callError \in Causes
         /\ h.ended \in {"none", "e", "x"} /\ h.recorded \in {"none", "ok", "error"}
         /\ h.credit \in Controller /\ h.terminated \in BOOLEAN
         /\ h.drain \in {"off", "reading", "done"} /\ h.expected \in Nat
         /\ h.queue \in Seq(Nat) /\ h.produced \in Nat
         /\ h.registered \in BOOLEAN /\ h.connected \in BOOLEAN
BY DEF HostState

\* Replacing a field of the host gives a state again.
LEMMA HostUpdates ==
  ASSUME NEW h \in HostState
  PROVE  /\ \A x \in {"idle", "handler", "reading", "acquiring", "closing", "done"} :
              [h EXCEPT !.pc = x] \in HostState
         /\ \A x \in Subscription : [h EXCEPT !.sub = x] \in HostState
         /\ \A x \in BOOLEAN : [h EXCEPT !.timer = x] \in HostState
         /\ \A x \in Nat : [h EXCEPT !.seq = x] \in HostState
         /\ \A x \in Seq(Nat) : [h EXCEPT !.got = x] \in HostState
         /\ \A x \in {"open", "ended", "failed"} : [h EXCEPT !.input = x] \in HostState
         /\ \A x \in Causes : [h EXCEPT !.upError = x] \in HostState
         /\ \A x \in Causes : [h EXCEPT !.callError = x] \in HostState
         /\ \A x \in {"none", "e", "x"} : [h EXCEPT !.ended = x] \in HostState
         /\ \A x \in {"none", "ok", "error"} : [h EXCEPT !.recorded = x] \in HostState
         /\ \A x \in Controller : [h EXCEPT !.credit = x] \in HostState
         /\ \A x \in BOOLEAN : [h EXCEPT !.terminated = x] \in HostState
         /\ \A x \in {"off", "reading", "done"} : [h EXCEPT !.drain = x] \in HostState
         /\ \A x \in Nat : [h EXCEPT !.expected = x] \in HostState
         /\ \A x \in Seq(Nat) : [h EXCEPT !.queue = x] \in HostState
         /\ \A x \in Nat : [h EXCEPT !.produced = x] \in HostState
         /\ \A x \in BOOLEAN : [h EXCEPT !.registered = x] \in HostState
         /\ \A x \in BOOLEAN : [h EXCEPT !.connected = x] \in HostState
<1>1. /\ \A x \in {"idle", "handler", "reading", "acquiring", "closing", "done"} :
           [h EXCEPT !.pc = x] \in HostState
      /\ \A x \in Subscription : [h EXCEPT !.sub = x] \in HostState
      /\ \A x \in BOOLEAN : [h EXCEPT !.timer = x] \in HostState
  BY DEF HostState
<1>2. /\ \A x \in Nat : [h EXCEPT !.seq = x] \in HostState
      /\ \A x \in Seq(Nat) : [h EXCEPT !.got = x] \in HostState
      /\ \A x \in {"open", "ended", "failed"} : [h EXCEPT !.input = x] \in HostState
  BY DEF HostState
<1>3. /\ \A x \in Causes : [h EXCEPT !.upError = x] \in HostState
      /\ \A x \in Causes : [h EXCEPT !.callError = x] \in HostState
      /\ \A x \in {"none", "e", "x"} : [h EXCEPT !.ended = x] \in HostState
  BY DEF HostState
<1>4. /\ \A x \in {"none", "ok", "error"} : [h EXCEPT !.recorded = x] \in HostState
      /\ \A x \in Controller : [h EXCEPT !.credit = x] \in HostState
      /\ \A x \in BOOLEAN : [h EXCEPT !.terminated = x] \in HostState
  BY DEF HostState
<1>5. /\ \A x \in {"off", "reading", "done"} : [h EXCEPT !.drain = x] \in HostState
      /\ \A x \in Nat : [h EXCEPT !.expected = x] \in HostState
      /\ \A x \in Seq(Nat) : [h EXCEPT !.queue = x] \in HostState
  BY DEF HostState
<1>6. /\ \A x \in Nat : [h EXCEPT !.produced = x] \in HostState
      /\ \A x \in BOOLEAN : [h EXCEPT !.registered = x] \in HostState
      /\ \A x \in BOOLEAN : [h EXCEPT !.connected = x] \in HostState
  BY DEF HostState
<1> QED
  BY <1>1, <1>2, <1>3, <1>4, <1>5, <1>6

\* The same of the network.
LEMMA NetFields ==
  ASSUME NEW n \in NetState
  PROVE  /\ n.open \in BOOLEAN /\ n.down \in Seq(Frame) /\ n.up \in Seq(Frame)
         /\ n.faults \in Nat
         /\ \A x \in BOOLEAN : [n EXCEPT !.open = x] \in NetState
         /\ \A x \in Seq(Frame) : [n EXCEPT !.down = x] \in NetState
         /\ \A x \in Seq(Frame) : [n EXCEPT !.up = x] \in NetState
         /\ \A x \in Nat : [n EXCEPT !.faults = x] \in NetState
BY DEF NetState

\* The fields of the call.
LEMMA CallFields ==
  ASSUME call \in Call
  PROVE  /\ call.kind \in {"clientStream", "duplex"} /\ call.timed \in BOOLEAN
         /\ call.window \in Nat /\ call.inputs \in Nat /\ call.outputs \in Nat
         /\ call.faults \in Nat /\ call.events \in SUBSET Events
BY DEF Call

-------------------------------------------------------------------------------
(* The inductive invariant. *)

\* The frames on their way to be consumed by the other side.
UpFrames == Members(net.up) \cup Members(host.sub.queue)
DownFrames == Members(net.down) \cup Members(client.sub.queue)

\* Nothing is on its way to the client.
Silent == net.down = <<>> /\ client.sub.queue = <<>>

\* One call, opened once; an error of the host comes with the end of the call.
Opened ==
  /\ client.pc = "idle" =>
       /\ ~net.open /\ host.pc = "idle" /\ pump.pc = "off"
       /\ ~client.terminated /\ ~client.timer /\ Silent
  /\ net.open => host.pc = "idle" /\ Silent
  /\ client.pc \in {"idle", "pulling", "yielded"} => client.outcome = "none"
  /\ client.pc = "failed" => client.outcome # "ok"
  /\ host.pc \in {"idle", "handler", "reading", "acquiring"} =>
       host.callError = "none" /\ host.ended = "none"
  /\ host.ended = "e" => host.callError = "none"

\* Before the host has the call it has sent nothing, so that the client hears at most
\* that nobody serves it, and nothing passes the gate but what an ended call releases.
Untouched ==
  host.pc = "idle" =>
    /\ ~host.sub.open /\ host.sub.queue = <<>> /\ host.queue = <<>>
    /\ host.credit = NewController(0) /\ ~host.timer /\ ~host.terminated /\ host.drain = "off"
    /\ host.input = "open" /\ host.got = <<>> /\ host.expected = 0
    /\ host.seq = 0 /\ host.produced = 0
    /\ \A f \in DownFrames : f = Undecodable
    /\ \A f \in UpFrames : f.t \notin {"d", "c"}
    /\ pump.credit.credit = 0
    /\ pump.ready => pump.credit.cancelled
    /\ ~pump.ready => pump.pc \in {"off", "gate"}
    /\ client.got = <<>>

\* A window is cancelled with its end of the call, and only one sender waits in it.
Windows ==
  /\ pump.credit.cancelled => client.terminated \/ ~client.connected
  /\ host.credit.cancelled => host.terminated
  /\ pump.credit.waiters <= 1 /\ (pump.credit.waiters > 0 => pump.pc = "acquiring")
  /\ host.credit.waiters <= 1 /\ (host.credit.waiters > 0 => host.pc = "acquiring")

\* An input has the number of its frame, the half-close is the pump's, and no client
\* sends an ErrorFrame.
PumpInOrder ==
  /\ pump.pc \in {"off", "gate", "input"} => pump.taken = pump.seq /\ ~pump.ended
  /\ pump.pc = "acquiring" => pump.taken = pump.seq + 1 /\ ~pump.ended
  /\ pump.taken <= call.inputs
  /\ \A f \in UpFrames : /\ f.t = "d" => f.data = f.seq + 1 /\ f.data <= call.inputs
                         /\ f.t = "e" => pump.ended
                         /\ f.t # "x"

\* The next n signals of the queue are inputs.
Plain(n) == \A i \in 1..n : host.queue[i] \in 1..call.inputs

\* The handler is given inputs in order, and the queue holds the ones after them.
GivenInOrder ==
  /\ InputsInOrder
  /\ host.pc = "reading" => host.input = "open"
  /\ \A i \in 1..Len(host.queue) : host.queue[i] = Half => pump.ended
  /\ host.input = "open" =>
       /\ \A n \in 1..Len(host.queue) : Plain(n) => host.queue[n] = Len(host.got) + n
       /\ Plain(Len(host.queue)) => host.expected = Len(host.got) + Len(host.queue)
  /\ IsClientStream => host.queue = <<>>

\* An output has the number of its frame, and no frame follows the EndFrame.
HostInOrder ==
  /\ host.pc \in {"idle", "handler", "reading"} => host.produced = host.seq
  /\ host.pc = "acquiring" => host.produced = host.seq + 1
  /\ \A f \in DownFrames :
       /\ f.t = "d" => f.data = f.seq + 1
       /\ f.t = "d" /\ IsClientStream => f.seq = 0 /\ host.ended = "e"
       /\ f.t = "e" => host.ended = "e"
       /\ f.t = "e" /\ IsDuplex => host.seq = f.seq + 1

\* The application of a duplex call was given outputs 1, 2, 3, ...
TakenInOrder ==
  /\ IsDuplex => client.got = [i \in 1..client.seq |-> i]
  /\ IsClientStream /\ client.pc \in {"idle", "pulling"} => client.got = <<>>

\* The inductive invariant.
UploadInv == /\ UploadTypeOK /\ Opened /\ Untouched /\ Windows
             /\ PumpInOrder /\ GivenInOrder /\ HostInOrder /\ TakenInOrder
             /\ SuccessIsTheHosts /\ WindowsConserved

-------------------------------------------------------------------------------
(* The credits of a window: with its sender, with its frames on their way to   *)
(* be consumed, and with the grants on their way back.                         *)

\* The window of the pump: its credits, the inputs out, and the grants coming back.
PumpHolds == Held(pump.credit, pump.pc = "acquiring")
PumpHas == pump.credit.credit + PumpHolds
Queued == Cardinality(Chosen(host.queue, 1..call.inputs))
UpOut == Count(net.up, "d") + Count(host.sub.queue, "d") + Queued
DownGrants == Granted(net.down) + Granted(client.sub.queue)

\* The window of the host, the same way.
HostHolds == Held(host.credit, host.pc = "acquiring")
HostHas == host.credit.credit + HostHolds
DownOut == Count(net.down, "d") + Count(client.sub.queue, "d")
UpGrants == Granted(net.up) + Granted(host.sub.queue)

\* Every term is a number.
TermsNatural == /\ PumpHas \in Nat /\ UpOut \in Nat /\ DownGrants \in Nat
                /\ HostHas \in Nat /\ DownOut \in Nat /\ UpGrants \in Nat

\* All terms are numbers.
LEMMA TermTypes == UploadTypeOK => TermsNatural
<1> SUFFICES ASSUME UploadTypeOK PROVE TermsNatural
  OBVIOUS
<1>0. pump.credit.credit \in Nat /\ host.credit.credit \in Nat
  BY PumpFields, HostFields DEF UploadTypeOK, Controller
<1>1. /\ net.down \in Seq(Frame) /\ net.up \in Seq(Frame)
      /\ client.sub.queue \in Seq(Frame) /\ host.sub.queue \in Seq(Frame)
      /\ host.queue \in Seq(Nat)
  BY ClientFields, PumpFields, HostFields, NetFields
     DEF UploadTypeOK, Subscription
<1>2. PumpHolds \in Nat /\ HostHolds \in Nat
  BY DEF Held, PumpHolds, HostHolds
<1>3. /\ Count(net.up, "d") \in Nat /\ Count(host.sub.queue, "d") \in Nat
      /\ Count(net.down, "d") \in Nat /\ Count(client.sub.queue, "d") \in Nat
  BY <1>1, CountType
<1>4. Queued \in Nat
  BY <1>1, ChosenFinite DEF Queued
<1>5. /\ Granted(net.up) \in Nat /\ Granted(host.sub.queue) \in Nat
      /\ Granted(net.down) \in Nat /\ Granted(client.sub.queue) \in Nat
  BY <1>1, GrantedType
<1> QED
  BY <1>0, <1>2, <1>3, <1>4, <1>5
     DEF TermsNatural, PumpHas, UpOut, DownGrants, HostHas, DownOut, UpGrants

\* The tokens of each window are three terms.
SumsOfTerms == /\ UpTokens = PumpHas + UpOut + DownGrants
               /\ DownTokens = HostHas + DownOut + UpGrants

\* The tokens of a window are the sums of its terms.
LEMMA TermsOfTokens == UploadTypeOK => SumsOfTerms
<1> SUFFICES ASSUME UploadTypeOK PROVE SumsOfTerms
  OBVIOUS
<1>0. pump.credit.credit \in Nat /\ host.credit.credit \in Nat
  BY PumpFields, HostFields DEF UploadTypeOK, Controller
<1>1. /\ net.down \in Seq(Frame) /\ net.up \in Seq(Frame)
      /\ client.sub.queue \in Seq(Frame) /\ host.sub.queue \in Seq(Frame)
      /\ host.queue \in Seq(Nat)
  BY ClientFields, PumpFields, HostFields, NetFields
     DEF UploadTypeOK, Subscription
<1>2. PumpHolds \in Nat /\ HostHolds \in Nat
  BY DEF Held, PumpHolds, HostHolds
<1>3. /\ Count(net.up, "d") \in Nat /\ Count(host.sub.queue, "d") \in Nat
      /\ Count(net.down, "d") \in Nat /\ Count(client.sub.queue, "d") \in Nat
  BY <1>1, CountType
<1>4. Queued \in Nat
  BY <1>1, ChosenFinite DEF Queued
<1>5. /\ Granted(net.up) \in Nat /\ Granted(host.sub.queue) \in Nat
      /\ Granted(net.down) \in Nat /\ Granted(client.sub.queue) \in Nat
  BY <1>1, GrantedType
<1>6. {i \in 1..Len(host.queue) : host.queue[i] \in 1..call.inputs}
        = Chosen(host.queue, 1..call.inputs)
  BY DEF Chosen
<1>7. UpTokens = PumpHas + UpOut + DownGrants
  <2>1. UpTokens = pump.credit.credit + PumpHolds
                   + Count(net.up, "d") + Count(host.sub.queue, "d") + Queued
                   + Granted(net.down) + Granted(client.sub.queue)
    BY <1>6, Zenon DEF UpTokens, PumpHolds, Queued
  <2> QED
    BY <1>0, <1>2, <1>3, <1>4, <1>5, <2>1 DEF PumpHas, UpOut, DownGrants
<1>8. DownTokens = HostHas + DownOut + UpGrants
  <2>1. DownTokens = host.credit.credit + HostHolds
                     + Count(net.down, "d") + Count(client.sub.queue, "d")
                     + Granted(net.up) + Granted(host.sub.queue)
    BY Zenon DEF DownTokens, HostHolds
  <2> QED
    BY <1>0, <1>2, <1>3, <1>5, <2>1 DEF HostHas, DownOut, UpGrants
<1> QED
  BY <1>7, <1>8, Zenon DEF SumsOfTerms

\* The same of the next state.
LEMMA TermsOfTokensNext ==
  UploadTypeOK' =>
    /\ UpTokens' = PumpHas' + UpOut' + DownGrants'
    /\ DownTokens' = HostHas' + DownOut' + UpGrants'
<1>1. UploadTypeOK' => SumsOfTerms'
  BY TermsOfTokens, PTL
<1> QED
  BY <1>1, Zenon DEF SumsOfTerms

\* The same of the next state.
LEMMA TermTypesNext == UploadTypeOK' => TermsNatural'
BY TermTypes, PTL

\* A call that starts satisfies the invariant.
LEMMA UploadInit == Init => UploadInv
<1> SUFFICES ASSUME Init PROVE UploadInv
  OBVIOUS
<1>1. call \in Call
  BY UploadAssumption DEF Init
<1>2. client \in ClientState
  BY SubscriptionStart, EmptySeq DEF Init, ClientState
<1>3. pump \in PumpState
  BY NewControllerLemma DEF Init, PumpState
<1>4. host \in HostState
  BY SubscriptionStart, NewControllerLemma, EmptySeq DEF Init, HostState, Causes
<1>5. net \in NetState
  BY EmptySeq DEF Init, NetState
<1>6. UploadTypeOK
  BY <1>1, <1>2, <1>3, <1>4, <1>5 DEF UploadTypeOK
<1>7. /\ client.pc = "idle" /\ client.sub.queue = <<>> /\ client.seq = 0 /\ client.got = <<>>
      /\ client.outcome = "none" /\ ~client.terminated /\ ~client.timer
      /\ pump.pc = "off" /\ ~pump.ready /\ pump.credit = NewController(0)
      /\ pump.taken = 0 /\ pump.seq = 0 /\ ~pump.ended
      /\ host.pc = "idle" /\ ~host.sub.open /\ host.sub.queue = <<>> /\ host.queue = <<>>
      /\ host.credit = NewController(0) /\ ~host.timer /\ ~host.terminated
      /\ host.drain = "off" /\ host.input = "open" /\ host.got = <<>>
      /\ host.expected = 0 /\ host.seq = 0 /\ host.produced = 0
      /\ host.callError = "none" /\ host.ended = "none"
      /\ net.down = <<>> /\ net.up = <<>> /\ ~net.open
  BY SubscriptionStart DEF Init
<1>8. /\ NewController(0).credit = 0 /\ NewController(0).waiters = 0
      /\ ~NewController(0).cancelled
  BY NewControllerLemma
<1>9. UpFrames = {} /\ DownFrames = {}
  BY <1>7 DEF UpFrames, DownFrames, Members
<1>10. Opened /\ Untouched /\ Windows
  BY <1>7, <1>8, <1>9 DEF Opened, Untouched, Windows, Silent
<1>11. PumpInOrder /\ HostInOrder /\ SuccessIsTheHosts
  BY <1>1, <1>7, <1>9, CallFields DEF PumpInOrder, HostInOrder, SuccessIsTheHosts
<1>12. TakenInOrder
  BY <1>7 DEF TakenInOrder
<1>13. GivenInOrder
  <2>1. Len(host.queue) = 0 /\ Len(host.got) = 0
    BY <1>7
  <2>2. InputsInOrder
    BY <1>7, <2>1 DEF InputsInOrder
  <2> QED
    BY <1>7, <2>1, <2>2 DEF GivenInOrder
<1>14. WindowsConserved
  <2>1. PumpHas = 0 /\ HostHas = 0
    BY <1>7, <1>8 DEF PumpHas, HostHas, PumpHolds, HostHolds, Held
  <2>2. UpOut = 0 /\ DownOut = 0
    BY <1>7, CountEmpty, ChosenEmpty DEF UpOut, Queued, DownOut
  <2>3. DownGrants = 0 /\ UpGrants = 0
    BY <1>7, GrantedEmpty DEF DownGrants, UpGrants
  <2> QED
    BY <1>1, <1>6, <2>1, <2>2, <2>3, CallFields, TermsOfTokens
       DEF WindowsConserved, Window, SumsOfTerms
<1> QED
  BY <1>6, <1>10, <1>11, <1>12, <1>13, <1>14 DEF UploadInv

-------------------------------------------------------------------------------
(* A step of the client that grants nothing.                                   *)

\* A FIFO of which at most the head was taken.
Shrinks(q, r) == r = q \/ (q # <<>> /\ r = Tail(q))

\* What such a step may do: take a frame, change what the application knows,
\* give up the call and release the pump, cancel the host.
ClientTurns ==
  /\ call' = call /\ host' = host /\ UploadTypeOK'
  /\ client.pc # "idle" /\ client'.pc # "idle"
  /\ Shrinks(client.sub.queue, client'.sub.queue)
  /\ client.terminated => client'.terminated
  /\ ~client.connected => ~client'.connected
  /\ client'.pc \in {"pulling", "yielded"} => client'.outcome = "none"
  /\ client'.pc = "failed" => client'.outcome # "ok"
  /\ \/ pump' = pump
     \/ /\ pump' = [pump EXCEPT !.ready = TRUE, !.credit = Cancel(@)]
        /\ client'.terminated \/ ~client'.connected
  /\ net'.open = net.open /\ net'.down = net.down
  /\ net'.up = net.up \/ net'.up = Append(net.up, CancelFrame)
  /\ host.pc = "idle" => client'.got = client.got
  /\ TakenInOrder' /\ SuccessIsTheHosts'

\* A FIFO that shrinks has no new frames, no more outputs and no more grants.
LEMMA ShrinksLemma ==
  ASSUME NEW q \in Seq(Frame), NEW r, Shrinks(q, r)
  PROVE  /\ r \in Seq(Frame) /\ Members(r) \subseteq Members(q)
         /\ Count(r, "d") <= Count(q, "d") /\ Granted(r) <= Granted(q)
         /\ Count(r, "d") \in Nat /\ Granted(r) \in Nat
         /\ q = <<>> => r = <<>>
<1>1. CASE r = q
  <2>1. Count(q, "d") \in Nat /\ Granted(q) \in Nat
    BY CountType, GrantedType
  <2> QED
    BY <1>1, <2>1
<1>2. CASE q # <<>> /\ r = Tail(q)
  <2>1. Tail(q) \in Seq(Frame) /\ Head(q) \in Frame
    BY <1>2, HeadTailProperties
  <2>2. /\ Count(q, "d") \in Nat /\ Granted(q) \in Nat
        /\ Count(r, "d") \in Nat /\ Granted(r) \in Nat /\ Grants(Head(q)) \in Nat
    BY <1>2, <2>1, CountType, GrantedType, GrantsType
  <2>3. Count(r, "d") <= Count(q, "d")
    <3>1. Count(r, "d") = Count(q, "d") - (IF Head(q).t = "d" THEN 1 ELSE 0)
      BY <1>2, CountTail
    <3> QED
      BY <2>2, <3>1
  <2>4. Granted(r) <= Granted(q)
    <3>1. Granted(q) = Granted(r) + Grants(Head(q))
      BY <1>2, GrantedTail
    <3> QED
      BY <2>2, <3>1
  <2>5. Members(r) \subseteq Members(q)
    BY <1>2, MembersMove
  <2> QED
    BY <1>2, <2>1, <2>2, <2>3, <2>4, <2>5
<1> QED
  BY <1>1, <1>2 DEF Shrinks

\* An ErrorFrame, a CancelFrame or an EndFrame is no output and grants nothing.
LEMMA BareFrames ==
  ASSUME NEW s \in Seq(Frame), NEW f \in Frame, f.t \notin {"d", "c"}
  PROVE  /\ Count(Append(s, f), "d") = Count(s, "d")
         /\ Granted(Append(s, f)) = Granted(s)
<1>1. Count(s, "d") \in Nat /\ Granted(s) \in Nat /\ Grants(f) = 0
  BY CountType, GrantedType DEF Grants
<1>2. Count(Append(s, f), "d") = Count(s, "d") + (IF f.t = "d" THEN 1 ELSE 0)
  BY CountAppend
<1>3. Granted(Append(s, f)) = Granted(s) + Grants(f)
  BY GrantedAppend
<1> QED
  BY <1>1, <1>2, <1>3

\* The FIFOs and the windows are of their types.
LEMMA PartTypes ==
  UploadTypeOK =>
    /\ net.down \in Seq(Frame) /\ net.up \in Seq(Frame)
    /\ client.sub.queue \in Seq(Frame) /\ host.sub.queue \in Seq(Frame)
    /\ client.sub \in Subscription /\ host.sub \in Subscription
    /\ pump.credit \in Controller /\ host.credit \in Controller
    /\ host.queue \in Seq(Nat)
BY ClientFields, PumpFields, HostFields, NetFields DEF UploadTypeOK, Subscription

\* A cancelled window has no sender that could send.
LEMMA CancelHolds ==
  ASSUME NEW c \in Controller, NEW b
  PROVE  Held(Cancel(c), b) = 0 /\ Held(c, b) \in Nat
<1>1. Cancel(c).cancelled
  BY CancelLemma
<1> QED
  BY <1>1 DEF Held

\* No step adds to what is used of a window.
CreditsFall ==
  /\ PumpHas' + UpOut' + DownGrants' <= PumpHas + UpOut + DownGrants
  /\ IsDuplex => HostHas' + DownOut' + UpGrants' <= HostHas + DownOut + UpGrants

\* The windows stay conserved where no term grows.
LEMMA WindowsFall ==
  ASSUME UploadTypeOK, UploadTypeOK', WindowsConserved, call' = call, CreditsFall
  PROVE  WindowsConserved'
<1>1. TermsNatural /\ TermsNatural' /\ SumsOfTerms /\ SumsOfTerms'
  BY TermTypes, TermTypesNext, TermsOfTokens, TermsOfTokensNext, Zenon DEF SumsOfTerms
<1>2. UpTokens \in Int /\ DownTokens \in Int
  BY <1>1 DEF TermsNatural, SumsOfTerms
<1>3. UpTokens' \in Int /\ DownTokens' \in Int
  BY <1>1 DEF TermsNatural, SumsOfTerms
<1>4. UpTokens' <= UpTokens /\ (IsDuplex => DownTokens' <= DownTokens)
  BY <1>1, Zenon DEF SumsOfTerms, CreditsFall
<1>5. Window' = Window /\ Window \in Int
  BY CallFields DEF UploadTypeOK, Window
<1>6. IsDuplex' <=> IsDuplex
  BY DEF IsDuplex
<1>7. UpTokens' <= Window'
  <2>1. UpTokens <= Window
    BY DEF WindowsConserved
  <2> QED
    BY <1>2, <1>3, <1>4, <1>5, <2>1
<1>8. IsDuplex => DownTokens' <= Window'
  <2> SUFFICES ASSUME IsDuplex PROVE DownTokens' <= Window'
    OBVIOUS
  <2>1. DownTokens <= Window
    BY Zenon DEF WindowsConserved
  <2>2. DownTokens' <= DownTokens
    BY <1>4
  <2> QED
    BY <1>2, <1>3, <1>5, <2>1, <2>2
<1> QED
  BY <1>6, <1>7, <1>8, Zenon DEF WindowsConserved

\* Such a step keeps the invariant.
LEMMA ClientTurnsKeep == UploadInv /\ ClientTurns => UploadInv'
<1> SUFFICES ASSUME UploadInv, ClientTurns PROVE UploadInv'
  OBVIOUS
<1> USE DEF ClientTurns
<1>t. UploadTypeOK /\ UploadTypeOK'
  BY DEF UploadInv
<1>p. /\ net.down \in Seq(Frame) /\ net.up \in Seq(Frame)
      /\ client.sub.queue \in Seq(Frame) /\ host.sub.queue \in Seq(Frame)
      /\ pump.credit \in Controller /\ pump \in PumpState
  BY <1>t, PartTypes DEF UploadTypeOK
<1>q. /\ Members(client'.sub.queue) \subseteq Members(client.sub.queue)
      /\ Count(client'.sub.queue, "d") <= Count(client.sub.queue, "d")
      /\ Granted(client'.sub.queue) <= Granted(client.sub.queue)
      /\ client.sub.queue = <<>> => client'.sub.queue = <<>>
  BY <1>p, ShrinksLemma
<1>a. CancelFrame \in Frame /\ CancelFrame.t = "a"
  BY FrameTypes DEF CancelFrame
<1>u. /\ Members(net'.up) \subseteq Members(net.up) \cup {CancelFrame}
      /\ Count(net'.up, "d") = Count(net.up, "d") /\ Granted(net'.up) = Granted(net.up)
  <2>1. CASE net'.up = net.up
    BY <2>1
  <2>2. CASE net'.up = Append(net.up, CancelFrame)
    <3>1. Members(Append(net.up, CancelFrame)) = Members(net.up) \cup {CancelFrame}
      BY <1>a, <1>p, MembersMove
    <3>2. /\ Count(Append(net.up, CancelFrame), "d") = Count(net.up, "d")
          /\ Granted(Append(net.up, CancelFrame)) = Granted(net.up)
      BY <1>a, <1>p, BareFrames
    <3> QED
      BY <2>2, <3>1, <3>2
  <2> QED
    BY <2>1, <2>2
<1>f. DownFrames' \subseteq DownFrames /\ UpFrames' \subseteq UpFrames \cup {CancelFrame}
  BY <1>q, <1>u DEF DownFrames, UpFrames
<1>c. /\ pump'.pc = pump.pc /\ pump'.taken = pump.taken /\ pump'.seq = pump.seq
      /\ pump'.ended = pump.ended /\ pump'.credit.credit = pump.credit.credit
      /\ \/ pump'.credit = pump.credit /\ pump'.ready = pump.ready
         \/ /\ pump'.credit = Cancel(pump.credit) /\ pump'.ready = TRUE
            /\ client'.terminated \/ ~client'.connected
  <2>1. Cancel(pump.credit).credit = pump.credit.credit
    BY <1>p, CancelLemma
  <2>2. CASE pump' = pump
    BY <2>2
  <2>3. CASE /\ pump' = [pump EXCEPT !.ready = TRUE, !.credit = Cancel(@)]
             /\ client'.terminated \/ ~client'.connected
    BY <1>p, <2>1, <2>3 DEF PumpState
  <2> QED
    BY <2>2, <2>3
<1>1. Opened'
  <2>1. client'.outcome # "ok" \/ client'.pc # "failed"
    OBVIOUS
  <2>2. client'.pc \in {"idle", "pulling", "yielded"} => client'.outcome = "none"
    OBVIOUS
  <2>3. Silent => Silent'
    BY <1>q DEF Silent
  <2> QED
    BY <2>1, <2>2, <2>3 DEF UploadInv, Opened
<1>2. Untouched'
  <2> SUFFICES ASSUME host.pc = "idle" PROVE Untouched'
    BY DEF Untouched
  <2>1. /\ ~host.sub.open /\ host.sub.queue = <<>> /\ host.queue = <<>>
        /\ host.credit = NewController(0) /\ ~host.timer /\ ~host.terminated /\ host.drain = "off"
        /\ host.input = "open" /\ host.got = <<>> /\ host.expected = 0
        /\ host.seq = 0 /\ host.produced = 0
        /\ client.got = <<>> /\ \A f \in DownFrames : f = Undecodable
    BY DEF UploadInv, Untouched
  <2>2. \A f \in UpFrames : f.t \notin {"d", "c"}
    BY DEF UploadInv, Untouched
  <2>3. /\ pump.credit.credit = 0
        /\ pump.ready => pump.credit.cancelled
        /\ ~pump.ready => pump.pc \in {"off", "gate"}
    BY DEF UploadInv, Untouched
  <2>4. \A f \in UpFrames' : f.t \notin {"d", "c"}
    BY <1>a, <1>f, <2>2
  <2>5. /\ pump'.credit.credit = 0
        /\ pump'.ready => pump'.credit.cancelled
        /\ ~pump'.ready => pump'.pc \in {"off", "gate"}
    BY <1>c, <1>p, <2>3, CancelLemma
  <2>6. client'.got = <<>> /\ \A f \in DownFrames' : f = Undecodable
    BY <1>f, <1>q, <2>1
  <2> QED
    BY <2>1, <2>4, <2>5, <2>6 DEF Untouched
<1>3. Windows'
  <2>1. pump'.credit.cancelled => client'.terminated \/ ~client'.connected
    BY <1>c DEF UploadInv, Windows
  <2>2. pump'.credit.waiters <= 1 /\ (pump'.credit.waiters > 0 => pump'.pc = "acquiring")
    BY <1>c, <1>p, CancelLemma DEF UploadInv, Windows
  <2> QED
    BY <2>1, <2>2 DEF UploadInv, Windows
<1>4. PumpInOrder'
  <2>1. \A f \in UpFrames' : /\ f.t = "d" => f.data = f.seq + 1 /\ f.data <= call'.inputs
                             /\ f.t = "e" => pump'.ended
                             /\ f.t # "x"
    BY <1>a, <1>c, <1>f DEF UploadInv, PumpInOrder
  <2> QED
    BY <1>c, <2>1 DEF UploadInv, PumpInOrder
<1>5. GivenInOrder'
  <2>1. pump'.ended = pump.ended /\ host' = host /\ call' = call
    BY <1>c
  <2>2. InputsInOrder'
    BY <2>1 DEF UploadInv, GivenInOrder, InputsInOrder
  <2> QED
    BY <2>1, <2>2 DEF UploadInv, GivenInOrder, Plain, Half, IsClientStream
<1>6. HostInOrder'
  BY <1>f DEF UploadInv, HostInOrder, IsClientStream, IsDuplex
<1>7. WindowsConserved'
  <2>1. WindowsConserved /\ TermsNatural /\ TermsNatural'
    BY <1>t, TermTypes, TermTypesNext DEF UploadInv
  <2>2. PumpHas' <= PumpHas /\ HostHas' = HostHas
    <3>1. PumpHolds' <= PumpHolds /\ PumpHolds \in Nat /\ PumpHolds' \in Nat
      <4>0. PumpHolds \in {0, 1}
        BY DEF PumpHolds, Held
      <4>1. CASE pump'.credit = pump.credit
        <5>1. PumpHolds' = PumpHolds
          BY <1>c, <4>1 DEF PumpHolds, Held
        <5> QED
          BY <4>0, <5>1
      <4>2. CASE pump'.credit = Cancel(pump.credit)
        <5>1. PumpHolds' = 0
          BY <1>p, <4>2, CancelHolds DEF PumpHolds
        <5> QED
          BY <4>0, <5>1
      <4> QED
        BY <1>c, <4>1, <4>2
    <3>2. pump.credit.credit \in Nat /\ pump'.credit.credit = pump.credit.credit
      BY <1>c, <1>p DEF Controller
    <3>3. HostHas' = HostHas
      BY DEF HostHas, HostHolds
    <3> QED
      BY <3>1, <3>2, <3>3 DEF PumpHas
  <2>3. UpOut' = UpOut /\ UpGrants' = UpGrants
    BY <1>u DEF UpOut, UpGrants, Queued
  <2>4. DownOut' <= DownOut /\ DownGrants' <= DownGrants
    <3>1. /\ Count(client'.sub.queue, "d") <= Count(client.sub.queue, "d")
          /\ Granted(client'.sub.queue) <= Granted(client.sub.queue)
      BY <1>q
    <3>2. /\ Count(net.down, "d") \in Nat /\ Count(client.sub.queue, "d") \in Nat
          /\ Granted(net.down) \in Nat /\ Granted(client.sub.queue) \in Nat
          /\ Count(client'.sub.queue, "d") \in Nat /\ Granted(client'.sub.queue) \in Nat
      BY <1>p, CountType, GrantedType, ShrinksLemma
    <3> QED
      BY <3>1, <3>2 DEF DownOut, DownGrants
  <2>5. /\ PumpHas' + UpOut' + DownGrants' <= PumpHas + UpOut + DownGrants
        /\ HostHas' + DownOut' + UpGrants' <= HostHas + DownOut + UpGrants
    BY <2>1, <2>2, <2>3, <2>4 DEF TermsNatural
  <2> QED
    BY <1>t, <2>1, <2>5, WindowsFall DEF CreditsFall
<1> QED
  BY <1>t, <1>1, <1>2, <1>3, <1>4, <1>5, <1>6, <1>7 DEF UploadInv

\* What the client may make of itself in a step.
Follows(c) ==
  /\ c \in ClientState
  /\ Shrinks(client.sub.queue, c.sub.queue)
  /\ client.terminated => c.terminated
  /\ ~client.connected => ~c.connected
  /\ host.pc = "idle" => c.got = client.got
  /\ IsDuplex => c.got = [i \in 1..c.seq |-> i]
  /\ c.outcome = "ok" =>
       /\ host.ended = "e" /\ host.callError = "none"
       /\ c.got = [i \in 1..(IF IsDuplex THEN host.seq - 1 ELSE 1) |-> i]

\* It may stay as it is.
LEMMA FollowsItself == UploadInv => Follows(client)
BY DEF UploadInv, UploadTypeOK, Follows, Shrinks, TakenInOrder, SuccessIsTheHosts

\* The promises to the application hold of such a client.
LEMMA FollowsPromises ==
  ASSUME NEW c \in ClientState, Follows(c), client' = c, call' = call, host' = host,
         IsClientStream /\ c.pc \in {"idle", "pulling"} => c.got = <<>>
  PROVE  TakenInOrder' /\ SuccessIsTheHosts'
<1>1. TakenInOrder'
  BY DEF Follows, TakenInOrder, IsDuplex, IsClientStream
<1>2. SuccessIsTheHosts'
  BY DEF Follows, SuccessIsTheHosts, IsDuplex
<1> QED
  BY <1>1, <1>2

\* What publishing to the host makes of the network.
LEMMA PublishUpType ==
  ASSUME UploadTypeOK, NEW f \in Frame, PublishUp(f)
  PROVE  net' \in NetState /\ net'.up = Append(net.up, f)
         /\ net'.down = net.down /\ net'.open = net.open /\ net'.faults = net.faults
<1>1. net \in NetState /\ Append(net.up, f) \in Seq(Frame)
  BY NetFields, AppendProperties DEF UploadTypeOK
<1>2. net' = [net EXCEPT !.up = Append(net.up, f)]
  BY DEF PublishUp
<1> QED
  BY <1>1, <1>2, NetFields DEF NetState

\* The released pump is a pump.
LEMMA ReleasePumpType ==
  ASSUME UploadTypeOK, ReleasePump
  PROVE  pump' \in PumpState
<1>1. pump \in PumpState /\ pump.credit \in Controller
  BY PumpFields DEF UploadTypeOK
<1>2. pump' = [[pump EXCEPT !.ready = TRUE] EXCEPT !.credit = Cancel(pump.credit)]
  BY DEF ReleasePump
<1>3. Cancel(pump.credit) \in Controller
  BY <1>1, CancelLemma
<1> QED
  BY <1>1, <1>2, <1>3, PumpFields

\* The finally of the client.
LEMMA FinallyTurns ==
  ASSUME UploadInv, NEW c, Follows(c), NEW b, ClientFinally(c, b), client.pc # "idle"
  PROVE  ClientTurns
<1>t. UploadTypeOK /\ c \in ClientState /\ c.sub \in Subscription
  BY ClientFields DEF UploadInv, Follows
<1>s. Unsubscribe(c.sub) \in Subscription /\ Unsubscribe(c.sub).queue = c.sub.queue
  BY <1>t, UnsubscribeLemma
<1>1. client' = [c EXCEPT !.pc = "closing", !.terminated = TRUE, !.timer = FALSE,
                          !.sub = Unsubscribe(@)]
  BY DEF ClientFinally
<1>2. /\ client'.pc = "closing" /\ client'.terminated = TRUE
      /\ client'.sub.queue = c.sub.queue /\ client'.connected = c.connected
      /\ client'.got = c.got /\ client'.seq = c.seq /\ client'.outcome = c.outcome
  BY <1>1, <1>t, <1>s DEF ClientState
<1>3. client' \in ClientState
  <2> DEFINE c1 == [c EXCEPT !.pc = "closing"]
             c2 == [c1 EXCEPT !.terminated = TRUE]
             c3 == [c2 EXCEPT !.timer = FALSE]
             c4 == [c3 EXCEPT !.sub = Unsubscribe(c.sub)]
  <2>1. c1 \in ClientState
    BY <1>t, ClientFields
  <2>2. c2 \in ClientState
    <3> HIDE DEF c1
    <3> QED
      BY <2>1, ClientFields
  <2>3. c3 \in ClientState
    <3> HIDE DEF c2
    <3> QED
      BY <2>2, ClientFields
  <2>4. c4 \in ClientState
    <3> HIDE DEF c3
    <3> QED
      BY <2>3, <1>s, ClientFields
  <2> QED
    BY <1>1, <2>4
<1>4. Follows(client')
  <2> HIDE DEF Shrinks
  <2> QED
    BY <1>2, <1>3, Zenon DEF Follows
<1>5. /\ call' = call /\ host' = host
      /\ pump' = [pump EXCEPT !.ready = TRUE, !.credit = Cancel(@)]
      /\ pump' \in PumpState
  BY <1>t, ReleasePumpType DEF ClientFinally, ReleasePump
<1>6. /\ net' \in NetState /\ net'.open = net.open /\ net'.down = net.down
      /\ net'.up = net.up \/ net'.up = Append(net.up, CancelFrame)
  <2>1. net' = net \/ PublishUp(CancelFrame)
    BY DEF ClientFinally
  <2>2. net \in NetState
    BY <1>t DEF UploadTypeOK
  <2> QED
    BY <1>t, <2>1, <2>2, FrameTypes, PublishUpType
<1>7. UploadTypeOK'
  BY <1>t, <1>3, <1>5, <1>6 DEF UploadTypeOK
<1>8. TakenInOrder' /\ SuccessIsTheHosts'
  BY <1>2, <1>3, <1>4, <1>5, FollowsPromises
<1> QED
  BY <1>2, <1>4, <1>5, <1>6, <1>7, <1>8 DEF ClientTurns, Follows

\* A step of the client that leaves the pump and the network alone.
LEMMA SuspendTurns ==
  ASSUME UploadInv, NEW c, Follows(c), Suspends(c, FALSE), client.pc # "idle", c.pc # "idle",
         c.pc \in {"pulling", "yielded"} => c.outcome = "none",
         c.pc = "failed" => c.outcome # "ok",
         IsClientStream /\ c.pc = "pulling" => c.got = <<>>
  PROVE  ClientTurns
<1>1. client' = c /\ net' = net /\ call' = call /\ pump' = pump /\ host' = host
  BY DEF Suspends
<1>2. c \in ClientState
  BY DEF Follows
<1>3. UploadTypeOK'
  BY <1>1, <1>2 DEF UploadInv, UploadTypeOK
<1>4. TakenInOrder' /\ SuccessIsTheHosts'
  BY <1>1, <1>2, FollowsPromises
<1> QED
  BY <1>1, <1>3, <1>4 DEF ClientTurns, Follows

\* The frame the client takes: what the host has sent.
LEMMA ClientFrameLemma ==
  ASSUME UploadInv, Pulling
  PROVE  /\ ClientFrame \in Frame /\ client.pc = "pulling" /\ client.outcome = "none"
         /\ ClientFrame.t # "bad" => host.pc # "idle"
         /\ Taken(client.sub) \in Subscription
         /\ Taken(client.sub).queue = Tail(client.sub.queue)
         /\ client.sub.queue \in Seq(Frame) /\ client.sub.queue # <<>>
         /\ ClientFrame.t = "d" => ClientFrame.data = ClientFrame.seq + 1
         /\ ClientFrame.t = "d" /\ IsClientStream => ClientFrame.seq = 0 /\ host.ended = "e"
         /\ ClientFrame.t = "e" => host.ended = "e"
         /\ ClientFrame.t = "e" /\ IsDuplex => host.seq = ClientFrame.seq + 1
<1>1. client.sub \in Subscription /\ client.sub.queue \in Seq(Frame)
  BY PartTypes DEF UploadInv
<1>2. HasFrame(client.sub) /\ client.pc = "pulling"
  BY DEF Pulling
<1>3. /\ Taken(client.sub) \in Subscription
      /\ Taken(client.sub).queue = Tail(client.sub.queue)
      /\ ClientFrame \in Frame /\ client.sub.queue # <<>>
  BY <1>1, <1>2, TakenLemma DEF ClientFrame
<1>4. ClientFrame \in DownFrames
  BY <1>1, <1>3, MembersMove DEF DownFrames, ClientFrame, NextFrame
<1>5. /\ ClientFrame.t = "d" => ClientFrame.data = ClientFrame.seq + 1
      /\ ClientFrame.t = "d" /\ IsClientStream => ClientFrame.seq = 0 /\ host.ended = "e"
      /\ ClientFrame.t = "e" => host.ended = "e"
      /\ ClientFrame.t = "e" /\ IsDuplex => host.seq = ClientFrame.seq + 1
  BY <1>4 DEF UploadInv, HostInOrder
<1>6. ClientFrame.t # "bad" => host.pc # "idle"
  BY <1>4 DEF UploadInv, Untouched, Undecodable
<1>7. client.outcome = "none"
  BY <1>2 DEF UploadInv, Opened
<1> QED
  BY <1>1, <1>2, <1>3, <1>5, <1>6, <1>7

\* A client that has taken the frame and stops with an outcome other than "ok".
LEMMA TakenFollows ==
  ASSUME UploadInv, Pulling,
         NEW o \in {"none", "remote", "abandoned", "__transport__", "__timeout__", "__serde__"},
         NEW d \in BOOLEAN,
         NEW c, c = [client EXCEPT !.sub = Taken(@), !.hostDone = d, !.outcome = o]
  PROVE  Follows(c) /\ c.pc = client.pc /\ c.outcome = o /\ c.got = client.got
<1>1. client \in ClientState /\ Follows(client)
  BY FollowsItself DEF UploadInv, UploadTypeOK
<1>2. /\ Taken(client.sub) \in Subscription
      /\ Taken(client.sub).queue = Tail(client.sub.queue)
      /\ client.sub.queue # <<>>
  BY ClientFrameLemma
<1>3. c \in ClientState
  BY <1>1, <1>2 DEF ClientState
<1>4. /\ c.sub = Taken(client.sub) /\ c.got = client.got /\ c.seq = client.seq
      /\ c.connected = client.connected /\ c.terminated = client.terminated
      /\ c.outcome = o /\ c.pc = client.pc
  BY <1>1 DEF ClientState
<1>5. Shrinks(client.sub.queue, c.sub.queue)
  BY <1>2, <1>4 DEF Shrinks
<1> QED
  BY <1>1, <1>3, <1>4, <1>5 DEF Follows

\* The output of a clientStream call, or its failure.
LEMMA CSClientTakesResultTurns ==
  ASSUME UploadInv, CSClientTakesResult PROVE ClientTurns
<1>1. Pulling /\ IsClientStream /\ client.pc # "idle" /\ client.pc = "pulling"
  BY DEF CSClientTakesResult, Pulling
<1>2. CASE ClientFrame.t = "d"
  <2> DEFINE c == [client EXCEPT !.sub = Taken(@), !.hostDone = TRUE,
                                 !.got = Append(@, ClientFrame.data), !.outcome = "ok"]
  <2>1. ClientFinally(c, FALSE)
    BY <1>2 DEF CSClientTakesResult
  <2>2. client \in ClientState /\ client.got = <<>> /\ ~IsDuplex
    BY <1>1 DEF UploadInv, UploadTypeOK, TakenInOrder, IsDuplex, IsClientStream
  <2>3. /\ Taken(client.sub) \in Subscription
        /\ Taken(client.sub).queue = Tail(client.sub.queue)
        /\ client.sub.queue # <<>> /\ host.pc # "idle"
        /\ ClientFrame.data = ClientFrame.seq + 1 /\ ClientFrame.seq = 0 /\ host.ended = "e"
    BY <1>1, <1>2, ClientFrameLemma
  <2>4. Append(client.got, ClientFrame.data) = <<1>> /\ <<1>> \in Seq(Nat)
    BY <2>2, <2>3
  <2>5. c = [client EXCEPT !.sub = Taken(@), !.hostDone = TRUE,
                           !.got = <<1>>, !.outcome = "ok"]
    BY <2>4
  <2>6. c \in ClientState
    <3>1. [client EXCEPT !.sub = Taken(@)] \in ClientState
      BY <2>2, <2>3, ClientFields
    <3> DEFINE c1 == [client EXCEPT !.sub = Taken(@)]
               c2 == [c1 EXCEPT !.hostDone = TRUE]
               c3 == [c2 EXCEPT !.got = <<1>>]
               c4 == [c3 EXCEPT !.outcome = "ok"]
    <3>2. c2 \in ClientState
      <4> HIDE DEF c1
      <4> QED
        BY <3>1, ClientFields DEF c1
    <3>3. c3 \in ClientState
      <4> HIDE DEF c2
      <4> QED
        BY <3>2, <2>4, ClientFields
    <3>4. c4 \in ClientState
      <4> HIDE DEF c3
      <4> QED
        BY <3>3, ClientFields
    <3> QED
      BY <2>5, <3>4
  <2>7. /\ c.sub = Taken(client.sub) /\ c.got = <<1>>
        /\ c.connected = client.connected /\ c.terminated = client.terminated
        /\ c.outcome = "ok"
    BY <2>2, <2>5 DEF ClientState
  <2> HIDE DEF c
  <2>8. Shrinks(client.sub.queue, c.sub.queue)
    BY <2>3, <2>7 DEF Shrinks
  <2>9. c.got = [i \in 1..(IF IsDuplex THEN host.seq - 1 ELSE 1) |-> i]
    <3>1. <<1>> = [i \in 1..1 |-> i]
      OBVIOUS
    <3> QED
      BY <2>2, <2>7, <3>1
  <2>10. host.callError = "none"
    BY <2>3 DEF UploadInv, Opened
  <2>11. Follows(c)
    BY <2>2, <2>3, <2>6, <2>7, <2>8, <2>9, <2>10 DEF Follows
  <2> QED
    BY <1>1, <2>1, <2>11, FinallyTurns
<1>3. CASE ClientFrame.t \in {"x", "a"}
  <2> DEFINE o == IF ClientFrame.t = "x" THEN "remote" ELSE "__transport__"
             c == [client EXCEPT !.sub = Taken(@), !.hostDone = TRUE, !.outcome = o]
  <2>1. ClientFinally([client EXCEPT !.sub = Taken(@), !.hostDone = TRUE,
                                     !.got = @, !.outcome = o], FALSE)
    BY <1>3 DEF CSClientTakesResult
  <2>2. c = [client EXCEPT !.sub = Taken(@), !.hostDone = TRUE, !.got = @, !.outcome = o]
    BY DEF UploadInv, UploadTypeOK, ClientState
  <2>3. ClientFinally(c, FALSE)
    BY <2>1, <2>2
  <2>4. o \in {"none", "remote", "abandoned", "__transport__", "__timeout__", "__serde__"}
    OBVIOUS
  <2>5. Follows(c)
    <3> HIDE DEF o
    <3> QED
      BY <1>1, <2>4, TakenFollows
  <2> HIDE DEF c
  <2> QED
    BY <1>1, <2>3, <2>5, FinallyTurns
<1> QED
  BY <1>2, <1>3 DEF CSClientTakesResult

\* A bare EndFrame.
LEMMA CSClientTakesBareEndTurns ==
  ASSUME UploadInv, CSClientTakesBareEnd PROVE ClientTurns
<1> DEFINE c == [client EXCEPT !.sub = Taken(@)]
<1>1. Pulling /\ IsClientStream /\ client.pc = "pulling"
  BY DEF CSClientTakesBareEnd, Pulling
<1>2. client \in ClientState /\ client.got = <<>> /\ client.outcome = "none"
  BY <1>1 DEF UploadInv, UploadTypeOK, TakenInOrder, Opened
<1>3. /\ Taken(client.sub) \in Subscription
      /\ Taken(client.sub).queue = Tail(client.sub.queue) /\ client.sub.queue # <<>>
  BY <1>1, ClientFrameLemma
<1>4. /\ c \in ClientState /\ c.sub = Taken(client.sub) /\ c.got = client.got
      /\ c.seq = client.seq /\ c.pc = client.pc /\ c.connected = client.connected
      /\ c.terminated = client.terminated /\ c.outcome = client.outcome
  BY <1>2, <1>3 DEF ClientState
<1>5. Suspends(c, FALSE)
  BY DEF CSClientTakesBareEnd, Suspends
<1> HIDE DEF c
<1>6. Shrinks(client.sub.queue, c.sub.queue)
  BY <1>3, <1>4 DEF Shrinks
<1>7. Follows(c)
  BY <1>2, <1>4, <1>6, FollowsItself DEF Follows
<1> QED
  BY <1>1, <1>2, <1>4, <1>5, <1>7, SuspendTurns

\* A clientStream call that fails at the client.
LEMMA CSClientFailsTurns ==
  ASSUME UploadInv, CSClientFails PROVE ClientTurns
<1>1. CASE Pulling /\ ClientFinally([client EXCEPT !.sub = Taken(@), !.outcome = "__serde__"],
                                    TRUE)
  <2> DEFINE c == [client EXCEPT !.sub = Taken(@), !.hostDone = @, !.outcome = "__serde__"]
  <2>1. client \in ClientState /\ client.hostDone \in BOOLEAN /\ client.pc # "idle"
    BY <1>1, ClientFields DEF UploadInv, UploadTypeOK, Pulling
  <2>2. c = [client EXCEPT !.sub = Taken(@), !.outcome = "__serde__"]
    BY <2>1 DEF ClientState
  <2>3. Follows(c)
    BY <1>1, <2>1, TakenFollows
  <2> HIDE DEF c
  <2> QED
    BY <1>1, <2>1, <2>2, <2>3, FinallyTurns
<1>2. CASE client.pc = "pulling"
           /\ ClientFinally([client EXCEPT !.outcome =
                IF client.expired THEN "__timeout__" ELSE "__transport__"], TRUE)
  <2> DEFINE c == [client EXCEPT !.outcome =
                     IF client.expired THEN "__timeout__" ELSE "__transport__"]
  <2>1. client \in ClientState
    BY DEF UploadInv, UploadTypeOK
  <2>2. /\ c \in ClientState /\ c.sub = client.sub /\ c.got = client.got
        /\ c.seq = client.seq /\ c.connected = client.connected
        /\ c.terminated = client.terminated /\ c.outcome # "ok"
    BY <2>1 DEF ClientState
  <2> HIDE DEF c
  <2>3. Follows(c)
    BY <2>2, FollowsItself DEF Follows
  <2>4. ClientFinally(c, TRUE) /\ client.pc # "idle"
    BY <1>2 DEF c
  <2> QED
    BY <2>3, <2>4, FinallyTurns
<1> QED
  BY <1>1, <1>2 DEF CSClientFails

\* A generator that yields an error.
LEMMA FailedTurns ==
  ASSUME UploadInv, client.pc = "pulling", NEW q \in Subscription,
         Shrinks(client.sub.queue, q.queue),
         NEW o \in {"remote", "__transport__", "__timeout__", "__serde__"},
         NEW d \in BOOLEAN,
         NEW c, c = [client EXCEPT !.sub = q, !.pc = "failed", !.terminated = TRUE,
                                   !.hostDone = d, !.outcome = o],
         Suspends(c, FALSE)
  PROVE  ClientTurns
<1>1. client \in ClientState /\ Follows(client)
  BY FollowsItself DEF UploadInv, UploadTypeOK
<1>2. c \in ClientState
  <2> DEFINE c1 == [client EXCEPT !.sub = q]
             c2 == [c1 EXCEPT !.pc = "failed"]
             c3 == [c2 EXCEPT !.terminated = TRUE]
             c4 == [c3 EXCEPT !.hostDone = d]
             c5 == [c4 EXCEPT !.outcome = o]
  <2>1. c1 \in ClientState
    BY <1>1, ClientFields
  <2>2. c2 \in ClientState
    <3> HIDE DEF c1
    <3> QED
      BY <2>1, ClientFields
  <2>3. c3 \in ClientState
    <3> HIDE DEF c2
    <3> QED
      BY <2>2, ClientFields
  <2>4. c4 \in ClientState
    <3> HIDE DEF c3
    <3> QED
      BY <2>3, ClientFields
  <2>5. c5 \in ClientState
    <3> HIDE DEF c4
    <3> QED
      BY <2>4, ClientFields
  <2> QED
    BY <2>5
<1>3. /\ c.sub = q /\ c.got = client.got /\ c.seq = client.seq /\ c.pc = "failed"
      /\ c.connected = client.connected /\ c.terminated = TRUE /\ c.outcome = o
  BY <1>1 DEF ClientState
<1>4. Follows(c)
  BY <1>1, <1>2, <1>3 DEF Follows
<1> QED
  BY <1>3, <1>4, SuspendTurns

\* The generator of a duplex call takes the EndFrame.
LEMMA DXClientTakesEndTurns ==
  ASSUME UploadInv, DXClientTakesEnd PROVE ClientTurns
<1> DEFINE c == [client EXCEPT !.sub = Taken(@), !.hostDone = TRUE, !.outcome = "ok"]
<1>1. /\ Pulling /\ IsDuplex /\ ClientFrame.t = "e" /\ ClientFrame.seq = client.seq
      /\ client.pc # "idle" /\ ClientFinally(c, client.expired)
  BY DEF DXClientTakesEnd, Pulling, InOrder
<1>2. client \in ClientState /\ client.seq \in Nat /\ client.got = [i \in 1..client.seq |-> i]
  BY <1>1, ClientFields DEF UploadInv, UploadTypeOK, TakenInOrder
<1>3. /\ Taken(client.sub) \in Subscription
      /\ Taken(client.sub).queue = Tail(client.sub.queue) /\ client.sub.queue # <<>>
      /\ host.ended = "e" /\ host.seq = client.seq + 1
  BY <1>1, ClientFrameLemma
<1>4. /\ c \in ClientState /\ c.sub = Taken(client.sub) /\ c.got = client.got
      /\ c.seq = client.seq /\ c.connected = client.connected
      /\ c.terminated = client.terminated /\ c.outcome = "ok"
  BY <1>2, <1>3 DEF ClientState
<1> HIDE DEF c
<1>5. Shrinks(client.sub.queue, c.sub.queue)
  BY <1>3, <1>4 DEF Shrinks
<1>6. host.callError = "none" /\ host.seq - 1 = client.seq
  BY <1>2, <1>3 DEF UploadInv, Opened
<1>7. Follows(c)
  BY <1>1, <1>2, <1>3, <1>4, <1>5, <1>6 DEF Follows
<1> QED
  BY <1>1, <1>7, FinallyTurns

\* It takes an ErrorFrame.
LEMMA DXClientTakesErrorTurns ==
  ASSUME UploadInv, DXClientTakesError PROVE ClientTurns
<1> DEFINE o == CASE ClientFrame.t = "x" -> "remote"
                  [] ClientFrame.t = "e" -> "__transport__"
                  [] OTHER -> "__serde__"
           c == [client EXCEPT !.sub = Taken(@), !.pc = "failed", !.terminated = TRUE,
                               !.hostDone = TRUE, !.outcome = o]
<1>1. Pulling /\ client.pc = "pulling" /\ Suspends(c, FALSE)
  BY DEF DXClientTakesError, Pulling
<1>2. o \in {"remote", "__transport__", "__timeout__", "__serde__"}
  OBVIOUS
<1>3. /\ Taken(client.sub) \in Subscription /\ Shrinks(client.sub.queue, Taken(client.sub).queue)
  BY <1>1, ClientFrameLemma DEF Shrinks
<1> HIDE DEF o
<1> QED
  BY <1>1, <1>2, <1>3, FailedTurns

\* `down` is closed under it.
LEMMA DXClientDownClosesTurns ==
  ASSUME UploadInv, DXClientDownCloses PROVE ClientTurns
<1> DEFINE o == IF client.expired THEN "__timeout__" ELSE "__transport__"
           c == [client EXCEPT !.sub = client.sub, !.pc = "failed", !.terminated = TRUE,
                               !.hostDone = client.hostDone, !.outcome = o]
<1>1. /\ client.pc = "pulling"
      /\ Suspends([client EXCEPT !.pc = "failed", !.terminated = TRUE, !.outcome = o], FALSE)
  BY DEF DXClientDownCloses
<1>2. o \in {"remote", "__transport__", "__timeout__", "__serde__"}
  OBVIOUS
<1>3. client \in ClientState /\ client.sub \in Subscription /\ client.hostDone \in BOOLEAN
  BY ClientFields DEF UploadInv, UploadTypeOK
<1>4. Shrinks(client.sub.queue, client.sub.queue)
  BY DEF Shrinks
<1> HIDE DEF o
<1>5. c = [client EXCEPT !.pc = "failed", !.terminated = TRUE, !.outcome = o]
  BY <1>3 DEF ClientState
<1>6. Suspends(c, FALSE)
  BY <1>1, <1>5
<1> QED
  BY <1>1, <1>2, <1>3, <1>4, <1>6, FailedTurns

\* The application pulls again.
LEMMA DXConsumerPullsTurns ==
  ASSUME UploadInv, DXConsumerPulls PROVE ClientTurns
<1> DEFINE c == [client EXCEPT !.pc = "pulling"]
<1>1. client.pc = "yielded" /\ Suspends(c, FALSE) /\ IsDuplex /\ ~IsClientStream
  BY DEF DXConsumerPulls, IsDuplex, IsClientStream
<1>2. client \in ClientState /\ client.outcome = "none"
  BY <1>1 DEF UploadInv, UploadTypeOK, Opened
<1>3. /\ c \in ClientState /\ c.sub = client.sub /\ c.got = client.got
      /\ c.seq = client.seq /\ c.connected = client.connected
      /\ c.terminated = client.terminated /\ c.outcome = "none" /\ c.pc = "pulling"
  BY <1>2 DEF ClientState
<1> HIDE DEF c
<1>4. Follows(c)
  BY <1>3, FollowsItself DEF Follows
<1> QED
  BY <1>1, <1>3, <1>4, SuspendTurns

\* The application abandons the generator.
LEMMA DXConsumerLeavesTurns ==
  ASSUME UploadInv, DXConsumerLeaves PROVE ClientTurns
<1>1. client \in ClientState /\ Follows(client)
  BY FollowsItself DEF UploadInv, UploadTypeOK
<1>2. ASSUME client.pc = "failed", NEW b, ClientFinally(client, b) PROVE ClientTurns
  BY <1>1, <1>2, FinallyTurns
<1>3. ASSUME client.pc = "yielded",
             ClientFinally([client EXCEPT !.outcome = "abandoned"], TRUE)
      PROVE  ClientTurns
  <2> DEFINE c == [client EXCEPT !.outcome = "abandoned"]
  <2>1. ClientFinally(c, TRUE)
    BY <1>3
  <2>2. /\ c \in ClientState /\ c.sub = client.sub /\ c.got = client.got
        /\ c.seq = client.seq /\ c.connected = client.connected
        /\ c.terminated = client.terminated /\ c.outcome = "abandoned"
    BY <1>1 DEF ClientState
  <2> HIDE DEF c
  <2>3. Follows(c)
    BY <1>1, <2>2 DEF Follows
  <2> QED
    BY <1>3, <2>1, <2>3, FinallyTurns
<1> QED
  BY <1>2, <1>3 DEF DXConsumerLeaves

\* The finally that is left to run.
LEMMA ClientReturnsTurns ==
  ASSUME UploadInv, ClientReturns PROVE ClientTurns
<1> DEFINE c == [client EXCEPT !.pc = "done"]
<1>1. client.pc = "closing" /\ Suspends(c, FALSE)
  BY DEF ClientReturns, Suspends
<1>2. client \in ClientState
  BY DEF UploadInv, UploadTypeOK
<1>3. /\ c \in ClientState /\ c.sub = client.sub /\ c.got = client.got
      /\ c.seq = client.seq /\ c.connected = client.connected
      /\ c.terminated = client.terminated /\ c.outcome = client.outcome /\ c.pc = "done"
  BY <1>2 DEF ClientState
<1> HIDE DEF c
<1>4. Follows(c)
  BY <1>3, FollowsItself DEF Follows
<1> QED
  BY <1>1, <1>3, <1>4, SuspendTurns

\* A timer or the connection ends the call under the client.
LEMMA ClientBrokenTurns ==
  ASSUME UploadInv, NEW c \in ClientState, client' = c, ReleasePump,
         UNCHANGED <<call, host>>, net' \in NetState,
         net'.open = net.open, net'.up = net.up, net'.down = net.down,
         c.pc = client.pc, c.got = client.got, c.seq = client.seq, c.outcome = client.outcome,
         c.sub.queue = client.sub.queue, client.pc # "idle",
         client.terminated => c.terminated, ~client.connected => ~c.connected,
         c.terminated \/ ~c.connected
  PROVE  ClientTurns
<1>1. Shrinks(client.sub.queue, c.sub.queue)
  BY DEF Shrinks
<1>2. Follows(c)
  BY <1>1, FollowsItself DEF Follows
<1>3. IsClientStream /\ c.pc \in {"idle", "pulling"} => c.got = <<>>
  BY DEF UploadInv, TakenInOrder
<1>4. TakenInOrder' /\ SuccessIsTheHosts'
  BY <1>2, <1>3, FollowsPromises
<1>5. UploadTypeOK'
  BY ReleasePumpType DEF UploadInv, UploadTypeOK
<1>6. /\ client'.pc \in {"pulling", "yielded"} => client'.outcome = "none"
      /\ client'.pc = "failed" => client'.outcome # "ok"
  BY DEF UploadInv, Opened
<1> QED
  BY <1>1, <1>4, <1>5, <1>6 DEF ClientTurns, ReleasePump

\* The client's timer fires.
LEMMA ClientExpiresTurns ==
  ASSUME UploadInv, ClientExpires, client.pc # "idle" PROVE ClientTurns
<1> DEFINE c == [client EXCEPT !.timer = FALSE, !.expired = TRUE,
                               !.terminated = TRUE, !.sub = Unsubscribe(@)]
<1>1. client \in ClientState /\ client.sub \in Subscription /\ net \in NetState
  BY ClientFields DEF UploadInv, UploadTypeOK
<1>2. /\ Unsubscribe(client.sub) \in Subscription
      /\ Unsubscribe(client.sub).queue = client.sub.queue
  BY <1>1, UnsubscribeLemma
<1>3. c \in ClientState
  <2> DEFINE c1 == [client EXCEPT !.timer = FALSE]
             c2 == [c1 EXCEPT !.expired = TRUE]
             c3 == [c2 EXCEPT !.terminated = TRUE]
             c4 == [c3 EXCEPT !.sub = Unsubscribe(client.sub)]
  <2>1. c1 \in ClientState
    BY <1>1, ClientFields
  <2>2. c2 \in ClientState
    <3> HIDE DEF c1
    <3> QED
      BY <2>1, ClientFields
  <2>3. c3 \in ClientState
    <3> HIDE DEF c2
    <3> QED
      BY <2>2, ClientFields
  <2>4. c4 \in ClientState
    <3> HIDE DEF c3
    <3> QED
      BY <2>3, <1>2, ClientFields
  <2> QED
    BY <2>4
<1>4. /\ c.pc = client.pc /\ c.got = client.got /\ c.seq = client.seq
      /\ c.outcome = client.outcome /\ c.connected = client.connected
      /\ c.terminated = TRUE /\ c.sub.queue = client.sub.queue
  BY <1>1, <1>2 DEF ClientState
<1>5. client' = c /\ ReleasePump /\ UNCHANGED <<call, host, net>>
  BY DEF ClientExpires
<1> HIDE DEF c
<1> QED
  BY <1>1, <1>3, <1>4, <1>5, ClientBrokenTurns

\* A fault is one more, and otherwise what happened.
LEMMA FaultType ==
  ASSUME NEW n \in NetState, Fault(n), net \in NetState
  PROVE  /\ net' \in NetState
         /\ net'.open = n.open /\ net'.up = n.up /\ net'.down = n.down
<1>1. net' = [n EXCEPT !.faults = n.faults + 1]
  BY DEF Fault
<1>2. n.faults + 1 \in Nat
  BY NetFields
<1> QED
  BY <1>1, <1>2 DEF NetState

\* The client's connection closes.
LEMMA ClientConnectionClosesTurns ==
  ASSUME UploadInv, ClientConnectionCloses PROVE ClientTurns
<1> DEFINE c == [client EXCEPT !.connected = FALSE, !.sub = Unsubscribe(@)]
<1>1. client \in ClientState /\ client.sub \in Subscription /\ net \in NetState
  BY ClientFields DEF UploadInv, UploadTypeOK
<1>2. /\ Unsubscribe(client.sub) \in Subscription
      /\ Unsubscribe(client.sub).queue = client.sub.queue
  BY <1>1, UnsubscribeLemma
<1>3. /\ c \in ClientState
      /\ c.pc = client.pc /\ c.got = client.got /\ c.seq = client.seq
      /\ c.outcome = client.outcome /\ c.connected = FALSE
      /\ c.terminated = client.terminated /\ c.sub.queue = client.sub.queue
  BY <1>1, <1>2 DEF ClientState
<1>4. client' = c /\ ReleasePump /\ UNCHANGED <<call, host>> /\ Fault(net) /\ client.pc # "idle"
  BY DEF ClientConnectionCloses
<1>5. /\ net' \in NetState
      /\ net'.open = net.open /\ net'.up = net.up /\ net'.down = net.down
  BY <1>1, <1>4, FaultType
<1> HIDE DEF c
<1> QED
  BY <1>3, <1>4, <1>5, ClientBrokenTurns

-------------------------------------------------------------------------------
(* A step of the pump. *)

\* What it may do: change its window and publish, without using more of it.
PumpTurns ==
  /\ call' = call /\ client' = client /\ host' = host /\ UploadTypeOK'
  /\ pump.pc # "off" /\ net'.open = net.open /\ net'.down = net.down
  /\ \A f \in Members(net'.up) :
       \/ f \in Members(net.up)
       \/ f.t = "d" /\ f.data = f.seq + 1 /\ f.data <= call.inputs /\ host.pc # "idle"
       \/ f.t = "e" /\ pump'.ended
  /\ pump.ended => pump'.ended
  /\ pump'.pc \in {"off", "gate", "input"} => pump'.taken = pump'.seq /\ ~pump'.ended
  /\ pump'.pc = "acquiring" => pump'.taken = pump'.seq + 1 /\ ~pump'.ended
  /\ pump'.taken <= call.inputs
  /\ pump'.credit.cancelled = pump.credit.cancelled /\ pump'.ready = pump.ready
  /\ pump'.credit.waiters <= 1
  /\ pump'.credit.waiters > 0 => pump'.pc = "acquiring"
  /\ host.pc = "idle" => pump'.credit.credit = 0 /\ pump.ready
  /\ PumpHas' + UpOut' <= PumpHas + UpOut
  /\ Granted(net'.up) = Granted(net.up)

\* The host's side of the invariant, when the host and the frames to it stay.
LEMMA GivenSame ==
  ASSUME GivenInOrder, host' = host, call' = call, pump.ended => pump'.ended
  PROVE  GivenInOrder'
<1>1. InputsInOrder'
  BY DEF GivenInOrder, InputsInOrder
<1> QED
  BY <1>1 DEF GivenInOrder, Plain, Half, IsClientStream

\* The same of the frames it sent.
LEMMA HostSame ==
  ASSUME HostInOrder, host' = host, call' = call,
         \A f \in DownFrames' : f \in DownFrames \/ f.t \notin {"d", "e"}
  PROVE  HostInOrder'
BY DEF HostInOrder, IsClientStream, IsDuplex

\* The same of what the application was given.
LEMMA ClientSame ==
  ASSUME TakenInOrder, SuccessIsTheHosts, client' = client, call' = call, host' = host
  PROVE  TakenInOrder' /\ SuccessIsTheHosts'
BY DEF TakenInOrder, SuccessIsTheHosts, IsClientStream, IsDuplex

\* Such a step keeps the invariant.
LEMMA PumpTurnsKeep == UploadInv /\ PumpTurns => UploadInv'
<1> SUFFICES ASSUME UploadInv, PumpTurns PROVE UploadInv'
  OBVIOUS
<1>t. UploadTypeOK /\ UploadTypeOK' /\ client.pc # "idle"
  BY DEF UploadInv, PumpTurns, Opened
<1>f. /\ DownFrames' = DownFrames
      /\ \A f \in UpFrames' :
           \/ f \in UpFrames
           \/ f.t = "d" /\ f.data = f.seq + 1 /\ f.data <= call.inputs /\ host.pc # "idle"
           \/ f.t = "e" /\ pump'.ended
  BY DEF DownFrames, UpFrames, PumpTurns
<1>1. Opened'
  BY <1>t DEF UploadInv, Opened, PumpTurns, Silent
<1>2. Untouched'
  <2> SUFFICES ASSUME host.pc = "idle" PROVE Untouched'
    BY DEF Untouched, PumpTurns
  <2>1. /\ ~host.sub.open /\ host.sub.queue = <<>> /\ host.queue = <<>>
        /\ host.credit = NewController(0) /\ ~host.timer /\ ~host.terminated /\ host.drain = "off"
        /\ host.input = "open" /\ host.got = <<>> /\ host.expected = 0
        /\ host.seq = 0 /\ host.produced = 0
        /\ client.got = <<>> /\ \A f \in DownFrames : f = Undecodable
    BY DEF UploadInv, Untouched
  <2>2. \A f \in UpFrames : f.t \notin {"d", "c"}
    BY DEF UploadInv, Untouched
  <2>3. \A f \in UpFrames' : f.t \notin {"d", "c"}
    BY <1>f, <2>2
  <2>4. /\ pump'.credit.credit = 0
        /\ pump'.ready => pump'.credit.cancelled
        /\ ~pump'.ready => pump'.pc \in {"off", "gate"}
    BY DEF UploadInv, Untouched, PumpTurns
  <2> QED
    BY <1>f, <2>1, <2>3, <2>4 DEF Untouched, PumpTurns
<1>3. Windows'
  BY DEF UploadInv, Windows, PumpTurns
<1>4. PumpInOrder'
  <2>1. \A f \in UpFrames' : /\ f.t = "d" => f.data = f.seq + 1 /\ f.data <= call.inputs
                             /\ f.t = "e" => pump'.ended
                             /\ f.t # "x"
    BY <1>f DEF UploadInv, PumpInOrder, PumpTurns
  <2> QED
    BY <2>1 DEF PumpInOrder, PumpTurns
<1>5. GivenInOrder'
  BY GivenSame DEF UploadInv, PumpTurns
<1>6. HostInOrder' /\ TakenInOrder' /\ SuccessIsTheHosts'
  BY <1>f, HostSame, ClientSame DEF UploadInv, PumpTurns
<1>7. WindowsConserved'
  <2>1. TermsNatural /\ TermsNatural'
    BY <1>t, TermTypes, TermTypesNext
  <2>2. DownGrants' = DownGrants /\ DownOut' = DownOut /\ UpGrants' = UpGrants
    BY DEF DownGrants, DownOut, UpGrants, PumpTurns
  <2>3. HostHas' = HostHas
    BY DEF HostHas, HostHolds, PumpTurns
  <2>4. PumpHas' + UpOut' + DownGrants' <= PumpHas + UpOut + DownGrants
    <3>1. PumpHas' + UpOut' <= PumpHas + UpOut
      BY DEF PumpTurns
    <3>2. /\ PumpHas \in Int /\ UpOut \in Int /\ DownGrants \in Int
          /\ PumpHas' \in Int /\ UpOut' \in Int
      BY <2>1 DEF TermsNatural
    <3>3. PumpHas' + UpOut' + DownGrants <= PumpHas + UpOut + DownGrants
      BY <3>1, <3>2, SumStays, Zenon
    <3> QED
      BY <2>2, <3>3, Zenon
  <2>5. HostHas' + DownOut' + UpGrants' <= HostHas + DownOut + UpGrants
    BY <2>1, <2>2, <2>3 DEF TermsNatural
  <2> QED
    BY <1>t, <2>4, <2>5, WindowsFall DEF CreditsFall, UploadInv, PumpTurns
<1> QED
  BY <1>t, <1>1, <1>2, <1>3, <1>4, <1>5, <1>6, <1>7 DEF UploadInv

\* What the pump holds while it acquires.
LEMMA HoldsLemma ==
  /\ pump.pc # "acquiring" => PumpHolds = 0
  /\ PumpHolds \in {0, 1}
  /\ pump.credit.waiters > 0 \/ pump.credit.cancelled => PumpHolds = 0
  /\ pump.pc = "acquiring" /\ ~(pump.credit.waiters > 0) /\ ~pump.credit.cancelled
       => PumpHolds = 1
BY DEF PumpHolds, Held, Parked

\* The same of the next state.
LEMMA HoldsNext ==
  /\ pump'.pc # "acquiring" => PumpHolds' = 0
  /\ PumpHolds' \in {0, 1}
  /\ pump'.credit.waiters > 0 \/ pump'.credit.cancelled => PumpHolds' = 0
  /\ pump'.pc = "acquiring" /\ ~(pump'.credit.waiters > 0) /\ ~pump'.credit.cancelled
       => PumpHolds' = 1
BY DEF PumpHolds, Held, Parked

\* A sender that holds nothing afterwards has used nothing more.
LEMMA PumpLetsGo ==
  ASSUME UploadTypeOK, UploadTypeOK', pump'.credit = pump.credit, pump'.pc # "acquiring"
  PROVE  PumpHas' <= PumpHas
<1>1. pump.credit.credit \in Nat
  BY PumpFields DEF UploadTypeOK, Controller
<1>2. PumpHolds' = 0 /\ PumpHolds \in {0, 1}
  BY HoldsLemma, HoldsNext
<1>3. pump'.credit.credit = pump.credit.credit
  OBVIOUS
<1>4. PumpHas = pump.credit.credit + PumpHolds
  BY DEF PumpHas
<1>5. PumpHas' = pump.credit.credit + 0
  BY <1>2, <1>3, Zenon DEF PumpHas
<1> QED
  BY <1>1, <1>2, <1>4, <1>5

\* The pump goes on or stops without publishing.
LEMMA PumpRests ==
  ASSUME UploadInv, NEW p \in PumpState, pump' = p, UNCHANGED <<call, client, host, net>>,
         pump.pc # "off", p.pc \in {"input", "done"},
         p.credit = pump.credit, p.ready = pump.ready, p.taken = pump.taken,
         p.seq = pump.seq, p.ended = pump.ended,
         pump.credit.waiters = 0,
         p.pc = "input" => pump.pc \in {"gate", "input"},
         host.pc = "idle" => pump.ready
  PROVE  PumpTurns
<1>1. UploadTypeOK /\ UploadTypeOK'
  BY DEF UploadInv, UploadTypeOK
<1>2. PumpHas' + UpOut' <= PumpHas + UpOut
  <2>1. PumpHas' <= PumpHas
    BY <1>1, PumpLetsGo
  <2>2. UpOut' = UpOut
    BY DEF UpOut, Queued
  <2>3. /\ PumpHas \in Int /\ PumpHas' \in Int /\ UpOut \in Int /\ UpOut' \in Int
        /\ UpOut' <= UpOut
    BY <1>1, <2>2, TermTypes, TermTypesNext DEF TermsNatural
  <2> QED
    BY <2>1, <2>3, SumsFall, Zenon
<1>3. pump'.credit.waiters <= 1 /\ ~(pump'.credit.waiters > 0)
  OBVIOUS
<1>4. /\ pump'.pc \in {"off", "gate", "input"} => pump'.taken = pump'.seq /\ ~pump'.ended
      /\ pump'.pc # "acquiring" /\ pump'.taken <= call.inputs
  BY DEF UploadInv, PumpInOrder
<1>5. host.pc = "idle" => pump'.credit.credit = 0
  BY DEF UploadInv, Untouched
<1>6. net'.up = net.up
  OBVIOUS
<1> QED
  BY <1>1, <1>2, <1>3, <1>4, <1>5, <1>6 DEF PumpTurns

\* A pump that has begun or waits at an open gate was let through it.
LEMMA PumpReady ==
  ASSUME UploadInv, pump.pc \in {"input", "acquiring"} \/ pump.ready
  PROVE  host.pc = "idle" => pump.ready /\ pump.credit.cancelled
BY DEF UploadInv, Untouched

\* A pump that is not acquiring waits for nothing.
LEMMA NobodyWaits ==
  ASSUME UploadInv, pump.pc # "acquiring" \/ ~Parked(pump.credit)
  PROVE  pump.credit.waiters = 0 /\ pump.credit \in Controller /\ pump \in PumpState
<1>1. pump.credit \in Controller /\ pump \in PumpState /\ pump.credit.waiters \in Nat
  BY PumpFields DEF UploadInv, UploadTypeOK, Controller
<1> QED
  BY <1>1 DEF UploadInv, Windows, Parked

\* The gate opens.
LEMMA PumpBeginsTurns == ASSUME UploadInv, PumpBegins PROVE PumpTurns
<1> DEFINE p == [pump EXCEPT !.pc = IF client.terminated THEN "done" ELSE "input"]
<1>1. pump' = p /\ pump.pc = "gate" /\ pump.ready /\ UNCHANGED <<call, client, host, net>>
  BY DEF PumpBegins
<1>2. pump \in PumpState /\ pump.credit.waiters = 0
  BY <1>1, NobodyWaits
<1>3. /\ p \in PumpState /\ p.pc \in {"input", "done"} /\ p.credit = pump.credit
      /\ p.ready = pump.ready /\ p.taken = pump.taken /\ p.seq = pump.seq
      /\ p.ended = pump.ended
  BY <1>2 DEF PumpState
<1> HIDE DEF p
<1> QED
  BY <1>1, <1>2, <1>3, PumpRests

\* The pump stops, whatever its iterable does.
LEMMA PumpReturnsTurns ==
  ASSUME UploadInv, NEW b \in BOOLEAN, pump' = [pump EXCEPT !.pc = "done", !.threw = b],
         pump.pc \in {"input", "acquiring"},
         pump.pc # "acquiring" \/ ~Parked(pump.credit),
         UNCHANGED <<call, client, host, net>>
  PROVE  PumpTurns
<1> DEFINE p == [pump EXCEPT !.pc = "done", !.threw = b]
<1>1. pump \in PumpState /\ pump.credit.waiters = 0
  BY NobodyWaits
<1>2. /\ p \in PumpState /\ p.pc = "done" /\ p.credit = pump.credit
      /\ p.ready = pump.ready /\ p.taken = pump.taken /\ p.seq = pump.seq
      /\ p.ended = pump.ended
  BY <1>1 DEF PumpState
<1>3. pump' = p /\ pump.pc # "off" /\ (host.pc = "idle" => pump.ready)
  BY PumpReady
<1> HIDE DEF p
<1> QED
  BY <1>1, <1>2, <1>3, PumpRests

\* The iterable of inputs throws.
LEMMA PumpInputThrowsTurns == ASSUME UploadInv, PumpInputThrows PROVE PumpTurns
<1>1. /\ pump' = [pump EXCEPT !.pc = "done", !.threw = TRUE] /\ pump.pc = "input"
      /\ UNCHANGED <<call, client, host, net>>
  BY DEF PumpInputThrows
<1> QED
  BY <1>1, PumpReturnsTurns

\* The early return of an ended call.
LEMMA PumpStopsTurns ==
  ASSUME UploadInv, pump' = [pump EXCEPT !.pc = "done"],
         pump.pc \in {"input", "acquiring"},
         pump.pc # "acquiring" \/ ~Parked(pump.credit),
         UNCHANGED <<call, client, host, net>>
  PROVE  PumpTurns
<1>1. pump \in PumpState /\ pump.threw \in BOOLEAN
  BY NobodyWaits, PumpFields
<1>2. pump' = [pump EXCEPT !.pc = "done", !.threw = pump.threw]
  BY <1>1 DEF PumpState
<1> QED
  BY <1>1, <1>2, PumpReturnsTurns

\* The pump takes the next input and acquires a credit for it, or waits.
LEMMA PumpTakesInputTurns == ASSUME UploadInv, PumpTakesInput PROVE PumpTurns
<1>0. pump.pc = "input" /\ pump.taken < call.inputs /\ UNCHANGED <<call, client, host, net>>
  BY DEF PumpTakesInput
<1>1. CASE pump' = [pump EXCEPT !.pc = "done"]
  BY <1>0, <1>1, PumpStopsTurns
<1>2. CASE pump' = [pump EXCEPT !.pc = "acquiring", !.taken = @ + 1, !.credit = Acquire(@)]
  <2> DEFINE k == pump.credit
             a == Acquire(pump.credit)
  <2>1. pump \in PumpState /\ k.waiters = 0 /\ k \in Controller /\ k.credit \in Nat
    BY <1>0, NobodyWaits DEF Controller
  <2>2. /\ a \in Controller /\ a.cancelled = k.cancelled /\ (k.cancelled => a = k)
        /\ ~k.cancelled /\ k.credit > 0 => a.credit = k.credit - 1 /\ a.waiters = 0
        /\ ~k.cancelled /\ k.credit = 0 => a.credit = 0 /\ a.waiters = 1
    BY <2>1, AcquireLemma
  <2>3. /\ pump.taken \in Nat /\ pump.seq \in Nat /\ call.inputs \in Nat
        /\ pump.taken = pump.seq /\ ~pump.ended
    BY <1>0, <2>1, PumpFields, CallFields DEF UploadInv, PumpInOrder, UploadTypeOK
  <2>4. pump' \in PumpState
    <3> HIDE DEF a
    <3>1. pump' = [pump EXCEPT !.pc = "acquiring", !.taken = pump.taken + 1, !.credit = a]
      BY <1>2 DEF a
    <3> DEFINE p1 == [pump EXCEPT !.pc = "acquiring"]
               p2 == [p1 EXCEPT !.taken = pump.taken + 1]
               p3 == [p2 EXCEPT !.credit = a]
    <3>2. p1 \in PumpState
      BY <2>1, PumpFields
    <3>3. p2 \in PumpState
      <4>1. pump.taken + 1 \in Nat
        BY <2>3
      <4> HIDE DEF p1
      <4> QED
        BY <3>2, <4>1, PumpFields
    <3>4. p3 \in PumpState
      <4>1. a \in Controller
        BY <2>2
      <4> HIDE DEF p2
      <4> QED
        BY <3>3, <4>1, PumpFields
    <3> QED
      BY <3>1, <3>4
  <2>5. /\ pump'.pc = "acquiring" /\ pump'.taken = pump.taken + 1 /\ pump'.credit = a
        /\ pump'.seq = pump.seq /\ pump'.ended = pump.ended /\ pump'.ready = pump.ready
    <3> HIDE DEF a
    <3>1. pump' = [pump EXCEPT !.pc = "acquiring", !.taken = pump.taken + 1, !.credit = a]
      BY <1>2 DEF a
    <3> QED
      BY <2>1, <3>1 DEF PumpState
  <2> HIDE DEF a
  <2>6. UploadTypeOK /\ UploadTypeOK'
    BY <1>0, <2>4 DEF UploadInv, UploadTypeOK
  <2>7. PumpHas' <= PumpHas
    <3>1. PumpHolds = 0 /\ PumpHas = k.credit
      BY <1>0, <2>1, HoldsLemma DEF PumpHas
    <3>2. CASE k.cancelled
      <4>1. PumpHolds' = 0 /\ pump'.credit.credit = k.credit
        BY <2>2, <2>5, <3>2, HoldsNext
      <4>2. PumpHas' = k.credit + 0
        BY <4>1, Zenon DEF PumpHas
      <4> QED
        BY <2>1, <3>1, <4>2
    <3>3. CASE ~k.cancelled /\ k.credit > 0
      <4>1. PumpHolds' \in {0, 1} /\ pump'.credit.credit = k.credit - 1
        BY <2>2, <2>5, <3>3, HoldsNext
      <4>2. PumpHas' = (k.credit - 1) + PumpHolds'
        BY <4>1, Zenon DEF PumpHas
      <4> QED
        BY <2>1, <3>1, <4>1, <4>2
    <3>4. CASE ~k.cancelled /\ k.credit = 0
      <4>1. a.waiters = 1 /\ a.credit = 0
        BY <2>2, <3>4
      <4>2. PumpHolds' = 0 /\ pump'.credit.credit = 0
        BY <2>5, <4>1, HoldsNext
      <4>3. PumpHas' = 0 + 0
        BY <4>2, Zenon DEF PumpHas
      <4> QED
        BY <2>1, <3>1, <4>3
    <3> QED
      BY <2>1, <3>2, <3>3, <3>4
  <2>8. PumpHas' + UpOut' <= PumpHas + UpOut
    <3>1. UpOut' = UpOut
      BY <1>0 DEF UpOut, Queued
    <3>2. /\ PumpHas \in Int /\ PumpHas' \in Int /\ UpOut \in Int /\ UpOut' \in Int
          /\ UpOut' <= UpOut
      BY <2>6, <3>1, TermTypes, TermTypesNext DEF TermsNatural
    <3> QED
      BY <2>7, <3>2, SumsFall, Zenon
  <2>9. pump'.credit.waiters <= 1
    <3>1. a.waiters \in {0, 1}
      BY <2>1, <2>2
    <3> QED
      BY <2>5, <3>1
  <2>10. host.pc = "idle" => pump'.credit.credit = 0 /\ pump.ready
    BY <1>0, <2>2, <2>5, PumpReady DEF UploadInv, Untouched
  <2>11. /\ pump'.taken = pump'.seq + 1 /\ ~pump'.ended /\ pump'.taken <= call.inputs
    BY <1>0, <2>3, <2>5
  <2>12. net' = net
    BY <1>0
  <2> QED
    BY <1>0, <2>2, <2>5, <2>6, <2>8, <2>9, <2>10, <2>11, <2>12 DEF PumpTurns
<1> QED
  BY <1>1, <1>2 DEF PumpTakesInput

\* The pump publishes a frame: an input, on the credit it holds, or the half-close.
LEMMA PumpSends ==
  ASSUME UploadInv, NEW f \in Frame, PublishUp(f), NEW p \in PumpState, pump' = p,
         UNCHANGED <<call, client, host>>, ~client.terminated, client.connected,
         pump.pc \in {"input", "acquiring"}, p.pc \in {"input", "done"},
         p.credit = pump.credit, pump.credit.waiters = 0, p.ready = pump.ready,
         p.taken = pump.taken, ~pump.ended,
         p.pc = "input" => p.taken = p.seq /\ ~p.ended,
         \/ f.t = "d" /\ pump.pc = "acquiring" /\ f.data = f.seq + 1 /\ f.data <= call.inputs
         \/ f.t = "e" /\ p.ended
  PROVE  PumpTurns
<1>1. net' \in NetState /\ net'.up = Append(net.up, f)
      /\ net'.down = net.down /\ net'.open = net.open
  BY PublishUpType DEF UploadInv
<1>2. UploadTypeOK /\ UploadTypeOK'
  BY <1>1 DEF UploadInv, UploadTypeOK
<1>3. net.up \in Seq(Frame) /\ pump.credit \in Controller /\ pump.credit.credit \in Nat
  BY <1>2, PartTypes DEF Controller
<1>4. Members(net'.up) = Members(net.up) \cup {f}
  BY <1>1, <1>3, MembersMove
<1>5. Granted(net'.up) = Granted(net.up)
  <2>1. Grants(f) = 0 /\ Granted(net.up) \in Nat
    BY <1>3, GrantedType DEF Grants
  <2>2. Granted(net'.up) = Granted(net.up) + Grants(f)
    BY <1>1, <1>3, GrantedAppend
  <2> QED
    BY <2>1, <2>2
<1>6. ~pump.credit.cancelled /\ host.pc # "idle"
  BY PumpReady DEF UploadInv, Windows
<1>7. PumpHas' + UpOut' <= PumpHas + UpOut
  <2>1. /\ PumpHas \in Int /\ PumpHas' \in Int /\ UpOut \in Int /\ UpOut' \in Int
    BY <1>2, TermTypes, TermTypesNext DEF TermsNatural
  <2>2. Count(net'.up, "d") = Count(net.up, "d") + (IF f.t = "d" THEN 1 ELSE 0)
    BY <1>1, <1>3, CountAppend
  <2>3. Count(net.up, "d") \in Nat /\ Count(host.sub.queue, "d") \in Nat /\ Queued \in Nat
    BY <1>2, PartTypes, CountType, ChosenFinite DEF Queued
  <2>4. Queued' = Queued /\ host' = host
    BY DEF Queued
  <2>5. CASE f.t = "d"
    <3>1. PumpHolds = 1 /\ PumpHolds' = 0 /\ pump'.credit.credit = pump.credit.credit
      BY <1>6, <2>5, HoldsLemma, HoldsNext
    <3>2. PumpHas = pump.credit.credit + 1 /\ PumpHas' = pump.credit.credit + 0
      BY <3>1, Zenon DEF PumpHas
    <3>3. Count(net'.up, "d") = Count(net.up, "d") + 1
      BY <2>2, <2>5
    <3>4. UpOut' = (Count(net.up, "d") + 1) + Count(host.sub.queue, "d") + Queued
      BY <2>4, <3>3, Zenon DEF UpOut
    <3>5. UpOut = Count(net.up, "d") + Count(host.sub.queue, "d") + Queued
      BY DEF UpOut
    <3>6. PumpHas' = PumpHas - 1
      BY <1>3, <3>2
    <3>7. UpOut' = UpOut + 1
      BY <2>3, <3>4, <3>5
    <3> QED
      BY <2>1, <3>6, <3>7, SumsFall, Zenon
  <2>6. CASE f.t # "d"
    <3>1. PumpHas' <= PumpHas
      BY <1>2, PumpLetsGo
    <3>2. Count(net'.up, "d") = Count(net.up, "d")
      BY <2>2, <2>3, <2>6
    <3>3. UpOut' = UpOut
      BY <2>4, <3>2, Zenon DEF UpOut
    <3>4. UpOut' <= UpOut
      BY <2>1, <3>3
    <3> QED
      BY <2>1, <3>1, <3>4, SumsFall, Zenon
  <2> QED
    BY <2>5, <2>6
<1>8. pump'.taken <= call.inputs
  BY DEF UploadInv, PumpInOrder
<1>9. \A g \in Members(net'.up) :
        \/ g \in Members(net.up)
        \/ g.t = "d" /\ g.data = g.seq + 1 /\ g.data <= call.inputs /\ host.pc # "idle"
        \/ g.t = "e" /\ pump'.ended
  BY <1>4, <1>6
<1>10. pump'.credit.waiters <= 1 /\ ~(pump'.credit.waiters > 0)
  OBVIOUS
<1>11. pump'.pc \notin {"off", "gate", "acquiring"}
  OBVIOUS
<1> QED
  BY <1>1, <1>2, <1>5, <1>6, <1>7, <1>8, <1>9, <1>10, <1>11 DEF PumpTurns

\* The acquired credit is spent on the input.
LEMMA PumpPublishesTurns == ASSUME UploadInv, PumpPublishes PROVE PumpTurns
<1>0. pump.pc = "acquiring" /\ ~Parked(pump.credit) /\ UNCHANGED <<call, client, host>>
  BY DEF PumpPublishes
<1>1. CASE PumpStopped
  BY <1>0, <1>1, PumpStopsTurns DEF PumpPublishes, PumpReturns
<1>2. CASE ~PumpStopped
  <2> DEFINE f == DataFrame(pump.seq, pump.taken)
             p == [pump EXCEPT !.pc = "input", !.seq = @ + 1]
  <2>1. PublishUp(f) /\ pump' = p /\ ~client.terminated /\ client.connected
    BY <1>2 DEF PumpPublishes, PumpStopped
  <2>2. pump \in PumpState /\ pump.credit.waiters = 0
    BY <1>0, NobodyWaits
  <2>3. /\ pump.taken \in Nat /\ pump.seq \in Nat /\ pump.taken = pump.seq + 1
        /\ ~pump.ended /\ pump.taken <= call.inputs
    BY <1>0, <2>2, PumpFields DEF UploadInv, PumpInOrder
  <2>4. /\ p \in PumpState /\ p.pc = "input" /\ p.credit = pump.credit
        /\ p.ready = pump.ready /\ p.taken = pump.taken /\ p.seq = pump.seq + 1
        /\ p.ended = pump.ended
    BY <2>2, <2>3 DEF PumpState
  <2>5. f \in Frame /\ f.t = "d" /\ f.data = f.seq + 1 /\ f.data <= call.inputs
    BY <2>3, FrameTypes DEF DataFrame
  <2> HIDE DEF f, p
  <2> QED
    BY <1>0, <2>1, <2>2, <2>3, <2>4, <2>5, PumpSends
<1> QED
  BY <1>1, <1>2

\* The iterable is exhausted: the half-close.
LEMMA PumpEndsTurns == ASSUME UploadInv, PumpEnds PROVE PumpTurns
<1>0. pump.pc = "input" /\ UNCHANGED <<call, client, host>>
  BY DEF PumpEnds
<1>1. CASE PumpStopped
  BY <1>0, <1>1, PumpStopsTurns DEF PumpEnds, PumpReturns
<1>2. CASE ~PumpStopped
  <2> DEFINE f == EndFrame(pump.seq)
             p == [pump EXCEPT !.pc = "done", !.ended = TRUE, !.seq = @ + 1]
  <2>1. PublishUp(f) /\ pump' = p /\ ~client.terminated /\ client.connected
    BY <1>2 DEF PumpEnds, PumpStopped
  <2>2. pump \in PumpState /\ pump.credit.waiters = 0 /\ pump.seq \in Nat
    BY <1>0, NobodyWaits, PumpFields
  <2>3. ~pump.ended
    BY <1>0 DEF UploadInv, PumpInOrder
  <2>4. /\ p \in PumpState /\ p.pc = "done" /\ p.credit = pump.credit
        /\ p.ready = pump.ready /\ p.taken = pump.taken /\ p.ended = TRUE
    <3>1. p \in PumpState
      <4> DEFINE p1 == [pump EXCEPT !.pc = "done"]
                 p2 == [p1 EXCEPT !.ended = TRUE]
                 p3 == [p2 EXCEPT !.seq = pump.seq + 1]
      <4>1. p1 \in PumpState
        BY <2>2, PumpFields
      <4>2. p2 \in PumpState
        <5> HIDE DEF p1
        <5> QED
          BY <4>1, PumpFields
      <4>3. p3 \in PumpState
        <5>1. pump.seq + 1 \in Nat
          BY <2>2
        <5> HIDE DEF p2
        <5> QED
          BY <4>2, <5>1, PumpFields
      <4> QED
        BY <4>3
    <3>2. /\ p.pc = "done" /\ p.credit = pump.credit /\ p.ready = pump.ready
          /\ p.taken = pump.taken /\ p.ended = TRUE
      BY <2>2 DEF PumpState
    <3> QED
      BY <3>1, <3>2
  <2>5. f \in Frame /\ f.t = "e"
    BY <2>2, FrameTypes DEF EndFrame
  <2> HIDE DEF f, p
  <2> QED
    BY <1>0, <2>1, <2>2, <2>3, <2>4, <2>5, PumpSends
<1> QED
  BY <1>1, <1>2

-------------------------------------------------------------------------------
(* The steps of the client that open the call, take a grant and take an output. *)

\* The client publishes the open request and starts the pump.
LEMMA ClientOpensKeep == UploadInv /\ ClientOpens => UploadInv'
<1> SUFFICES ASSUME UploadInv, ClientOpens PROVE UploadInv'
  OBVIOUS
<1>0. /\ client.pc = "idle"
      /\ client' = [client EXCEPT !.pc = "pulling", !.sub = Subscribed, !.timer = call.timed]
      /\ pump' = [pump EXCEPT !.pc = "gate"] /\ net' = [net EXCEPT !.open = TRUE]
      /\ call' = call /\ host' = host
  BY DEF ClientOpens
<1>t. /\ UploadTypeOK /\ client \in ClientState /\ pump \in PumpState /\ net \in NetState
      /\ call.timed \in BOOLEAN
  BY CallFields DEF UploadInv, UploadTypeOK
<1>i. /\ host.pc = "idle" /\ pump.pc = "off" /\ ~client.terminated /\ client.outcome = "none"
  BY <1>0 DEF UploadInv, Opened
<1>c. /\ client'.pc = "pulling" /\ client'.sub.queue = <<>>
      /\ client'.terminated = client.terminated
      /\ client'.outcome = "none" /\ client'.got = client.got /\ client'.seq = client.seq
      /\ client'.connected = client.connected
      /\ client' \in ClientState
  BY <1>0, <1>t, <1>i, SubscriptionStart DEF ClientState
<1>p. /\ pump'.pc = "gate" /\ pump'.ready = pump.ready /\ pump'.credit = pump.credit
      /\ pump'.taken = pump.taken /\ pump'.seq = pump.seq /\ pump'.ended = pump.ended
      /\ pump' \in PumpState
  BY <1>0, <1>t DEF PumpState
<1>n. /\ net'.down = net.down /\ net'.up = net.up /\ net' \in NetState
  BY <1>0, <1>t DEF NetState
<1>1. UploadTypeOK'
  BY <1>0, <1>t, <1>c, <1>p, <1>n DEF UploadTypeOK
<1>q. Silent
  BY <1>0 DEF UploadInv, Opened
<1>2. Opened'
  BY <1>0, <1>c, <1>i, <1>n, <1>q DEF UploadInv, Opened, Silent
<1>f. UpFrames' = UpFrames /\ DownFrames' = DownFrames
  BY <1>0, <1>c, <1>n, <1>q DEF UpFrames, DownFrames, Silent
<1>3. Untouched'
  BY <1>0, <1>c, <1>p, <1>n, <1>f DEF UploadInv, Untouched
<1>4. Windows'
  BY <1>0, <1>c, <1>p, <1>i DEF UploadInv, Windows
<1>5. PumpInOrder'
  BY <1>0, <1>p, <1>f, <1>i DEF UploadInv, PumpInOrder
<1>6. GivenInOrder'
  BY <1>0, <1>p, GivenSame DEF UploadInv
<1>7. HostInOrder'
  BY <1>0, <1>f, HostSame DEF UploadInv
<1>8. TakenInOrder' /\ SuccessIsTheHosts'
  <2>1. TakenInOrder'
    BY <1>0, <1>c DEF UploadInv, TakenInOrder, IsDuplex, IsClientStream
  <2>2. SuccessIsTheHosts'
    BY <1>c DEF SuccessIsTheHosts
  <2> QED
    BY <2>1, <2>2
<1>9. WindowsConserved'
  <2>1. UpOut' = UpOut /\ UpGrants' = UpGrants
    BY <1>0, <1>n DEF UpOut, UpGrants, Queued
  <2>2. DownOut' = DownOut /\ DownGrants' = DownGrants
    BY <1>c, <1>n, <1>q DEF DownOut, DownGrants, Silent
  <2>3. HostHas' = HostHas
    BY <1>0 DEF HostHas, HostHolds
  <2>4. PumpHolds = 0 /\ PumpHolds' = 0
    BY <1>i, <1>p, HoldsLemma, HoldsNext
  <2>5. PumpHas' = PumpHas
    BY <1>p, <2>4, Zenon DEF PumpHas
  <2>6. TermsNatural
    BY <1>t, TermTypes
  <2>7. CreditsFall
    BY <2>1, <2>2, <2>3, <2>5, <2>6 DEF CreditsFall, TermsNatural
  <2> QED
    BY <1>0, <1>t, <1>1, <2>7, WindowsFall DEF UploadInv
<1> QED
  BY <1>1, <1>2, <1>3, <1>4, <1>5, <1>6, <1>7, <1>8, <1>9 DEF UploadInv

\* A grant wakes the one sender that waits, or is kept.
LEMMA GrantHeld ==
  ASSUME NEW k \in Controller, NEW n \in Nat, k.waiters <= 1, NEW b \in BOOLEAN,
         k.waiters > 0 => b
  PROVE  /\ Grant(k, n) \in Controller
         /\ Grant(k, n).cancelled = k.cancelled
         /\ Grant(k, n).waiters <= 1
         /\ Grant(k, n).waiters > 0 => b
         /\ Grant(k, n).credit + Held(Grant(k, n), b) <= k.credit + Held(k, b) + n
<1> DEFINE g == Grant(k, n)
<1>1. /\ g \in Controller /\ g.cancelled = k.cancelled /\ (k.cancelled => g = k)
      /\ g.waiters <= k.waiters
      /\ ~k.cancelled => g.credit + (k.waiters - g.waiters) = k.credit + n
  BY GrantLemma
<1>2. /\ k.credit \in Nat /\ k.waiters \in Nat /\ k.cancelled \in BOOLEAN
      /\ g.credit \in Nat /\ g.waiters \in Nat
  BY <1>1 DEF Controller
<1> HIDE DEF g
<1>3. g.waiters <= 1 /\ (g.waiters > 0 => b)
  BY <1>1, <1>2
<1>4. g.credit + Held(g, b) <= k.credit + Held(k, b) + n
  <2>1. CASE k.cancelled
    <3>1. g = k /\ Held(k, b) = 0
      BY <1>1, <2>1 DEF Held
    <3> QED
      BY <1>2, <3>1
  <2>2. CASE ~k.cancelled
    <3>1. g.credit + (k.waiters - g.waiters) = k.credit + n /\ ~g.cancelled
      BY <1>1, <2>2
    <3>2. CASE k.waiters = 0
      <4>1. g.waiters = 0
        BY <1>1, <1>2, <3>2
      <4>2. Held(g, b) = Held(k, b)
        BY <2>2, <3>1, <3>2, <4>1 DEF Held, Parked
      <4>3. Held(k, b) \in {0, 1}
        BY DEF Held
      <4>4. g.credit = k.credit + n
        BY <1>2, <3>1, <3>2, <4>1
      <4> QED
        BY <1>2, <4>2, <4>3, <4>4
    <3>3. CASE k.waiters = 1 /\ g.waiters = 1
      <4>1. Held(g, b) = 0 /\ Held(k, b) = 0
        BY <3>3 DEF Held, Parked
      <4> QED
        BY <1>2, <3>1, <3>3, <4>1
    <3>4. CASE k.waiters = 1 /\ g.waiters = 0
      <4>1. Held(g, b) \in {0, 1} /\ Held(k, b) = 0
        BY <3>4 DEF Held, Parked
      <4>2. g.credit + 1 = k.credit + n
        BY <1>2, <3>1, <3>4
      <4> QED
        BY <1>2, <4>1, <4>2
    <3> QED
      BY <1>1, <1>2, <3>2, <3>3, <3>4
  <2> QED
    BY <1>2, <2>1, <2>2
<1> QED
  BY <1>1, <1>3, <1>4 DEF g

\* The client takes a CreditFrame: the credits move to the pump.
LEMMA ClientTakesGrantKeep == UploadInv /\ ClientTakesGrant => UploadInv'
<1> SUFFICES ASSUME UploadInv, ClientTakesGrant PROVE UploadInv'
  OBVIOUS
<1> DEFINE k == Grant(pump.credit, ClientFrame.data)
<1>0. /\ Pulling /\ ClientFrame.t = "c" /\ client' = [client EXCEPT !.sub = Taken(@)]
      /\ pump' = [pump EXCEPT !.ready = TRUE, !.credit = k]
      /\ call' = call /\ host' = host /\ net' = net
  BY DEF ClientTakesGrant, TakesGrant
<1>t. /\ UploadTypeOK /\ client \in ClientState /\ pump \in PumpState
      /\ pump.credit \in Controller /\ net.down \in Seq(Frame)
  BY PartTypes DEF UploadInv, UploadTypeOK
<1>s. /\ Taken(client.sub) \in Subscription
      /\ Taken(client.sub).queue = Tail(client.sub.queue)
      /\ client.sub.queue \in Seq(Frame) /\ client.sub.queue # <<>>
      /\ ClientFrame \in Frame /\ host.pc # "idle" /\ client.pc = "pulling"
  BY <1>0, ClientFrameLemma
<1>d. ClientFrame.data \in Nat /\ ClientFrame = Head(client.sub.queue)
  BY <1>s DEF Frame, ClientFrame, NextFrame
<1>k. /\ k \in Controller /\ k.cancelled = pump.credit.cancelled /\ k.waiters <= 1
      /\ k.waiters > 0 => pump.pc = "acquiring"
      /\ k.credit + Held(k, pump.pc = "acquiring")
           <= pump.credit.credit + Held(pump.credit, pump.pc = "acquiring") + ClientFrame.data
  <2>1. /\ pump.credit.waiters <= 1
        /\ pump.credit.waiters > 0 => pump.pc = "acquiring"
    BY DEF UploadInv, Windows
  <2>2. (pump.pc = "acquiring") \in BOOLEAN
    OBVIOUS
  <2> QED
    BY <1>t, <1>d, <2>1, <2>2, GrantHeld, Zenon
<1> HIDE DEF k
<1>c. /\ client'.pc = client.pc /\ client'.sub.queue = Tail(client.sub.queue)
      /\ client'.terminated = client.terminated /\ client'.timer = client.timer
      /\ client'.outcome = client.outcome /\ client'.got = client.got
      /\ client'.seq = client.seq /\ client'.connected = client.connected
      /\ client' \in ClientState
  BY <1>0, <1>t, <1>s DEF ClientState
<1>p. /\ pump'.pc = pump.pc /\ pump'.credit = k
      /\ pump'.taken = pump.taken /\ pump'.seq = pump.seq /\ pump'.ended = pump.ended
      /\ pump' \in PumpState
  BY <1>0, <1>t, <1>k DEF PumpState
<1>1. UploadTypeOK'
  BY <1>0, <1>t, <1>c, <1>p DEF UploadTypeOK
<1>2. Opened'
  BY <1>0, <1>c, <1>p, <1>s DEF UploadInv, Opened
<1>f. UpFrames' = UpFrames /\ DownFrames' \subseteq DownFrames
  <2>1. Members(client'.sub.queue) \subseteq Members(client.sub.queue)
    BY <1>c, <1>s, MembersMove
  <2> QED
    BY <1>0, <2>1 DEF UpFrames, DownFrames
<1>3. Untouched'
  BY <1>0, <1>s DEF Untouched
<1>4. Windows'
  BY <1>0, <1>c, <1>p, <1>k DEF UploadInv, Windows
<1>5. PumpInOrder'
  BY <1>0, <1>p, <1>f DEF UploadInv, PumpInOrder
<1>6. GivenInOrder'
  BY <1>0, <1>p, GivenSame DEF UploadInv
<1>7. HostInOrder'
  BY <1>0, <1>f, HostSame DEF UploadInv
<1>8. TakenInOrder' /\ SuccessIsTheHosts'
  <2>1. TakenInOrder'
    BY <1>0, <1>c DEF UploadInv, TakenInOrder, IsDuplex, IsClientStream
  <2>2. SuccessIsTheHosts'
    BY <1>0, <1>c DEF UploadInv, SuccessIsTheHosts, IsDuplex
  <2> QED
    BY <2>1, <2>2
<1>9. WindowsConserved'
  <2>1. UpOut' = UpOut /\ UpGrants' = UpGrants
    BY <1>0 DEF UpOut, UpGrants, Queued
  <2>2. HostHas' = HostHas
    BY <1>0 DEF HostHas, HostHolds
  <2>3. /\ TermsNatural /\ TermsNatural'
    BY <1>t, <1>1, TermTypes, TermTypesNext
  <2>4. PumpHas' <= PumpHas + ClientFrame.data
    <3>1. PumpHas' = k.credit + Held(k, pump.pc = "acquiring")
      BY <1>p, Zenon DEF PumpHas, PumpHolds
    <3>2. PumpHas = pump.credit.credit + Held(pump.credit, pump.pc = "acquiring")
      BY Zenon DEF PumpHas, PumpHolds
    <3> QED
      BY <1>k, <3>1, <3>2, Zenon
  <2>5. DownGrants' + ClientFrame.data <= DownGrants
    <3>1. Granted(client.sub.queue) = Granted(client'.sub.queue) + ClientFrame.data
      <4>1. Grants(ClientFrame) = ClientFrame.data
        BY <1>0 DEF Grants
      <4> QED
        BY <1>c, <1>s, <1>d, <4>1, GrantedTail
    <3>2. Granted(client'.sub.queue) \in Nat /\ Granted(net.down) \in Nat
      BY <1>t, <1>c, <1>s, HeadTailProperties, GrantedType
    <3>3. DownGrants' = Granted(net.down) + Granted(client'.sub.queue)
      BY <1>0, Zenon DEF DownGrants
    <3>4. DownGrants = Granted(net.down) + Granted(client.sub.queue)
      BY DEF DownGrants
    <3>5. DownGrants' + ClientFrame.data = DownGrants
      BY <1>d, <3>1, <3>2, <3>3, <3>4
    <3>6. DownGrants \in Nat
      BY <2>3 DEF TermsNatural
    <3> QED
      BY <3>5, <3>6
  <2>6. DownOut' <= DownOut
    <3>1. /\ Count(client'.sub.queue, "d") <= Count(client.sub.queue, "d")
          /\ Count(client'.sub.queue, "d") \in Nat /\ Count(client.sub.queue, "d") \in Nat
          /\ Count(net.down, "d") \in Nat
      BY <1>t, <1>c, <1>s, ShrinksLemma, CountType DEF Shrinks
    <3> QED
      BY <1>0, <3>1 DEF DownOut
  <2>7. /\ PumpHas \in Int /\ UpOut \in Int /\ DownGrants \in Int /\ HostHas \in Int
        /\ DownOut \in Int /\ UpGrants \in Int
        /\ PumpHas' \in Int /\ DownGrants' \in Int /\ DownOut' \in Int
        /\ ClientFrame.data \in Int
    BY <1>d, <2>3 DEF TermsNatural
  <2>8. PumpHas' + UpOut + DownGrants' <= PumpHas + UpOut + DownGrants
    BY <2>4, <2>5, <2>7, SumMoves, Zenon
  <2>9. HostHas + DownOut' + UpGrants <= HostHas + DownOut + UpGrants
    BY <2>6, <2>7, SumShrinks, Zenon
  <2>10. CreditsFall
    BY <2>1, <2>2, <2>8, <2>9, Zenon DEF CreditsFall
  <2> QED
    BY <1>0, <1>t, <1>1, <2>10, WindowsFall DEF UploadInv
<1> QED
  BY <1>1, <1>2, <1>3, <1>4, <1>5, <1>6, <1>7, <1>8, <1>9 DEF UploadInv

\* Appending the next number to a count.
LEMMA CountOn ==
  ASSUME NEW n \in Nat
  PROVE  /\ Append([i \in 1..n |-> i], n + 1) = [i \in 1..(n + 1) |-> i]
         /\ [i \in 1..n |-> i] \in Seq(Nat) /\ Len([i \in 1..n |-> i]) = n
<1> DEFINE s == [i \in 1..n |-> i]
<1>1. s \in Seq(Nat) /\ Len(s) = n
  OBVIOUS
<1>2. /\ Append(s, n + 1) \in Seq(Nat) /\ Len(Append(s, n + 1)) = n + 1
      /\ Append(s, n + 1)[n + 1] = n + 1
      /\ \A i \in 1..n : Append(s, n + 1)[i] = s[i]
  BY <1>1, AppendProperties
<1>3. \A i \in 1..(n + 1) : Append(s, n + 1)[i] = i
  BY <1>2
<1>4. DOMAIN Append(s, n + 1) = 1..(n + 1)
  BY <1>2
<1>5. Append(s, n + 1) = [i \in DOMAIN Append(s, n + 1) |-> Append(s, n + 1)[i]]
  BY <1>2
<1> HIDE DEF s
<1>6. Append(s, n + 1) = [i \in 1..(n + 1) |-> i]
  BY <1>3, <1>4, <1>5
<1> QED
  BY <1>1, <1>6 DEF s

\* The pull of a generator that takes an output grants the host a credit for it.
LEMMA PullGrants ==
  ASSUME UploadInv, IsDuplex, Pulling, ClientFrame.t = "d",
         NEW c, Follows(c), client' = c, PublishUp(CreditFrame(1)),
         UNCHANGED <<call, pump, host>>,
         c.sub.queue = Tail(client.sub.queue), c.pc \in {"yielded", "failed"},
         c.pc = "yielded" => c.outcome = "none", c.outcome # "ok"
  PROVE  UploadInv'
<1> DEFINE f == CreditFrame(1)
<1>0. f \in Frame /\ f.t = "c" /\ f.data = 1
  BY FrameTypes DEF CreditFrame
<1>t. /\ UploadTypeOK /\ net.up \in Seq(Frame) /\ net.down \in Seq(Frame)
      /\ host.sub.queue \in Seq(Frame) /\ c \in ClientState /\ ~IsClientStream
  BY PartTypes DEF UploadInv, Follows, IsDuplex, IsClientStream
<1>s. /\ client.sub.queue \in Seq(Frame) /\ client.sub.queue # <<>>
      /\ host.pc # "idle" /\ client.pc = "pulling"
      /\ ClientFrame = Head(client.sub.queue)
  BY ClientFrameLemma DEF ClientFrame, NextFrame
<1> HIDE DEF f
<1>n. /\ net' \in NetState /\ net'.up = Append(net.up, f)
      /\ net'.down = net.down /\ net'.open = net.open
  BY <1>0, <1>t, PublishUpType DEF f
<1>1. UploadTypeOK'
  BY <1>t, <1>n DEF UploadInv, UploadTypeOK
<1>c. /\ client'.terminated \/ ~client.terminated
      /\ client'.pc # "idle"
      /\ client.connected \/ ~client'.connected
  BY DEF Follows
<1>2. Opened'
  BY <1>n, <1>s, <1>c DEF UploadInv, Opened
<1>f. UpFrames' = UpFrames \cup {f} /\ DownFrames' \subseteq DownFrames
  <2>1. Members(net'.up) = Members(net.up) \cup {f}
    BY <1>0, <1>t, <1>n, MembersMove
  <2>2. Members(client'.sub.queue) \subseteq Members(client.sub.queue)
    BY <1>s, MembersMove
  <2> QED
    BY <1>n, <2>1, <2>2 DEF UpFrames, DownFrames
<1>3. Untouched'
  BY <1>s DEF Untouched
<1>4. Windows'
  BY <1>c DEF UploadInv, Windows
<1>5. PumpInOrder'
  BY <1>0, <1>f DEF UploadInv, PumpInOrder
<1>6. GivenInOrder' /\ HostInOrder'
  BY <1>f, GivenSame, HostSame DEF UploadInv
<1>7. TakenInOrder' /\ SuccessIsTheHosts'
  BY <1>t, FollowsPromises
<1>8. WindowsConserved'
  <2>1. /\ TermsNatural /\ TermsNatural'
    BY <1>t, <1>1, TermTypes, TermTypesNext
  <2>2. HostHas' = HostHas /\ PumpHas' = PumpHas
    BY DEF HostHas, HostHolds, PumpHas, PumpHolds
  <2>3. UpOut' = UpOut
    <3>1. Count(net'.up, "d") = Count(net.up, "d") + 0
      BY <1>0, <1>t, <1>n, CountAppend
    <3>2. Count(net'.up, "d") = Count(net.up, "d")
      BY <1>t, <3>1, CountType
    <3> QED
      BY <3>2 DEF UpOut, Queued
  <2>4. DownGrants' <= DownGrants
    <3>1. /\ Granted(client'.sub.queue) <= Granted(client.sub.queue)
          /\ Granted(client'.sub.queue) \in Nat /\ Granted(client.sub.queue) \in Nat
          /\ Granted(net.down) \in Nat
      BY <1>t, <1>s, ShrinksLemma, GrantedType DEF Shrinks
    <3> QED
      BY <1>n, <3>1 DEF DownGrants
  <2>5. DownOut' = DownOut - 1
    <3>1. /\ Count(client.sub.queue, "d") \in Nat /\ Count(net.down, "d") \in Nat
      BY <1>t, <1>s, CountType
    <3>2. Count(client'.sub.queue, "d") = Count(client.sub.queue, "d") - 1
      BY <1>s, CountTail
    <3> QED
      BY <1>n, <3>1, <3>2 DEF DownOut
  <2>6. UpGrants' = UpGrants + 1
    <3>1. Granted(net'.up) = Granted(net.up) + 1
      BY <1>0, <1>t, <1>n, GrantedAppend DEF Grants
    <3>2. Granted(net.up) \in Nat /\ Granted(host.sub.queue) \in Nat
      BY <1>t, GrantedType
    <3> QED
      BY <3>1, <3>2 DEF UpGrants
  <2>7. /\ PumpHas \in Int /\ UpOut \in Int /\ DownGrants \in Int /\ HostHas \in Int
        /\ DownOut \in Int /\ UpGrants \in Int /\ DownGrants' \in Int
    BY <2>1 DEF TermsNatural
  <2>8. PumpHas + UpOut + DownGrants' <= PumpHas + UpOut + DownGrants
    BY <2>4, <2>7, SumShrinks, Zenon
  <2>9. HostHas + DownOut' + UpGrants' <= HostHas + DownOut + UpGrants
    BY <2>5, <2>6, <2>7
  <2>10. CreditsFall
    BY <2>2, <2>3, <2>8, <2>9, Zenon DEF CreditsFall
  <2> QED
    BY <1>t, <1>1, <2>10, WindowsFall DEF UploadInv
<1> QED
  BY <1>1, <1>2, <1>3, <1>4, <1>5, <1>6, <1>7, <1>8 DEF UploadInv

\* The client takes an output: its credit goes back to the host.
LEMMA DXClientTakesDataKeep == UploadInv /\ DXClientTakesData => UploadInv'
<1> SUFFICES ASSUME UploadInv, DXClientTakesData PROVE UploadInv'
  OBVIOUS
<1>0. Pulling /\ IsDuplex /\ ClientFrame.t = "d" /\ client.pc = "pulling"
  BY DEF DXClientTakesData, Pulling
<1>t. client \in ClientState /\ client.seq \in Nat
  BY ClientFields DEF UploadInv, UploadTypeOK
<1>s. /\ Taken(client.sub) \in Subscription
      /\ Taken(client.sub).queue = Tail(client.sub.queue)
      /\ client.sub.queue # <<>>
      /\ host.pc # "idle" /\ client.outcome = "none"
      /\ ClientFrame.data = ClientFrame.seq + 1
      /\ Shrinks(client.sub.queue, Taken(client.sub).queue)
  BY <1>0, ClientFrameLemma DEF Shrinks
<1>1. CASE ~(client.connected /\ InOrder)
  <2> DEFINE c == [client EXCEPT !.sub = Taken(@), !.pc = "failed", !.terminated = TRUE,
                                 !.hostDone = TRUE, !.outcome = "__transport__"]
  <2>1. Suspends(c, client.connected)
    <3>1. c = [[client EXCEPT !.sub = Taken(@)] EXCEPT
                 !.pc = "failed", !.terminated = TRUE, !.hostDone = TRUE,
                 !.outcome = "__transport__"]
      OBVIOUS
    <3> HIDE DEF c
    <3> QED
      BY <1>1, <3>1, Zenon DEF DXClientTakesData
  <2>2. CASE ~client.connected
    <3>1. Suspends(c, FALSE)
      BY <2>1, <2>2 DEF Suspends
    <3>2. ClientTurns
      BY <1>0, <1>s, <3>1, FailedTurns
    <3> QED
      BY <3>2, ClientTurnsKeep
  <2>3. CASE client.connected
    <3>1. /\ client' = c /\ PublishUp(CreditFrame(1)) /\ UNCHANGED <<call, pump, host>>
      BY <2>1, <2>3 DEF Suspends
    <3>2. /\ c \in ClientState /\ c.sub = Taken(client.sub) /\ c.pc = "failed"
          /\ c.outcome = "__transport__" /\ c.got = client.got /\ c.seq = client.seq
          /\ c.connected = client.connected /\ c.terminated = TRUE
      <4>1. c \in ClientState
        <5> DEFINE c1 == [client EXCEPT !.sub = Taken(client.sub)]
                   c2 == [c1 EXCEPT !.pc = "failed"]
                   c3 == [c2 EXCEPT !.terminated = TRUE]
                   c4 == [c3 EXCEPT !.hostDone = TRUE]
                   c5 == [c4 EXCEPT !.outcome = "__transport__"]
        <5>1. c1 \in ClientState
          BY <1>t, <1>s, ClientFields
        <5>2. c2 \in ClientState
          <6> HIDE DEF c1
          <6> QED
            BY <5>1, ClientFields
        <5>3. c3 \in ClientState
          <6> HIDE DEF c2
          <6> QED
            BY <5>2, ClientFields
        <5>4. c4 \in ClientState
          <6> HIDE DEF c3
          <6> QED
            BY <5>3, ClientFields
        <5>5. c5 \in ClientState
          <6> HIDE DEF c4
          <6> QED
            BY <5>4, ClientFields
        <5> QED
          BY <5>5
      <4> QED
        BY <1>t, <4>1 DEF ClientState
    <3> HIDE DEF c
    <3>3. Follows(c)
      BY <1>s, <3>2, FollowsItself DEF Follows
    <3> QED
      BY <1>0, <1>s, <3>1, <3>2, <3>3, PullGrants
  <2> QED
    BY <2>2, <2>3
<1>2. CASE client.connected /\ InOrder
  <2> DEFINE c == [client EXCEPT !.sub = Taken(@), !.pc = "yielded", !.seq = @ + 1,
                                 !.got = Append(@, ClientFrame.data)]
  <2>1. Suspends(c, TRUE)
    <3>1. c = [[client EXCEPT !.sub = Taken(@)] EXCEPT
                 !.pc = "yielded", !.seq = @ + 1, !.got = Append(@, ClientFrame.data)]
      BY <1>t DEF ClientState
    <3> HIDE DEF c
    <3> QED
      BY <1>2, <3>1, Zenon DEF DXClientTakesData
  <2>2. client' = c /\ PublishUp(CreditFrame(1)) /\ UNCHANGED <<call, pump, host>>
    BY <2>1 DEF Suspends
  <2> DEFINE g == [i \in 1..(client.seq + 1) |-> i]
  <2>3. Append(client.got, ClientFrame.data) = g /\ g \in Seq(Nat)
    <3>1. client.got = [i \in 1..client.seq |-> i]
      BY <1>0 DEF UploadInv, TakenInOrder
    <3>2. ClientFrame.data = client.seq + 1
      BY <1>2, <1>s DEF InOrder
    <3>3. client.seq + 1 \in Nat
      BY <1>t
    <3> QED
      BY <1>t, <3>1, <3>2, <3>3, CountOn
  <2> HIDE DEF g
  <2>4. c = [client EXCEPT !.sub = Taken(client.sub), !.pc = "yielded",
                           !.seq = client.seq + 1, !.got = g]
    BY <2>3
  <2>5. c \in ClientState
    <3> DEFINE c1 == [client EXCEPT !.sub = Taken(client.sub)]
               c2 == [c1 EXCEPT !.pc = "yielded"]
               c3 == [c2 EXCEPT !.seq = client.seq + 1]
               c4 == [c3 EXCEPT !.got = g]
    <3>1. c1 \in ClientState
      BY <1>t, <1>s, ClientFields
    <3>2. c2 \in ClientState
      <4> HIDE DEF c1
      <4> QED
        BY <3>1, ClientFields
    <3>3. c3 \in ClientState
      <4>1. client.seq + 1 \in Nat
        BY <1>t
      <4> HIDE DEF c2
      <4> QED
        BY <3>2, <4>1, ClientFields
    <3>4. c4 \in ClientState
      <4> HIDE DEF c3
      <4> QED
        BY <2>3, <3>3, ClientFields
    <3> QED
      BY <2>4, <3>4
  <2>6. /\ c.sub = Taken(client.sub) /\ c.pc = "yielded" /\ c.seq = client.seq + 1
        /\ c.got = g /\ c.outcome = "none"
        /\ c.connected = client.connected /\ c.terminated = client.terminated
    BY <1>t, <1>s, <2>4 DEF ClientState
  <2> HIDE DEF c
  <2>7. c.got = [i \in 1..c.seq |-> i]
    BY <2>6 DEF g
  <2>8. Follows(c)
    BY <1>s, <2>5, <2>6, <2>7 DEF Follows
  <2> QED
    BY <1>0, <1>s, <2>2, <2>6, <2>8, PullGrants
<1> QED
  BY <1>1, <1>2

-------------------------------------------------------------------------------
(* A step of the serving task.                                                 *)

\* What the host may make of itself.
HostMoves ==
  /\ host.pc # "idle" /\ host'.pc # "idle"
  /\ host'.pc \in {"handler", "reading", "acquiring"} =>
       host'.callError = "none" /\ host'.ended = "none"
  /\ host'.ended = "e" => host'.callError = "none"
  /\ host.ended = "e" => host'.ended = "e" /\ host'.seq = host.seq
  /\ host'.credit.cancelled => host'.terminated
  /\ host'.credit.waiters <= 1
  /\ host'.credit.waiters > 0 => host'.pc = "acquiring"
  /\ host'.pc \in {"handler", "reading"} => host'.produced = host'.seq
  /\ host'.pc = "acquiring" => host'.produced = host'.seq + 1

\* What it may do: take a frame, publish outputs in order and return credits.
HostTurns ==
  /\ call' = call /\ client' = client /\ pump' = pump /\ UploadTypeOK'
  /\ net'.open = net.open /\ net'.up = net.up
  /\ Shrinks(host.sub.queue, host'.sub.queue)
  /\ HostMoves /\ GivenInOrder'
  /\ \A f \in Members(net'.down) :
       \/ f \in Members(net.down)
       \/ f.t \notin {"d", "e"}
       \/ f.t = "d" /\ f.data = f.seq + 1 /\ (IsClientStream => f.seq = 0 /\ host'.ended = "e")
       \/ f.t = "e" /\ host'.ended = "e" /\ (IsDuplex => host'.seq = f.seq + 1)
  /\ UpOut' + DownGrants' <= UpOut + DownGrants
  /\ IsDuplex => HostHas' + DownOut' + UpGrants' <= HostHas + DownOut + UpGrants

\* Such a step keeps the invariant.
LEMMA HostTurnsKeep == UploadInv /\ HostTurns => UploadInv'
<1> SUFFICES ASSUME UploadInv, HostTurns PROVE UploadInv'
  OBVIOUS
<1>t. UploadTypeOK /\ UploadTypeOK' /\ client.pc # "idle" /\ ~net.open
  BY DEF UploadInv, HostTurns, HostMoves, Opened
<1>q. host.sub.queue \in Seq(Frame)
  BY <1>t, PartTypes
<1>f. /\ UpFrames' \subseteq UpFrames
      /\ \A f \in DownFrames' :
           \/ f \in DownFrames
           \/ f.t \notin {"d", "e"}
           \/ f.t = "d" /\ f.data = f.seq + 1 /\ (IsClientStream => f.seq = 0 /\ host'.ended = "e")
           \/ f.t = "e" /\ host'.ended = "e" /\ (IsDuplex => host'.seq = f.seq + 1)
  <2>1. Members(host'.sub.queue) \subseteq Members(host.sub.queue)
    BY <1>q, ShrinksLemma DEF HostTurns
  <2> QED
    BY <2>1 DEF DownFrames, UpFrames, HostTurns
<1>1. Opened'
  BY <1>t DEF UploadInv, Opened, HostTurns, HostMoves
<1>2. Untouched'
  BY DEF Untouched, HostTurns, HostMoves
<1>3. Windows'
  BY DEF UploadInv, Windows, HostTurns, HostMoves
<1>4. PumpInOrder'
  BY <1>f DEF UploadInv, PumpInOrder, HostTurns
<1>5. GivenInOrder'
  BY DEF HostTurns
<1>6. HostInOrder'
  <2>1. call' = call /\ HostMoves
    BY DEF HostTurns
  <2>2. \A f \in DownFrames' :
          /\ f.t = "d" => f.data = f.seq + 1
          /\ f.t = "d" /\ IsClientStream => f.seq = 0 /\ host'.ended = "e"
          /\ f.t = "e" => host'.ended = "e"
          /\ f.t = "e" /\ IsDuplex => host'.seq = f.seq + 1
    BY <1>f, <2>1 DEF UploadInv, HostInOrder, HostMoves
  <2> QED
    BY <2>1, <2>2 DEF HostInOrder, HostMoves, IsClientStream, IsDuplex
<1>7. TakenInOrder' /\ SuccessIsTheHosts'
  BY DEF UploadInv, TakenInOrder, SuccessIsTheHosts, HostTurns, HostMoves,
         IsClientStream, IsDuplex
<1>8. WindowsConserved'
  <2>1. TermsNatural /\ TermsNatural'
    BY <1>t, TermTypes, TermTypesNext
  <2>2. PumpHas' = PumpHas
    BY DEF PumpHas, PumpHolds, HostTurns
  <2>3. PumpHas' + UpOut' + DownGrants' <= PumpHas + UpOut + DownGrants
    <3>1. UpOut' + DownGrants' <= UpOut + DownGrants
      BY DEF HostTurns
    <3>2. /\ PumpHas \in Int /\ UpOut \in Int /\ DownGrants \in Int
          /\ UpOut' \in Int /\ DownGrants' \in Int
      BY <2>1 DEF TermsNatural
    <3>3. \A a, b, c, x, y \in Int : x + y <= b + c => a + x + y <= a + b + c
      OBVIOUS
    <3>4. PumpHas + UpOut' + DownGrants' <= PumpHas + UpOut + DownGrants
      BY <3>1, <3>2, <3>3, Zenon
    <3> QED
      BY <2>2, <3>4, Zenon
  <2> QED
    BY <1>t, <2>3, WindowsFall DEF CreditsFall, UploadInv, HostTurns
<1> QED
  BY <1>t, <1>1, <1>2, <1>3, <1>4, <1>5, <1>6, <1>7, <1>8 DEF UploadInv

-------------------------------------------------------------------------------
(* What the host publishes.                                                    *)

\* What publishing to the client makes of the network.
LEMMA PublishDownType ==
  ASSUME UploadTypeOK, NEW f \in Frame, net' = [net EXCEPT !.down = Append(@, f)]
  PROVE  /\ net' \in NetState /\ net'.down = Append(net.down, f)
         /\ net'.up = net.up /\ net'.open = net.open
         /\ Members(net'.down) = Members(net.down) \cup {f}
<1>1. net \in NetState /\ Append(net.down, f) \in Seq(Frame)
  BY NetFields, AppendProperties DEF UploadTypeOK
<1>2. Members(Append(net.down, f)) = Members(net.down) \cup {f}
  BY NetFields, MembersMove DEF UploadTypeOK
<1> QED
  BY <1>1, <1>2, NetFields DEF NetState

\* A step of the host publishes one frame, or nothing on a closed connection.
LEMMA HostPublishesOne ==
  ASSUME UploadTypeOK, NEW f \in Frame, HostPublishes(<<f>>)
  PROVE  /\ net' \in NetState /\ net'.up = net.up /\ net'.open = net.open
         /\ host.connected => /\ net'.down = Append(net.down, f)
                              /\ Members(net'.down) = Members(net.down) \cup {f}
         /\ ~host.connected => net' = net
<1>1. CASE host.connected
  <2>1. net.down \in Seq(Frame)
    BY PartTypes
  <2>2. net.down \o <<f>> = Append(net.down, f)
    BY <2>1
  <2>3. net' = [net EXCEPT !.down = Append(@, f)]
    BY <1>1, <2>2 DEF HostPublishes
  <2> QED
    BY <1>1, <2>3, PublishDownType
<1>2. CASE ~host.connected
  BY <1>2 DEF HostPublishes, UploadTypeOK
<1> QED
  BY <1>1, <1>2

-------------------------------------------------------------------------------
(* The environment and the network.                                            *)

\* Only the host's registration, its connection and the open request may change.
HostRests ==
  /\ call' = call /\ client' = client /\ pump' = pump /\ UploadTypeOK'
  /\ net'.down = net.down /\ net'.up = net.up /\ (net'.open => net.open)
  /\ host'.pc = host.pc /\ host'.sub.queue = host.sub.queue
  /\ host'.sub.open => host.sub.open
  /\ host'.timer = host.timer /\ host'.seq = host.seq /\ host'.got = host.got
  /\ host'.input = host.input /\ host'.callError = host.callError
  /\ host'.ended = host.ended /\ host'.credit = host.credit
  /\ host'.terminated = host.terminated /\ host'.drain = host.drain
  /\ host'.expected = host.expected /\ host'.queue = host.queue
  /\ host'.produced = host.produced

\* Such a step keeps the invariant.
LEMMA HostRestsKeep == UploadInv /\ HostRests => UploadInv'
<1> SUFFICES ASSUME UploadInv, HostRests PROVE UploadInv'
  OBVIOUS
<1> USE DEF HostRests
<1>t. UploadTypeOK /\ UploadTypeOK'
  BY DEF UploadInv
<1>f. UpFrames' = UpFrames /\ DownFrames' = DownFrames
  BY DEF UpFrames, DownFrames
<1>1. Opened'
  BY DEF UploadInv, Opened, Silent
<1>2. Untouched'
  BY <1>f DEF UploadInv, Untouched
<1>3. Windows'
  BY DEF UploadInv, Windows
<1>4. PumpInOrder'
  BY <1>f DEF UploadInv, PumpInOrder
<1>5. GivenInOrder'
  <2>1. InputsInOrder'
    BY DEF UploadInv, GivenInOrder, InputsInOrder
  <2> QED
    BY <2>1 DEF UploadInv, GivenInOrder, Plain, Half, IsClientStream
<1>6. HostInOrder'
  BY <1>f DEF UploadInv, HostInOrder, IsClientStream, IsDuplex
<1>7. TakenInOrder' /\ SuccessIsTheHosts'
  BY DEF UploadInv, TakenInOrder, SuccessIsTheHosts, IsClientStream, IsDuplex
<1>8. WindowsConserved'
  <2>1. TermsNatural
    BY <1>t, TermTypes
  <2>2. PumpHas' = PumpHas /\ HostHas' = HostHas
    BY DEF PumpHas, PumpHolds, HostHas, HostHolds
  <2>3. /\ UpOut' = UpOut /\ DownGrants' = DownGrants
        /\ DownOut' = DownOut /\ UpGrants' = UpGrants
    BY DEF UpOut, DownGrants, DownOut, UpGrants, Queued
  <2>4. CreditsFall
    BY <2>1, <2>2, <2>3 DEF CreditsFall, TermsNatural
  <2> QED
    BY <1>t, <2>4, WindowsFall DEF UploadInv
<1> QED
  BY <1>t, <1>1, <1>2, <1>3, <1>4, <1>5, <1>6, <1>7, <1>8 DEF UploadInv

\* A disturbance is counted and changes nothing else of the network.
LEMMA FaultKeeps ==
  ASSUME NEW n \in NetState, Fault(n)
  PROVE  net' \in NetState /\ net'.down = n.down /\ net'.up = n.up /\ net'.open = n.open
<1>1. n.faults + 1 \in Nat
  BY NetFields
<1>2. net' = [n EXCEPT !.faults = n.faults + 1]
  BY DEF Fault
<1> QED
  BY <1>1, <1>2, NetFields DEF NetState

\* The open request is lost.
LEMMA LoseOpenKeep == UploadInv /\ LoseOpen => UploadInv'
<1> SUFFICES ASSUME UploadInv, LoseOpen PROVE HostRests
  BY HostRestsKeep
<1> DEFINE n == [net EXCEPT !.open = FALSE]
<1>1. net \in NetState
  BY DEF UploadInv, UploadTypeOK
<1>2. n \in NetState /\ n.down = net.down /\ n.up = net.up /\ n.open = FALSE
  BY <1>1, NetFields DEF NetState
<1>3. /\ net' = n \/ Fault(n)
      /\ call' = call /\ client' = client /\ pump' = pump /\ host' = host
  BY DEF LoseOpen
<1> HIDE DEF n
<1>4. net' \in NetState /\ net'.down = net.down /\ net'.up = net.up /\ net'.open = FALSE
  BY <1>2, <1>3, FaultKeeps
<1> QED
  BY <1>3, <1>4 DEF HostRests, UploadInv, UploadTypeOK

\* NATS answers the open request itself: the client hears that nobody serves it.
LEMMA NoRespondersKeep == UploadInv /\ NoResponders => UploadInv'
<1> SUFFICES ASSUME UploadInv, NoResponders PROVE UploadInv'
  OBVIOUS
<1>t. /\ UploadTypeOK /\ net \in NetState /\ net.down \in Seq(Frame)
      /\ client.sub.queue \in Seq(Frame) /\ Undecodable \in Frame
  BY PartTypes, FrameTypes DEF UploadInv, UploadTypeOK
<1>0. /\ net.open /\ call' = call /\ client' = client /\ host' = host /\ pump' = pump
      /\ net' = [net EXCEPT !.open = FALSE, !.down = Append(@, Undecodable)]
  BY DEF NoResponders
<1>i. host.pc = "idle" /\ client.pc # "idle"
  BY <1>0 DEF UploadInv, Opened
<1>n. /\ net' \in NetState /\ net'.down = Append(net.down, Undecodable)
      /\ net'.up = net.up /\ net'.open = FALSE
  <2>1. Append(net.down, Undecodable) \in Seq(Frame)
    BY <1>t, AppendProperties
  <2> QED
    BY <1>0, <1>t, <2>1 DEF NetState
<1>1. UploadTypeOK'
  BY <1>0, <1>n, <1>t DEF UploadTypeOK
<1>f. DownFrames' = DownFrames \cup {Undecodable} /\ UpFrames' = UpFrames
  <2>1. Members(Append(net.down, Undecodable)) = Members(net.down) \cup {Undecodable}
    BY <1>t, MembersMove
  <2> QED
    BY <1>0, <1>n, <2>1 DEF DownFrames, UpFrames
<1>u. Undecodable.t = "bad"
  BY DEF Undecodable
<1>2. Opened'
  BY <1>0, <1>i, <1>n DEF UploadInv, Opened
<1>3. Untouched'
  BY <1>0, <1>f DEF UploadInv, Untouched
<1>4. Windows'
  BY <1>0 DEF UploadInv, Windows
<1>5. PumpInOrder'
  BY <1>0, <1>f DEF UploadInv, PumpInOrder
<1>6. GivenInOrder'
  BY <1>0, GivenSame DEF UploadInv
<1>7. HostInOrder'
  BY <1>0, <1>f, <1>u, HostSame DEF UploadInv
<1>8. TakenInOrder' /\ SuccessIsTheHosts'
  BY <1>0 DEF UploadInv, TakenInOrder, SuccessIsTheHosts, IsClientStream, IsDuplex
<1>9. WindowsConserved'
  <2>1. TermsNatural
    BY <1>t, TermTypes
  <2>2. /\ PumpHas' = PumpHas /\ HostHas' = HostHas
        /\ UpGrants' = UpGrants /\ UpOut' = UpOut
    BY <1>0, <1>n DEF PumpHas, PumpHolds, HostHas, HostHolds, UpGrants, UpOut, Queued
  <2>3. DownOut' = DownOut /\ DownGrants' = DownGrants
    <3>1. /\ Count(Append(net.down, Undecodable), "d") = Count(net.down, "d")
          /\ Granted(Append(net.down, Undecodable)) = Granted(net.down)
      BY <1>t, BareFrames DEF Undecodable
    <3> QED
      BY <1>0, <1>n, <3>1 DEF DownOut, DownGrants
  <2>4. CreditsFall
    BY <2>1, <2>2, <2>3 DEF CreditsFall, TermsNatural
  <2> QED
    BY <1>0, <1>1, <1>t, <2>4, WindowsFall DEF UploadInv
<1> QED
  BY <1>1, <1>2, <1>3, <1>4, <1>5, <1>6, <1>7, <1>8, <1>9 DEF UploadInv

\* The host's connection closes.
LEMMA HostConnectionClosesKeep == UploadInv /\ HostConnectionCloses => UploadInv'
<1> SUFFICES ASSUME UploadInv, HostConnectionCloses PROVE HostRests
  BY HostRestsKeep
<1>1. net \in NetState /\ host \in HostState
  BY DEF UploadInv, UploadTypeOK
<1>2. /\ host' = [host EXCEPT !.connected = FALSE] /\ Fault(net)
      /\ call' = call /\ client' = client /\ pump' = pump
  BY DEF HostConnectionCloses
<1>3. net' \in NetState /\ net'.down = net.down /\ net'.up = net.up /\ net'.open = net.open
  BY <1>1, <1>2, FaultKeeps
<1>4. host' \in HostState
  BY <1>1, <1>2, HostUpdates
<1>5. UploadTypeOK'
  BY <1>2, <1>3, <1>4 DEF UploadInv, UploadTypeOK
<1> QED
  BY <1>1, <1>2, <1>3, <1>5 DEF HostRests, HostState

\* The host unregisters: an open request finds nobody.
LEMMA HostUnregistersKeep == UploadInv /\ HostUnregisters => UploadInv'
<1> SUFFICES ASSUME UploadInv, HostUnregisters PROVE HostRests
  BY HostRestsKeep
<1>1. net \in NetState /\ host \in HostState /\ host.sub \in Subscription
  BY HostFields DEF UploadInv, UploadTypeOK
<1>2. /\ host' = [host EXCEPT !.registered = FALSE, !.sub = Unsubscribe(@)] /\ Fault(net)
      /\ call' = call /\ client' = client /\ pump' = pump
  BY DEF HostUnregisters
<1>3. net' \in NetState /\ net'.down = net.down /\ net'.up = net.up /\ net'.open = net.open
  BY <1>1, <1>2, FaultKeeps
<1>4. /\ Unsubscribe(host.sub) \in Subscription /\ ~Unsubscribe(host.sub).open
      /\ Unsubscribe(host.sub).queue = host.sub.queue
  BY <1>1, UnsubscribeLemma
<1>5. host' \in HostState
  <2> DEFINE h == [host EXCEPT !.registered = FALSE]
  <2>1. h \in HostState
    BY <1>1, HostUpdates
  <2>2. host' = [h EXCEPT !.sub = Unsubscribe(host.sub)]
    BY <1>2
  <2> HIDE DEF h
  <2> QED
    BY <1>4, <2>1, <2>2, HostUpdates
<1>6. UploadTypeOK'
  BY <1>2, <1>3, <1>5 DEF UploadInv, UploadTypeOK
<1> QED
  BY <1>1, <1>2, <1>3, <1>4, <1>6 DEF HostRests, HostState

-------------------------------------------------------------------------------
(* A frame arrives, arrives garbled, or is lost.                               *)

\* What a delivery makes of the FIFO and the inbox.
LEMMA Delivered ==
  ASSUME NEW w \in Seq(Frame), NEW q \in Seq(Frame), w # <<>>,
         NEW r \in {q, Append(q, Head(w)), Append(q, Undecodable)}
  PROVE  /\ r \in Seq(Frame) /\ Tail(w) \in Seq(Frame)
         /\ Members(Tail(w)) \cup Members(r) \subseteq Members(w) \cup Members(q) \cup {Undecodable}
         /\ Count(Tail(w), "d") + Count(r, "d") <= Count(w, "d") + Count(q, "d")
         /\ Granted(Tail(w)) + Granted(r) <= Granted(w) + Granted(q)
<1> DEFINE f == Head(w)
           u == Tail(w)
<1>1. f \in Frame /\ u \in Seq(Frame) /\ Undecodable \in Frame
  BY HeadTailProperties, FrameTypes
<1>2. Append(q, f) \in Seq(Frame) /\ Append(q, Undecodable) \in Seq(Frame)
  BY <1>1, AppendProperties
<1>3. r \in Seq(Frame)
  BY <1>2
<1>4. /\ Count(u, "d") = Count(w, "d") - (IF f.t = "d" THEN 1 ELSE 0)
      /\ Granted(w) = Granted(u) + Grants(f)
  BY CountTail, GrantedTail
<1>5. /\ Count(Append(q, f), "d") = Count(q, "d") + (IF f.t = "d" THEN 1 ELSE 0)
      /\ Granted(Append(q, f)) = Granted(q) + Grants(f)
  BY <1>1, CountAppend, GrantedAppend
<1>6. /\ Count(Append(q, Undecodable), "d") = Count(q, "d")
      /\ Granted(Append(q, Undecodable)) = Granted(q)
  BY <1>1, BareFrames DEF Undecodable
<1>7. /\ Count(u, "d") \in Nat /\ Count(w, "d") \in Nat /\ Count(q, "d") \in Nat
      /\ Granted(u) \in Nat /\ Granted(w) \in Nat /\ Granted(q) \in Nat /\ Grants(f) \in Nat
  BY <1>1, CountType, GrantedType, GrantsType
<1>8. Members(u) \cup Members(r) \subseteq Members(w) \cup Members(q) \cup {Undecodable}
  <2>1. f \in Members(w) /\ Members(u) \subseteq Members(w)
    BY MembersMove
  <2>2. /\ Members(Append(q, f)) = Members(q) \cup {f}
        /\ Members(Append(q, Undecodable)) = Members(q) \cup {Undecodable}
    BY <1>1, MembersMove
  <2>3. Members(r) \subseteq Members(q) \cup {f, Undecodable}
    <3>1. CASE r = q
      BY <3>1
    <3>2. CASE r = Append(q, f)
      BY <2>2, <3>2
    <3>3. CASE r = Append(q, Undecodable)
      BY <2>2, <3>3
    <3> QED
      BY <3>1, <3>2, <3>3
  <2> HIDE DEF f, u
  <2> QED
    BY <2>1, <2>3
<1> HIDE DEF f, u
<1>9. /\ Count(u, "d") + Count(r, "d") <= Count(w, "d") + Count(q, "d")
      /\ Granted(u) + Granted(r) <= Granted(w) + Granted(q)
  <2>1. CASE r = q
    BY <1>4, <1>7, <2>1
  <2>2. CASE r = Append(q, f)
    <3>1. Count(u, "d") + Count(r, "d") <= Count(w, "d") + Count(q, "d")
      BY <1>4, <1>5, <1>7, <2>2
    <3>2. Granted(u) + Granted(r) <= Granted(w) + Granted(q)
      BY <1>4, <1>5, <1>7, <2>2
    <3> QED
      BY <3>1, <3>2
  <2>3. CASE r = Append(q, Undecodable)
    BY <1>4, <1>6, <1>7, <2>3
  <2> QED
    BY <2>1, <2>2, <2>3 DEF f
<1> QED
  BY <1>1, <1>3, <1>8, <1>9 DEF u

\* What a delivery makes of the inbox.
LEMMA Arrived ==
  ASSUME NEW sub \in Subscription, NEW f \in Frame, NEW a \in Arrivals(sub, f)
  PROVE  /\ a[1] \in Subscription /\ a[1].open = sub.open /\ a[2] \in Nat
         /\ a[1].queue \in {sub.queue, Append(sub.queue, f), Append(sub.queue, Undecodable)}
         /\ ~sub.open => a[1] = sub
<1>1. Undecodable \in Frame
  BY FrameTypes
<1>2. \/ a = <<Receive(sub, f), 0>> \/ a = <<Receive(sub, Undecodable), 1>> \/ a = <<sub, 1>>
  BY DEF Arrivals
<1>3. a[1] \in {Receive(sub, f), Receive(sub, Undecodable), sub} /\ a[2] \in Nat
  <2> HIDE DEF Receive, Undecodable
  <2>1. CASE a = <<Receive(sub, f), 0>>
    BY <2>1
  <2>2. CASE a = <<Receive(sub, Undecodable), 1>>
    BY <2>2
  <2>3. CASE a = <<sub, 1>>
    BY <2>3
  <2> QED
    BY <1>2, <2>1, <2>2, <2>3
<1> QED
  BY <1>1, <1>3, ReceiveLemma

\* A frame on its way to the host is delivered, garbled or lost.
LEMMA DeliverUpKeep == UploadInv /\ DeliverUp => UploadInv'
<1> SUFFICES ASSUME UploadInv, DeliverUp PROVE UploadInv'
  OBVIOUS
<1>t. /\ UploadTypeOK /\ host \in HostState /\ net \in NetState
      /\ host.sub \in Subscription /\ host.sub.queue \in Seq(Frame) /\ net.up \in Seq(Frame)
  BY PartTypes DEF UploadInv, UploadTypeOK
<1>0. /\ net.up # <<>> /\ call' = call /\ client' = client /\ pump' = pump
  BY DEF DeliverUp
<1>h. Head(net.up) \in Frame /\ Tail(net.up) \in Seq(Frame)
  BY <1>0, <1>t, HeadTailProperties
<1>a. PICK a \in Arrivals(host.sub, Head(net.up)) :
        /\ host' = [host EXCEPT !.sub = IF host.connected THEN a[1] ELSE @]
        /\ net' = [net EXCEPT !.up = Tail(@), !.faults = @ + a[2]]
  BY DEF DeliverUp
<1>b. /\ a[1] \in Subscription /\ a[1].open = host.sub.open /\ a[2] \in Nat
      /\ a[1].queue \in {host.sub.queue, Append(host.sub.queue, Head(net.up)),
                         Append(host.sub.queue, Undecodable)}
      /\ ~host.sub.open => a[1] = host.sub
  BY <1>h, <1>t, Arrived
<1> DEFINE s == IF host.connected THEN a[1] ELSE host.sub
<1>s. /\ s \in Subscription /\ s.open = host.sub.open
      /\ s.queue \in {host.sub.queue, Append(host.sub.queue, Head(net.up)),
                      Append(host.sub.queue, Undecodable)}
      /\ ~host.sub.open => s = host.sub
  BY <1>b, <1>t
<1>1. host' = [host EXCEPT !.sub = s]
  BY <1>a
<1> HIDE DEF s
<1>n. /\ net' \in NetState /\ net'.up = Tail(net.up) /\ net'.down = net.down
      /\ net'.open = net.open
  <2>1. net.faults + a[2] \in Nat
    BY <1>b, <1>t, NetFields
  <2> QED
    BY <1>a, <1>h, <1>t, <2>1 DEF NetState
<1>2. /\ host' \in HostState /\ host'.sub = s
      /\ host'.pc = host.pc
      /\ host'.timer = host.timer /\ host'.seq = host.seq /\ host'.got = host.got
      /\ host'.input = host.input /\ host'.callError = host.callError
      /\ host'.ended = host.ended /\ host'.credit = host.credit
      /\ host'.terminated = host.terminated /\ host'.drain = host.drain
      /\ host'.expected = host.expected /\ host'.queue = host.queue
      /\ host'.produced = host.produced
  <2>1. host' \in HostState
    BY <1>1, <1>s, <1>t, HostUpdates
  <2>2. host \in HostState /\ s \in Subscription
    BY <1>s, <1>t
  <2> QED
    BY <1>1, <2>1, <2>2 DEF HostState
<1>3. UploadTypeOK'
  BY <1>0, <1>n, <1>2, <1>t DEF UploadTypeOK
<1>d. /\ Members(net'.up) \cup Members(s.queue)
           \subseteq Members(net.up) \cup Members(host.sub.queue) \cup {Undecodable}
      /\ Count(net'.up, "d") + Count(s.queue, "d")
           <= Count(net.up, "d") + Count(host.sub.queue, "d")
      /\ Granted(net'.up) + Granted(s.queue) <= Granted(net.up) + Granted(host.sub.queue)
  <2> DEFINE w == net.up
             q == host.sub.queue
             r == s.queue
  <2>1. /\ w \in Seq(Frame) /\ q \in Seq(Frame) /\ w # <<>>
        /\ r \in {q, Append(q, Head(w)), Append(q, Undecodable)}
    BY <1>0, <1>s, <1>t
  <2> HIDE DEF w, q, r
  <2>2. /\ Members(Tail(w)) \cup Members(r) \subseteq Members(w) \cup Members(q) \cup {Undecodable}
        /\ Count(Tail(w), "d") + Count(r, "d") <= Count(w, "d") + Count(q, "d")
        /\ Granted(Tail(w)) + Granted(r) <= Granted(w) + Granted(q)
    BY <2>1, Delivered
  <2> QED
    BY <1>n, <2>2 DEF w, q, r
<1>f. UpFrames' \subseteq UpFrames \cup {Undecodable} /\ DownFrames' = DownFrames
  BY <1>0, <1>n, <1>2, <1>d DEF UpFrames, DownFrames
<1>u. Undecodable.t = "bad"
  BY DEF Undecodable
<1>4. Opened'
  BY <1>0, <1>n, <1>2 DEF UploadInv, Opened, Silent
<1>5. Untouched'
  BY <1>0, <1>n, <1>2, <1>f, <1>s, <1>u DEF UploadInv, Untouched
<1>6. Windows'
  BY <1>0, <1>2 DEF UploadInv, Windows
<1>7. PumpInOrder'
  BY <1>0, <1>f, <1>u DEF UploadInv, PumpInOrder
<1>8. GivenInOrder'
  <2>1. InputsInOrder'
    BY <1>0, <1>2 DEF UploadInv, GivenInOrder, InputsInOrder
  <2> QED
    BY <1>0, <1>2, <2>1 DEF UploadInv, GivenInOrder, Plain, Half, IsClientStream
<1>9. HostInOrder'
  BY <1>0, <1>2, <1>f DEF UploadInv, HostInOrder, IsClientStream, IsDuplex
<1>10. TakenInOrder' /\ SuccessIsTheHosts'
  BY <1>0, <1>2 DEF UploadInv, TakenInOrder, SuccessIsTheHosts, IsClientStream, IsDuplex
<1>11. WindowsConserved'
  <2>1. TermsNatural /\ TermsNatural'
    BY <1>t, <1>3, TermTypes, TermTypesNext
  <2>2. PumpHas' = PumpHas /\ HostHas' = HostHas
    BY <1>0, <1>2 DEF PumpHas, PumpHolds, HostHas, HostHolds
  <2>3. DownGrants' = DownGrants /\ DownOut' = DownOut
    BY <1>0, <1>n DEF DownGrants, DownOut
  <2>4. UpOut' <= UpOut /\ UpGrants' <= UpGrants
    <3>1. Queued' = Queued /\ Queued \in Nat
      BY <1>0, <1>2, <1>t, PartTypes, ChosenFinite DEF Queued
    <3>2. /\ Count(net.up, "d") \in Nat /\ Count(host.sub.queue, "d") \in Nat
          /\ Count(net'.up, "d") \in Nat /\ Count(s.queue, "d") \in Nat
      <4>1. net'.up \in Seq(Frame) /\ s.queue \in Seq(Frame)
        BY <1>h, <1>n, <1>s DEF Subscription
      <4> QED
        BY <1>t, <4>1, CountType
    <3> QED
      BY <1>2, <1>d, <3>1, <3>2 DEF UpOut, UpGrants
  <2>5. CreditsFall
    <3>1. /\ PumpHas \in Int /\ HostHas \in Int /\ DownGrants \in Int /\ DownOut \in Int
          /\ UpOut \in Int /\ UpOut' \in Int /\ UpGrants \in Int /\ UpGrants' \in Int
      BY <2>1 DEF TermsNatural
    <3>2. /\ PumpHas + UpOut' + DownGrants <= PumpHas + UpOut + DownGrants
          /\ HostHas + DownOut + UpGrants' <= HostHas + DownOut + UpGrants
      BY <2>4, <3>1, SumShrinks, Zenon
    <3> QED
      BY <2>2, <2>3, <3>2, Zenon DEF CreditsFall
  <2> QED
    BY <1>0, <1>t, <1>3, <2>5, WindowsFall DEF UploadInv
<1> QED
  BY <1>3, <1>4, <1>5, <1>6, <1>7, <1>8, <1>9, <1>10, <1>11 DEF UploadInv

\* A frame on its way to the client is delivered, garbled or lost.
LEMMA DeliverDownKeep == UploadInv /\ DeliverDown => UploadInv'
<1> SUFFICES ASSUME UploadInv, DeliverDown PROVE UploadInv'
  OBVIOUS
<1>t. /\ UploadTypeOK /\ client \in ClientState /\ net \in NetState
      /\ client.sub \in Subscription /\ client.sub.queue \in Seq(Frame) /\ net.down \in Seq(Frame)
  BY PartTypes DEF UploadInv, UploadTypeOK
<1>0. /\ net.down # <<>> /\ call' = call /\ host' = host /\ pump' = pump
  BY DEF DeliverDown
<1>i. ~Silent
  BY <1>0 DEF Silent
<1>h. Head(net.down) \in Frame /\ Tail(net.down) \in Seq(Frame)
  BY <1>0, <1>t, HeadTailProperties
<1>a. PICK a \in Arrivals(client.sub, Head(net.down)) :
        /\ client' = [client EXCEPT !.sub = a[1]]
        /\ net' = [net EXCEPT !.down = Tail(@), !.faults = @ + a[2]]
  BY DEF DeliverDown
<1> DEFINE s == a[1]
<1>s. /\ s \in Subscription /\ a[2] \in Nat
      /\ s.queue \in {client.sub.queue, Append(client.sub.queue, Head(net.down)),
                      Append(client.sub.queue, Undecodable)}
  BY <1>h, <1>t, Arrived
<1>1. client' = [client EXCEPT !.sub = s]
  BY <1>a
<1>n. /\ net' \in NetState /\ net'.down = Tail(net.down) /\ net'.up = net.up
      /\ net'.open = net.open
  <2>1. net.faults + a[2] \in Nat
    BY <1>s, <1>t, NetFields
  <2> QED
    BY <1>a, <1>h, <1>t, <2>1 DEF NetState
<1> HIDE DEF s
<1>2. /\ client' \in ClientState /\ client'.sub = s
      /\ client'.pc = client.pc /\ client'.terminated = client.terminated
      /\ client'.connected = client.connected /\ client'.outcome = client.outcome
      /\ client'.got = client.got /\ client'.seq = client.seq /\ client'.timer = client.timer
  <2>1. client' \in ClientState
    BY <1>1, <1>s, <1>t, ClientFields
  <2>2. client \in ClientState /\ s \in Subscription
    BY <1>s, <1>t
  <2> QED
    BY <1>1, <2>1, <2>2 DEF ClientState
<1>3. UploadTypeOK'
  BY <1>0, <1>n, <1>2, <1>t DEF UploadTypeOK
<1>d. /\ Members(net'.down) \cup Members(s.queue)
           \subseteq Members(net.down) \cup Members(client.sub.queue) \cup {Undecodable}
      /\ Count(net'.down, "d") + Count(s.queue, "d")
           <= Count(net.down, "d") + Count(client.sub.queue, "d")
      /\ Granted(net'.down) + Granted(s.queue) <= Granted(net.down) + Granted(client.sub.queue)
  <2> DEFINE w == net.down
             q == client.sub.queue
             r == s.queue
  <2>1. /\ w \in Seq(Frame) /\ q \in Seq(Frame) /\ w # <<>>
        /\ r \in {q, Append(q, Head(w)), Append(q, Undecodable)}
    BY <1>0, <1>s, <1>t
  <2> HIDE DEF w, q, r
  <2>2. /\ Members(Tail(w)) \cup Members(r) \subseteq Members(w) \cup Members(q) \cup {Undecodable}
        /\ Count(Tail(w), "d") + Count(r, "d") <= Count(w, "d") + Count(q, "d")
        /\ Granted(Tail(w)) + Granted(r) <= Granted(w) + Granted(q)
    BY <2>1, Delivered
  <2> QED
    BY <1>n, <2>2 DEF w, q, r
<1>f. DownFrames' \subseteq DownFrames \cup {Undecodable} /\ UpFrames' = UpFrames
  BY <1>0, <1>n, <1>2, <1>d DEF UpFrames, DownFrames
<1>u. Undecodable.t = "bad"
  BY DEF Undecodable
<1>4. Opened'
  BY <1>0, <1>i, <1>n, <1>2 DEF UploadInv, Opened
<1>5. Untouched'
  BY <1>0, <1>f, <1>2 DEF UploadInv, Untouched
<1>6. Windows'
  BY <1>0, <1>2 DEF UploadInv, Windows
<1>7. PumpInOrder'
  BY <1>0, <1>f DEF UploadInv, PumpInOrder
<1>8. GivenInOrder'
  BY <1>0, GivenSame DEF UploadInv
<1>9. HostInOrder'
  BY <1>0, <1>f, <1>u, HostSame DEF UploadInv
<1>10. TakenInOrder' /\ SuccessIsTheHosts'
  BY <1>0, <1>2 DEF UploadInv, TakenInOrder, SuccessIsTheHosts, IsClientStream, IsDuplex
<1>11. WindowsConserved'
  <2>1. TermsNatural /\ TermsNatural'
    BY <1>t, <1>3, TermTypes, TermTypesNext
  <2>2. PumpHas' = PumpHas /\ HostHas' = HostHas
    BY <1>0 DEF PumpHas, PumpHolds, HostHas, HostHolds
  <2>3. UpGrants' = UpGrants /\ UpOut' = UpOut
    BY <1>0, <1>n DEF UpGrants, UpOut, Queued
  <2>4. DownOut' <= DownOut /\ DownGrants' <= DownGrants
    BY <1>2, <1>d DEF DownOut, DownGrants
  <2>5. CreditsFall
    <3>1. /\ PumpHas \in Int /\ HostHas \in Int /\ UpGrants \in Int /\ UpOut \in Int
          /\ DownOut \in Int /\ DownOut' \in Int /\ DownGrants \in Int /\ DownGrants' \in Int
      BY <2>1 DEF TermsNatural
    <3>2. /\ PumpHas + UpOut + DownGrants' <= PumpHas + UpOut + DownGrants
          /\ HostHas + DownOut' + UpGrants <= HostHas + DownOut + UpGrants
      BY <2>4, <3>1, SumShrinks, Zenon
    <3> QED
      BY <2>2, <2>3, <3>2, Zenon DEF CreditsFall
  <2> QED
    BY <1>0, <1>t, <1>3, <2>5, WindowsFall DEF UploadInv
<1> QED
  BY <1>3, <1>4, <1>5, <1>6, <1>7, <1>8, <1>9, <1>10, <1>11 DEF UploadInv

-------------------------------------------------------------------------------
(* The host accepts the call.                                                  *)

\* A FIFO without outputs and grants counts for nothing.
LEMMA BareQueue ==
  ASSUME NEW s \in Seq(Frame), \A f \in Members(s) : f.t \notin {"d", "c"}
  PROVE  Count(s, "d") = 0 /\ Granted(s) = 0
<1>1. Len(s) \in Nat /\ DOMAIN s = 1..Len(s)
  BY LenProperties
<1>2. \A i \in 1..Len(s) : s[i].t # "d" /\ s[i].t # "c"
  BY <1>1 DEF Members
<1>3. Count(s, "d") = 0
  <2>1. {i \in 1..Len(s) : s[i].t = "d"} = {}
    BY <1>2
  <2> QED
    BY <2>1, FS_EmptySet DEF Count
<1>4. PICK w : Summed(s, w) /\ Granted(s) = w[Len(s)]
  BY GrantedSums
<1> DEFINE T == {n \in Nat : n <= Len(s) => w[n] = 0}
<1>5. 0 \in T
  BY <1>4 DEF Summed
<1>6. \A n \in Nat : n \in T => n + 1 \in T
  <2> SUFFICES ASSUME NEW n \in Nat, n \in T, n + 1 <= Len(s) PROVE w[n + 1] = 0
    OBVIOUS
  <2>1. n + 1 \in 1..Len(s) /\ (n + 1) - 1 = n /\ w[n] = 0
    BY <1>1
  <2>2. w[n + 1] = w[n] + Grants(s[n + 1])
    BY <1>4, <2>1 DEF Summed
  <2>3. Grants(s[n + 1]) = 0
    BY <1>2, <2>1 DEF Grants
  <2> QED
    BY <2>1, <2>2, <2>3
<1>7. Nat \subseteq T
  <2> HIDE DEF T
  <2> QED
    BY <1>5, <1>6, Climb
<1> QED
  BY <1>1, <1>3, <1>4, <1>7

\* The serving task starts: it listens and grants the window.
HostStarts ==
  /\ call' = call /\ client' = client /\ pump' = pump
  /\ net.open /\ net' = [net EXCEPT !.open = FALSE, !.down = Append(@, CreditFrame(Window))]
  /\ host' \in HostState /\ host'.pc = "handler" /\ host'.sub = Subscribed
  /\ host'.seq = host.seq /\ host'.got = host.got
  /\ host'.input = host.input /\ host'.callError = host.callError
  /\ host'.ended = host.ended /\ host'.terminated = host.terminated
  /\ host'.expected = host.expected /\ host'.queue = host.queue
  /\ host'.produced = host.produced
  /\ \/ IsClientStream /\ host'.credit = host.credit
     \/ IsDuplex /\ host'.credit = NewController(Window)

\* A clientStream call is accepted.
LEMMA CSHostStarts == UploadInv /\ CSHostAccepts => HostStarts
<1> SUFFICES ASSUME UploadInv, CSHostAccepts PROVE HostStarts
  OBVIOUS
<1>t. host \in HostState /\ call.timed \in BOOLEAN /\ Subscribed \in Subscription
  BY CallFields, SubscriptionStart DEF UploadInv, UploadTypeOK
<1>1. host' = [host EXCEPT !.pc = "handler", !.sub = Subscribed, !.timer = call.timed]
  BY DEF CSHostAccepts
<1>2. host' \in HostState
  <2> DEFINE h1 == [host EXCEPT !.pc = "handler"]
             h2 == [h1 EXCEPT !.sub = Subscribed]
             h3 == [h2 EXCEPT !.timer = call.timed]
  <2>1. h1 \in HostState
    BY <1>t, HostUpdates
  <2>2. h2 \in HostState
    <3> HIDE DEF h1
    <3> QED
      BY <1>t, <2>1, HostUpdates
  <2>3. h3 \in HostState
    <3> HIDE DEF h2
    <3> QED
      BY <1>t, <2>2, HostUpdates
  <2> QED
    BY <1>1, <2>3
<1>3. /\ host'.pc = "handler" /\ host'.sub = Subscribed
      /\ host'.seq = host.seq /\ host'.got = host.got
      /\ host'.input = host.input /\ host'.callError = host.callError
      /\ host'.ended = host.ended /\ host'.terminated = host.terminated
      /\ host'.expected = host.expected /\ host'.queue = host.queue
      /\ host'.produced = host.produced /\ host'.credit = host.credit
  BY <1>1, <1>t DEF HostState
<1> QED
  BY <1>2, <1>3 DEF HostStarts, CSHostAccepts

\* A duplex call is accepted.
LEMMA DXHostStarts == UploadInv /\ DXHostAccepts => HostStarts
<1> SUFFICES ASSUME UploadInv, DXHostAccepts PROVE HostStarts
  OBVIOUS
<1>t. /\ host \in HostState /\ call.timed \in BOOLEAN /\ Subscribed \in Subscription
      /\ NewController(Window) \in Controller
  BY CallFields, SubscriptionStart, NewControllerLemma DEF UploadInv, UploadTypeOK, Window
<1>1. host' = [host EXCEPT !.pc = "handler", !.sub = Subscribed, !.timer = call.timed,
                           !.credit = NewController(Window), !.drain = "reading"]
  BY DEF DXHostAccepts
<1>2. host' \in HostState
  <2> DEFINE h1 == [host EXCEPT !.pc = "handler"]
             h2 == [h1 EXCEPT !.sub = Subscribed]
             h3 == [h2 EXCEPT !.timer = call.timed]
             h4 == [h3 EXCEPT !.credit = NewController(Window)]
             h5 == [h4 EXCEPT !.drain = "reading"]
  <2>1. h1 \in HostState
    BY <1>t, HostUpdates
  <2>2. h2 \in HostState
    <3> HIDE DEF h1
    <3> QED
      BY <1>t, <2>1, HostUpdates
  <2>3. h3 \in HostState
    <3> HIDE DEF h2
    <3> QED
      BY <1>t, <2>2, HostUpdates
  <2>4. h4 \in HostState
    <3> HIDE DEF h3
    <3> QED
      BY <1>t, <2>3, HostUpdates
  <2>5. h5 \in HostState
    <3> HIDE DEF h4
    <3> QED
      BY <1>t, <2>4, HostUpdates
  <2> QED
    BY <1>1, <2>5
<1>3. /\ host'.pc = "handler" /\ host'.sub = Subscribed
      /\ host'.seq = host.seq /\ host'.got = host.got
      /\ host'.input = host.input /\ host'.callError = host.callError
      /\ host'.ended = host.ended /\ host'.terminated = host.terminated
      /\ host'.expected = host.expected /\ host'.queue = host.queue
      /\ host'.produced = host.produced /\ host'.credit = NewController(Window)
  <2> HIDE DEF NewController
  <2> QED
    BY <1>1, <1>t DEF HostState
<1> QED
  BY <1>2, <1>3 DEF HostStarts, DXHostAccepts

\* Accepting the call keeps the invariant: the window starts at the host.
LEMMA HostStartsKeep == UploadInv /\ HostStarts => UploadInv'
<1> SUFFICES ASSUME UploadInv, HostStarts PROVE UploadInv'
  OBVIOUS
<1> USE DEF HostStarts
<1>t. /\ UploadTypeOK /\ net \in NetState /\ Window \in Nat
      /\ net.up \in Seq(Frame)
      /\ pump.credit \in Controller /\ CreditFrame(Window) \in Frame
  BY CallFields, PartTypes, FrameTypes DEF UploadInv, UploadTypeOK, Window
<1>i. host.pc = "idle" /\ client.pc # "idle"
  BY <1>t DEF UploadInv, Opened
<1>u. /\ host.sub.queue = <<>> /\ host.queue = <<>>
      /\ host.credit = NewController(0) /\ ~host.terminated
      /\ host.input = "open" /\ host.got = <<>> /\ host.expected = 0
      /\ host.seq = 0 /\ host.produced = 0
      /\ net.down = <<>> /\ client.sub.queue = <<>>
      /\ pump.credit.credit = 0
      /\ pump.ready => pump.credit.cancelled
      /\ ~pump.ready => pump.pc \in {"off", "gate"}
      /\ host.callError = "none" /\ host.ended = "none"
  BY <1>i DEF UploadInv, Untouched, Opened, Silent
<1>m. \A f \in UpFrames : f.t \notin {"d", "c"}
  BY <1>i DEF UploadInv, Untouched
<1>n. /\ net' \in NetState /\ net'.up = net.up /\ net'.open = FALSE
      /\ net'.down = Append(<<>>, CreditFrame(Window))
      /\ Members(net'.down) = {CreditFrame(Window)}
  <2>1. Append(net.down, CreditFrame(Window)) \in Seq(Frame)
    BY <1>t, NetFields, AppendProperties
  <2>2. Members(<<>>) = {} /\ Members(Append(<<>>, CreditFrame(Window))) = {CreditFrame(Window)}
    <3>1. <<>> \in Seq(Frame)
      BY EmptySeq
    <3>2. Members(Append(<<>>, CreditFrame(Window))) = Members(<<>>) \cup {CreditFrame(Window)}
      BY <1>t, <3>1, MembersMove
    <3>3. Members(<<>>) = {}
      BY DEF Members
    <3> QED
      BY <3>2, <3>3
  <2> QED
    BY <1>t, <1>u, <2>1, <2>2 DEF NetState
<1>s. host'.sub.queue = <<>>
  BY SubscriptionStart
<1>c. /\ \A n \in Nat : /\ NewController(n).credit = n /\ NewController(n).waiters = 0
                        /\ NewController(n).cancelled = FALSE
  BY NewControllerLemma
<1>1. UploadTypeOK'
  BY <1>n DEF UploadInv, UploadTypeOK
<1>2. Opened'
  BY <1>i, <1>n, <1>u DEF UploadInv, Opened
<1>3. Untouched'
  BY DEF Untouched
<1>4. Windows'
  <2>1. ~host'.credit.cancelled /\ host'.credit.waiters = 0
    BY <1>c, <1>t, <1>u
  <2> QED
    BY <2>1 DEF UploadInv, Windows
<1>f. UpFrames' = UpFrames /\ DownFrames' = {CreditFrame(Window)}
  <2>1. Members(<<>>) = {}
    BY DEF Members
  <2> QED
    BY <1>n, <1>s, <1>u, <2>1 DEF UpFrames, DownFrames
<1>5. PumpInOrder'
  BY <1>f DEF UploadInv, PumpInOrder
<1>6. GivenInOrder'
  <2>1. InputsInOrder'
    BY DEF UploadInv, GivenInOrder, InputsInOrder
  <2> QED
    BY <2>1 DEF UploadInv, GivenInOrder, Plain, Half, IsClientStream
<1>7. HostInOrder'
  <2>1. CreditFrame(Window).t = "c"
    BY DEF CreditFrame
  <2> QED
    BY <1>f, <1>u, <2>1 DEF HostInOrder, IsClientStream, IsDuplex
<1>8. TakenInOrder' /\ SuccessIsTheHosts'
  BY DEF UploadInv, TakenInOrder, SuccessIsTheHosts, IsClientStream, IsDuplex
<1>9. WindowsConserved'
  <2>1. PumpHas' = 0
    <3>1. PumpHolds = 0
      BY <1>u, HoldsLemma
    <3>2. PumpHolds' = PumpHolds /\ pump'.credit.credit = 0
      BY <1>u DEF PumpHolds
    <3> QED
      BY <3>1, <3>2 DEF PumpHas
  <2>2. UpOut' = 0
    <3>1. Count(net.up, "d") = 0
      BY <1>m, <1>t, BareQueue DEF UpFrames
    <3>2. Count(host'.sub.queue, "d") = 0 /\ Queued' = 0
      BY <1>s, <1>u, CountEmpty, ChosenEmpty DEF Queued
    <3> QED
      BY <1>n, <3>1, <3>2 DEF UpOut
  <2>3. DownGrants' = Window
    <3>1. Granted(<<>>) = 0 /\ client'.sub.queue = <<>> /\ <<>> \in Seq(Frame)
      BY <1>u, GrantedEmpty, EmptySeq
    <3>2. Granted(net'.down) = 0 + Grants(CreditFrame(Window))
      BY <1>n, <1>t, <3>1, GrantedAppend
    <3>3. Grants(CreditFrame(Window)) = Window
      BY DEF Grants, CreditFrame
    <3> QED
      BY <1>t, <3>1, <3>2, <3>3 DEF DownGrants
  <2>4. IsDuplex => HostHas' = Window
    <3> SUFFICES ASSUME IsDuplex PROVE HostHas' = Window
      OBVIOUS
    <3>1. host'.credit = NewController(Window)
      BY DEF IsDuplex, IsClientStream
    <3>2. HostHolds' = 0
      BY DEF HostHolds, Held
    <3> QED
      BY <1>c, <1>t, <3>1, <3>2 DEF HostHas
  <2>5. DownOut' = 0
    <3>1. Count(client'.sub.queue, "d") = 0
      BY <1>u, CountEmpty
    <3>2. Count(net'.down, "d") = 0 + (IF CreditFrame(Window).t = "d" THEN 1 ELSE 0)
      <4>1. <<>> \in Seq(Frame) /\ Count(<<>>, "d") = 0
        BY EmptySeq, CountEmpty
      <4>2. Count(Append(<<>>, CreditFrame(Window)), "d")
              = Count(<<>>, "d") + (IF CreditFrame(Window).t = "d" THEN 1 ELSE 0)
        BY <1>t, <4>1, CountAppend
      <4> QED
        BY <1>n, <4>1, <4>2
    <3> QED
      BY <3>1, <3>2 DEF DownOut, CreditFrame
  <2>6. UpGrants' = 0
    <3>1. Granted(net.up) = 0
      BY <1>m, <1>t, BareQueue DEF UpFrames
    <3>2. Granted(host'.sub.queue) = 0
      BY <1>s, GrantedEmpty
    <3> QED
      BY <1>n, <3>1, <3>2 DEF UpGrants
  <2>7. UpTokens' = PumpHas' + UpOut' + DownGrants' /\ DownTokens' = HostHas' + DownOut' + UpGrants'
    BY <1>1, TermsOfTokensNext
  <2>8. UpTokens' = Window /\ (IsDuplex => DownTokens' = Window)
    BY <1>t, <2>1, <2>2, <2>3, <2>4, <2>5, <2>6, <2>7
  <2>9. Window' = Window /\ (IsDuplex' <=> IsDuplex)
    BY DEF Window, IsDuplex
  <2> QED
    BY <1>t, <2>8, <2>9 DEF WindowsConserved
<1> QED
  BY <1>1, <1>2, <1>3, <1>4, <1>5, <1>6, <1>7, <1>8, <1>9 DEF UploadInv

-------------------------------------------------------------------------------
(* Steps of the host that publish at most a terminal frame.                    *)

\* A step of the serving task that uses no more of the windows.
LEMMA HostSpeaks ==
  ASSUME UploadInv, call' = call, client' = client, pump' = pump,
         host' \in HostState, HostMoves, GivenInOrder',
         Shrinks(host.sub.queue, host'.sub.queue),
         UpOut' <= UpOut,
         IsDuplex => HostHas' + UpGrants' <= HostHas + UpGrants,
         NEW f \in Frame, f.t \notin {"d", "c"},
         net' = net \/ HostPublishes(<<f>>),
         net' # net /\ f.t = "e" =>
           host'.ended = "e" /\ (IsDuplex => host'.seq = f.seq + 1)
  PROVE  HostTurns
<1>t. UploadTypeOK /\ net \in NetState /\ net.down \in Seq(Frame)
  BY PartTypes DEF UploadInv, UploadTypeOK
<1>1. /\ net' \in NetState /\ net'.up = net.up /\ net'.open = net.open
      /\ \/ net' = net
         \/ /\ net' # net /\ net'.down = Append(net.down, f)
            /\ Members(net'.down) = Members(net.down) \cup {f}
  BY <1>t, HostPublishesOne
<1>2. UploadTypeOK'
  BY <1>t, <1>1 DEF UploadTypeOK
<1>3. \A g \in Members(net'.down) :
        \/ g \in Members(net.down)
        \/ g.t \notin {"d", "e"}
        \/ g.t = "e" /\ host'.ended = "e" /\ (IsDuplex => host'.seq = g.seq + 1)
  BY <1>1
<1>4. DownGrants' = DownGrants /\ DownOut' = DownOut
  <2>1. Count(net'.down, "d") = Count(net.down, "d") /\ Granted(net'.down) = Granted(net.down)
    BY <1>1, <1>t, BareFrames
  <2> QED
    BY <2>1 DEF DownGrants, DownOut
<1>5. TermsNatural /\ TermsNatural'
  BY <1>t, <1>2, TermTypes, TermTypesNext
<1>6. UpOut' + DownGrants' <= UpOut + DownGrants
  <2>1. UpOut \in Int /\ DownGrants \in Int /\ UpOut' \in Int
    BY <1>5 DEF TermsNatural
  <2>2. UpOut' + DownGrants <= UpOut + DownGrants
    BY <2>1, LessPlus, Zenon
  <2> QED
    BY <1>4, <2>2, Zenon
<1>7. IsDuplex => HostHas' + DownOut' + UpGrants' <= HostHas + DownOut + UpGrants
  <2> SUFFICES ASSUME IsDuplex PROVE HostHas' + DownOut' + UpGrants' <= HostHas + DownOut + UpGrants
    OBVIOUS
  <2>1. /\ HostHas \in Int /\ DownOut \in Int /\ UpGrants \in Int
        /\ HostHas' \in Int /\ UpGrants' \in Int
    BY <1>5 DEF TermsNatural
  <2>2. \A a, b, c, x, z \in Int : x + z <= a + c => x + b + z <= a + b + c
    OBVIOUS
  <2>3. HostHas' + DownOut + UpGrants' <= HostHas + DownOut + UpGrants
    BY <2>1, <2>2, Zenon
  <2> QED
    BY <1>4, <2>3, Zenon
<1> QED
  BY <1>1, <1>2, <1>3, <1>6, <1>7 DEF HostTurns

\* The same when the inbox and the queue stay as they are.
LEMMA HostSaysOnly ==
  ASSUME UploadInv, call' = call, client' = client, pump' = pump,
         host' \in HostState, HostMoves, GivenInOrder',
         host'.sub.queue = host.sub.queue,
         Queued' = Queued, IsDuplex => HostHas' <= HostHas,
         NEW f \in Frame, f.t \notin {"d", "c"},
         net' = net \/ HostPublishes(<<f>>),
         net' # net /\ f.t = "e" =>
           host'.ended = "e" /\ (IsDuplex => host'.seq = f.seq + 1)
  PROVE  HostTurns
<1>t. UploadTypeOK /\ net \in NetState
  BY DEF UploadInv, UploadTypeOK
<1>1. net'.up = net.up /\ net' \in NetState
  BY <1>t, HostPublishesOne
<1>2. UpOut' = UpOut /\ UpGrants' = UpGrants
  BY <1>1 DEF UpOut, UpGrants
<1>3. UploadTypeOK'
  BY <1>t, <1>1 DEF UploadTypeOK
<1>4. TermsNatural /\ TermsNatural'
  BY <1>t, <1>3, TermTypes, TermTypesNext
<1>5. UpOut' <= UpOut
  BY <1>2, <1>4 DEF TermsNatural
<1>6. IsDuplex => HostHas' + UpGrants' <= HostHas + UpGrants
  <2>1. HostHas \in Int /\ UpGrants \in Int /\ HostHas' \in Int
    BY <1>4 DEF TermsNatural
  <2>2. IsDuplex => HostHas' + UpGrants <= HostHas + UpGrants
    BY <2>1, LessPlus, Zenon
  <2> QED
    BY <1>2, <2>2, Zenon
<1>7. Shrinks(host.sub.queue, host'.sub.queue)
  BY DEF Shrinks
<1> QED
  BY <1>1, <1>5, <1>6, <1>7, HostSpeaks

\* What the handler was given, when its input and the queue stay as they are.
LEMMA GivenKept ==
  ASSUME GivenInOrder, call' = call, pump' = pump, host'.got = host.got,
         host'.queue = host.queue, host'.expected = host.expected,
         host'.input = host.input, host'.pc = "reading" => host.input = "open"
  PROVE  GivenInOrder'
<1>1. InputsInOrder'
  BY DEF GivenInOrder, InputsInOrder
<1> QED
  BY <1>1 DEF GivenInOrder, Plain, Half, IsClientStream

\* The input is over: nothing more is promised of the queue.
LEMMA GivenOver ==
  ASSUME GivenInOrder, call' = call, pump' = pump, host'.got = host.got,
         host'.queue = host.queue \/ (host.queue # <<>> /\ host'.queue = Tail(host.queue)),
         host.queue \in Seq(Nat),
         host'.input = "failed" \/ (host'.input = "ended" /\ pump.ended), host'.pc # "reading"
  PROVE  GivenInOrder'
<1>1. InputsInOrder'
  BY DEF GivenInOrder, InputsInOrder
<1>2. \A i \in 1..Len(host'.queue) : host'.queue[i] = Half' => pump'.ended
  <2>1. \A i \in 1..Len(host.queue) : host.queue[i] = Half => pump.ended
    BY DEF GivenInOrder
  <2>2. Half' = Half
    BY DEF Half
  <2>3. CASE host'.queue = host.queue
    BY <2>1, <2>2, <2>3
  <2>4. CASE host.queue # <<>> /\ host'.queue = Tail(host.queue)
    <3>1. /\ Len(host'.queue) = Len(host.queue) - 1 /\ Len(host.queue) \in Nat
          /\ \A i \in 1..Len(host'.queue) : host'.queue[i] = host.queue[i + 1]
      BY <2>4, HeadTailProperties, LenProperties
    <3>2. \A i \in 1..Len(host'.queue) : i + 1 \in 1..Len(host.queue)
      BY <3>1
    <3> QED
      BY <2>1, <2>2, <3>1, <3>2
  <2> QED
    BY <2>3, <2>4
<1>3. IsClientStream' => host'.queue = <<>>
  BY DEF GivenInOrder, IsClientStream
<1>4. host'.input # "open"
  OBVIOUS
<1> QED
  BY <1>1, <1>2, <1>3, <1>4 DEF GivenInOrder

\* The window of the host, which it keeps or cancels.
LEMMA HostWindowKept ==
  ASSUME UploadTypeOK, Windows,
         \/ /\ host'.credit = host.credit
            /\ host'.pc = host.pc \/ (host'.pc # "acquiring" /\ ~Parked(host.credit))
         \/ host'.credit = Cancel(host.credit)
  PROVE  /\ host'.credit.waiters <= 1
         /\ host'.credit.waiters > 0 => host'.pc = "acquiring"
         /\ HostHas' <= HostHas
<1>1. host.credit \in Controller /\ host.credit.credit \in Nat
  BY PartTypes DEF Controller
<1>2. HostHolds \in {0, 1}
  BY DEF HostHolds, Held
<1>3. CASE host'.credit = Cancel(host.credit)
  <2>1. /\ host'.credit.waiters = 0 /\ host'.credit.credit = host.credit.credit
        /\ HostHolds' = 0
    BY <1>1, <1>3, CancelLemma, CancelHolds DEF HostHolds
  <2>2. HostHas' = host.credit.credit + 0
    BY <2>1, Zenon DEF HostHas
  <2> QED
    BY <1>1, <1>2, <2>1, <2>2 DEF HostHas
<1>4. CASE host'.credit = host.credit /\ host'.pc = host.pc
  <2>1. HostHolds' = HostHolds
    BY <1>4 DEF HostHolds
  <2> QED
    BY <1>1, <1>2, <1>4, <2>1 DEF HostHas, Windows
<1>5. CASE host'.credit = host.credit /\ host'.pc # "acquiring" /\ ~Parked(host.credit)
  <2>1. HostHolds' = 0
    BY <1>5 DEF HostHolds, Held
  <2>2. HostHas' = host.credit.credit + 0
    BY <1>5, <2>1, Zenon DEF HostHas
  <2> QED
    BY <1>1, <1>2, <1>5, <2>2 DEF HostHas, Windows, Parked
<1> QED
  BY <1>3, <1>4, <1>5

\* A signal is added to the queue: an error, the half-close, or the next input.
LEMMA GivenSignal ==
  ASSUME GivenInOrder, call' = call, pump' = pump, IsDuplex,
         host \in HostState, call.inputs \in Nat, NEW s \in Nat,
         host'.queue = Append(host.queue, s), host'.got = host.got,
         host'.input = host.input, host'.pc = host.pc,
         \/ s = Failure /\ host'.expected = host.expected
         \/ s = Half /\ pump.ended /\ host'.expected = host.expected
         \/ /\ s = host.expected + 1 /\ s <= call.inputs
            /\ host'.expected = host.expected + 1
  PROVE  GivenInOrder'
<1> DEFINE q == host.queue
           L == Len(q)
           G == Len(host.got)
           N == call.inputs
<1>t. /\ q \in Seq(Nat) /\ L \in Nat /\ G \in Nat /\ host.expected \in Nat
  BY HostFields, LenProperties
<1>a. /\ Len(host'.queue) = L + 1 /\ host'.queue[L + 1] = s
      /\ \A i \in 1..L : host'.queue[i] = q[i]
  BY <1>t, AppendProperties
<1>s. /\ s \in 1..N => /\ s = host.expected + 1 /\ host'.expected = host.expected + 1
      /\ s = Half => pump.ended
  BY <1>t DEF Failure, Half
<1>g. /\ \A i \in 1..L : q[i] = Half => pump.ended
      /\ host.input = "open" =>
           /\ \A n \in 1..L : (\A i \in 1..n : q[i] \in 1..N) => q[n] = G + n
           /\ (\A i \in 1..L : q[i] \in 1..N) => host.expected = G + L
  BY DEF GivenInOrder, Plain
<1>1. InputsInOrder'
  BY DEF GivenInOrder, InputsInOrder
<1>2. \A i \in 1..(L + 1) : host'.queue[i] = Half' => pump'.ended
  <2>1. Half' = Half
    BY DEF Half
  <2> SUFFICES ASSUME NEW i \in 1..(L + 1), host'.queue[i] = Half PROVE pump.ended
    BY <2>1
  <2>2. CASE i \in 1..L
    BY <1>a, <1>g, <2>2
  <2>3. CASE i = L + 1
    BY <1>a, <1>s, <2>3
  <2> QED
    BY <1>t, <2>2, <2>3
<1> HIDE DEF q, L, G, N
<1>3. ASSUME host.input = "open", NEW n \in 1..(L + 1),
             \A i \in 1..n : host'.queue[i] \in 1..N
      PROVE  host'.queue[n] = G + n /\ (n = L + 1 => host'.expected = G + n)
  <2>1. CASE n \in 1..L
    <3>0. \A i \in 1..n : i \in 1..L
      BY <1>t, <2>1
    <3>1. \A i \in 1..n : q[i] \in 1..N
      BY <1>a, <1>3, <3>0
    <3> QED
      BY <1>a, <1>g, <1>t, <1>3, <2>1, <3>1
  <2>2. CASE n = L + 1
    <3>1. s \in 1..N
      BY <1>a, <1>3, <1>t, <2>2
    <3>2. \A i \in 1..L : q[i] \in 1..N
      BY <1>a, <1>3, <1>t, <2>2
    <3>3. host.expected = G + L
      BY <1>3, <1>g, <3>2
    <3> QED
      BY <1>a, <1>s, <1>t, <2>2, <3>1, <3>3
  <2> QED
    <3>1. n \in 1..L \/ n = L + 1
      BY <1>t
    <3> QED
      BY <2>1, <2>2, <3>1
<1>4. host'.input = "open" =>
        /\ \A n \in 1..(L + 1) : (\A i \in 1..n : host'.queue[i] \in 1..N) => host'.queue[n] = G + n
        /\ (\A i \in 1..(L + 1) : host'.queue[i] \in 1..N) => host'.expected = G + (L + 1)
  <2>1. L + 1 \in 1..(L + 1)
    BY <1>t
  <2> QED
    BY <1>3, <2>1
<1>5. (host'.pc = "reading" => host'.input = "open") /\ ~IsClientStream'
  BY DEF GivenInOrder, IsDuplex, IsClientStream
<1> QED
  BY <1>1, <1>2, <1>4, <1>5, <1>a DEF GivenInOrder, Plain, q, L, G, N

-------------------------------------------------------------------------------
(* The steps of both kinds, and those of the clientStream host.                *)

\* The handler asks for its next input.
LEMMA HostPullsTurns == ASSUME UploadInv, HostPulls PROVE HostTurns
<1>t. host \in HostState /\ UploadTypeOK /\ Windows /\ GivenInOrder
  BY DEF UploadInv, UploadTypeOK
<1>1. /\ host.pc = "handler" /\ host.input = "open" /\ host' = [host EXCEPT !.pc = "reading"]
      /\ call' = call /\ client' = client /\ pump' = pump /\ net' = net
  BY DEF HostPulls
<1>2. host' \in HostState
  BY <1>1, <1>t, HostUpdates
<1>3. /\ host'.pc = "reading" /\ host'.sub = host.sub /\ host'.seq = host.seq
      /\ host'.got = host.got /\ host'.input = host.input /\ host'.callError = host.callError
      /\ host'.ended = host.ended /\ host'.credit = host.credit
      /\ host'.terminated = host.terminated /\ host'.expected = host.expected
      /\ host'.queue = host.queue /\ host'.produced = host.produced
  BY <1>1, <1>t DEF HostState
<1>4. ~Parked(host.credit)
  BY <1>1, <1>t DEF Windows, Parked
<1>5. /\ host'.credit.waiters <= 1 /\ (host'.credit.waiters > 0 => host'.pc = "acquiring")
      /\ HostHas' <= HostHas
  BY <1>3, <1>4, <1>t, HostWindowKept
<1>6. HostMoves
  BY <1>1, <1>3, <1>5 DEF HostMoves, UploadInv, Opened, Windows, HostInOrder
<1>7. GivenInOrder'
  BY <1>1, <1>3, <1>t, GivenKept
<1>8. Queued' = Queued
  BY <1>1, <1>3 DEF Queued
<1>9. ErrorFrame \in Frame /\ ErrorFrame.t = "x"
  BY FrameTypes DEF ErrorFrame
<1> QED
  BY <1>1, <1>2, <1>3, <1>5, <1>6, <1>7, <1>8, <1>9, HostSaysOnly

\* `up` was closed before the half-close.
LEMMA CSHostInputClosesTurns == ASSUME UploadInv, CSHostInputCloses PROVE HostTurns
<1>t. host \in HostState /\ UploadTypeOK /\ Windows /\ GivenInOrder /\ host.queue \in Seq(Nat)
  BY PartTypes DEF UploadInv, UploadTypeOK
<1>1. /\ host.pc = "reading"
      /\ host' = [host EXCEPT !.pc = "handler", !.input = "failed"]
      /\ call' = call /\ client' = client /\ pump' = pump /\ net' = net
  BY DEF CSHostInputCloses, InputOver
<1>2. host' \in HostState
  BY <1>1, <1>t DEF HostState
<1>3. /\ host'.pc = "handler" /\ host'.sub = host.sub /\ host'.seq = host.seq
      /\ host'.got = host.got /\ host'.input = "failed" /\ host'.callError = host.callError
      /\ host'.ended = host.ended /\ host'.credit = host.credit
      /\ host'.terminated = host.terminated /\ host'.expected = host.expected
      /\ host'.queue = host.queue /\ host'.produced = host.produced
  BY <1>1, <1>t DEF HostState
<1>4. ~Parked(host.credit)
  BY <1>1, <1>t DEF Windows, Parked
<1>5. /\ host'.credit.waiters <= 1 /\ (host'.credit.waiters > 0 => host'.pc = "acquiring")
      /\ HostHas' <= HostHas
  BY <1>3, <1>4, <1>t, HostWindowKept
<1>6. HostMoves
  BY <1>1, <1>3, <1>5 DEF HostMoves, UploadInv, Opened, Windows, HostInOrder
<1>7. GivenInOrder'
  BY <1>1, <1>3, <1>t, GivenOver
<1>8. Queued' = Queued
  BY <1>1, <1>3 DEF Queued
<1>9. ErrorFrame \in Frame /\ ErrorFrame.t = "x"
  BY FrameTypes DEF ErrorFrame
<1> QED
  BY <1>1, <1>2, <1>3, <1>5, <1>6, <1>7, <1>8, <1>9, HostSaysOnly

\* The timer fires: the handler learns of it later.
LEMMA CSHostExpiresTurns == ASSUME UploadInv, CSHostExpires PROVE HostTurns
<1>t. /\ host \in HostState /\ UploadTypeOK /\ Windows /\ GivenInOrder
      /\ host.sub \in Subscription
  BY PartTypes DEF UploadInv, UploadTypeOK
<1>1. /\ host.timer
      /\ host' = [host EXCEPT !.timer = FALSE, !.upError = "timeout", !.sub = Unsubscribe(@)]
      /\ call' = call /\ client' = client /\ pump' = pump /\ net' = net
  BY DEF CSHostExpires
<1>i. host.pc # "idle"
  BY <1>1 DEF UploadInv, Untouched
<1>s. Unsubscribe(host.sub) \in Subscription /\ Unsubscribe(host.sub).queue = host.sub.queue
  BY <1>t, UnsubscribeLemma
<1>2. host' \in HostState
  <2> DEFINE h1 == [host EXCEPT !.timer = FALSE]
             h2 == [h1 EXCEPT !.upError = "timeout"]
             h3 == [h2 EXCEPT !.sub = Unsubscribe(host.sub)]
  <2>1. h1 \in HostState
    BY <1>t, HostUpdates
  <2>2. h2 \in HostState
    <3> HIDE DEF h1
    <3> QED
      BY <2>1, HostUpdates DEF Causes
  <2>3. h3 \in HostState
    <3> HIDE DEF h2
    <3> QED
      BY <1>s, <2>2, HostUpdates
  <2> QED
    BY <1>1, <2>3
<1>3. /\ host'.pc = host.pc /\ host'.sub.queue = host.sub.queue /\ host'.seq = host.seq
      /\ host'.got = host.got /\ host'.input = host.input /\ host'.callError = host.callError
      /\ host'.ended = host.ended /\ host'.credit = host.credit
      /\ host'.terminated = host.terminated /\ host'.expected = host.expected
      /\ host'.queue = host.queue /\ host'.produced = host.produced
  BY <1>1, <1>s, <1>t DEF HostState
<1>5. /\ host'.credit.waiters <= 1 /\ (host'.credit.waiters > 0 => host'.pc = "acquiring")
      /\ HostHas' <= HostHas
  BY <1>3, <1>t, HostWindowKept
<1>6. HostMoves
  BY <1>i, <1>3, <1>5 DEF HostMoves, UploadInv, Opened, Windows, HostInOrder
<1>7. GivenInOrder'
  BY <1>1, <1>3, <1>t, GivenKept DEF GivenInOrder
<1>8. Queued' = Queued
  BY <1>1, <1>3 DEF Queued
<1>9. ErrorFrame \in Frame /\ ErrorFrame.t = "x"
  BY FrameTypes DEF ErrorFrame
<1> QED
  BY <1>1, <1>2, <1>3, <1>5, <1>6, <1>7, <1>8, <1>9, HostSaysOnly

\* A step of the host that ends a clientStream call.
LEMMA CSEnds ==
  ASSUME UploadInv, host.pc = "handler", call' = call, pump' = pump,
         NEW e \in Causes, NEW d \in {"none", "e", "x"}, CSHostEnds(e, d),
         d = "e" => e = "none"
  PROVE  /\ host' \in HostState /\ HostMoves /\ GivenInOrder' /\ Queued' = Queued
         /\ host'.sub.queue = host.sub.queue /\ host'.ended = d
<1>t. /\ host \in HostState /\ host.sub \in Subscription /\ GivenInOrder /\ Windows
  BY PartTypes DEF UploadInv, UploadTypeOK
<1> DEFINE r == IF e = "none" THEN "ok" ELSE "error"
<1>1. host' = [host EXCEPT !.pc = "done", !.timer = FALSE, !.sub = Unsubscribe(@),
                           !.callError = e, !.ended = d, !.recorded = r]
  BY DEF CSHostEnds
<1>r. r \in {"none", "ok", "error"}
  OBVIOUS
<1> HIDE DEF r
<1>s. Unsubscribe(host.sub) \in Subscription /\ Unsubscribe(host.sub).queue = host.sub.queue
  BY <1>t, UnsubscribeLemma
<1>2. host' \in HostState
  <2> DEFINE h1 == [host EXCEPT !.pc = "done"]
             h2 == [h1 EXCEPT !.timer = FALSE]
             h3 == [h2 EXCEPT !.sub = Unsubscribe(host.sub)]
             h4 == [h3 EXCEPT !.callError = e]
             h5 == [h4 EXCEPT !.ended = d]
             h6 == [h5 EXCEPT !.recorded = r]
  <2>1. h1 \in HostState
    BY <1>t, HostUpdates
  <2>2. h2 \in HostState
    <3> HIDE DEF h1
    <3> QED
      BY <2>1, HostUpdates
  <2>3. h3 \in HostState
    <3> HIDE DEF h2
    <3> QED
      BY <1>s, <2>2, HostUpdates
  <2>4. h4 \in HostState
    <3> HIDE DEF h3
    <3> QED
      BY <2>3, HostUpdates
  <2>5. h5 \in HostState
    <3> HIDE DEF h4
    <3> QED
      BY <2>4, HostUpdates
  <2>6. h6 \in HostState
    <3> HIDE DEF h5
    <3> QED
      BY <1>r, <2>5, HostUpdates
  <2> QED
    BY <1>1, <2>6
<1>3. /\ host'.pc = "done" /\ host'.sub.queue = host.sub.queue /\ host'.seq = host.seq
      /\ host'.got = host.got /\ host'.input = host.input /\ host'.callError = e
      /\ host'.ended = d /\ host'.credit = host.credit
      /\ host'.terminated = host.terminated /\ host'.expected = host.expected
      /\ host'.queue = host.queue /\ host'.produced = host.produced
  BY <1>1, <1>s, <1>t DEF HostState
<1>4. HostMoves
  BY <1>3 DEF HostMoves, UploadInv, Opened, Windows
<1>5. GivenInOrder'
  BY <1>3, <1>t, GivenKept
<1>6. Queued' = Queued
  BY <1>3 DEF Queued
<1> QED
  BY <1>2, <1>3, <1>4, <1>5, <1>6

\* The handler of a clientStream call fails.
LEMMA CSHostFailsTurns == ASSUME UploadInv, CSHostFails PROVE HostTurns
<1>1. /\ IsClientStream /\ host.pc = "handler" /\ HostPublishes(<<ErrorFrame>>)
      /\ CSHostEnds("handler", "x") /\ call' = call /\ client' = client /\ pump' = pump
  BY DEF CSHostFails
<1>2. ~IsDuplex /\ "handler" \in Causes /\ ErrorFrame \in Frame /\ ErrorFrame.t = "x"
  BY <1>1, FrameTypes DEF IsDuplex, IsClientStream, Causes, ErrorFrame
<1>3. /\ host' \in HostState /\ HostMoves /\ GivenInOrder' /\ Queued' = Queued
      /\ host'.sub.queue = host.sub.queue
  BY <1>1, <1>2, CSEnds
<1> QED
  BY <1>1, <1>2, <1>3, HostSaysOnly

\* Two frames are published one after the other.
LEMMA PublishesTwo ==
  ASSUME NEW s \in Seq(Frame), NEW f \in Frame, NEW g \in Frame
  PROVE  s \o <<f, g>> = Append(Append(s, f), g)
OBVIOUS

\* The handler of a clientStream call returns its output.
LEMMA CSHostReturnsTurns == ASSUME UploadInv, CSHostReturns PROVE HostTurns
<1>0. /\ IsClientStream /\ host.pc = "handler"
      /\ call' = call /\ client' = client /\ pump' = pump
  BY DEF CSHostReturns
<1>t. /\ UploadTypeOK /\ net \in NetState /\ net.down \in Seq(Frame) /\ host.upError \in Causes
      /\ ~IsDuplex /\ "handler" \in Causes /\ "none" \in Causes
  BY <1>0, PartTypes, HostFields DEF UploadInv, UploadTypeOK, IsDuplex, IsClientStream, Causes
<1>1. CASE host.upError # "none"
  <2>1. HostPublishes(<<ErrorFrame>>) /\ CSHostEnds(host.upError, "x")
    BY <1>1 DEF CSHostReturns
  <2>2. ErrorFrame \in Frame /\ ErrorFrame.t = "x"
    BY FrameTypes DEF ErrorFrame
  <2>3. /\ host' \in HostState /\ HostMoves /\ GivenInOrder' /\ Queued' = Queued
        /\ host'.sub.queue = host.sub.queue
    BY <1>0, <1>t, <2>1, CSEnds
  <2> QED
    BY <1>0, <1>t, <2>1, <2>2, <2>3, HostSaysOnly
<1>2. CASE host.upError = "none" /\ ~host.connected
  <2>1. CSHostEnds("handler", "none") /\ net' = net
    BY <1>2 DEF CSHostReturns, HostPublishes
  <2>2. ErrorFrame \in Frame /\ ErrorFrame.t = "x"
    BY FrameTypes DEF ErrorFrame
  <2>3. /\ host' \in HostState /\ HostMoves /\ GivenInOrder' /\ Queued' = Queued
        /\ host'.sub.queue = host.sub.queue
    BY <1>0, <1>t, <2>1, CSEnds
  <2> QED
    BY <1>0, <1>t, <2>1, <2>2, <2>3, HostSaysOnly
<1>3. CASE host.upError = "none" /\ host.connected
  <2> DEFINE d == DataFrame(0, 1)
             e == EndFrame(1)
             u == Append(net.down, d)
             v == Append(u, e)
  <2>1. CSHostEnds("none", "e") /\ net' = [net EXCEPT !.down = net.down \o <<d, e>>]
    BY <1>3 DEF CSHostReturns, HostPublishes
  <2>2. /\ d \in Frame /\ d.t = "d" /\ d.seq = 0 /\ d.data = 1
        /\ e \in Frame /\ e.t = "e"
    BY FrameTypes DEF DataFrame, EndFrame
  <2>3. /\ host' \in HostState /\ HostMoves /\ GivenInOrder' /\ Queued' = Queued
        /\ host'.sub.queue = host.sub.queue /\ host'.ended = "e"
    BY <1>0, <1>t, <2>1, CSEnds
  <2> HIDE DEF d, e
  <2>4. net' = [net EXCEPT !.down = v] /\ u \in Seq(Frame) /\ v \in Seq(Frame)
    BY <1>t, <2>1, <2>2, PublishesTwo, AppendProperties
  <2>5. /\ Members(u) = Members(net.down) \cup {d} /\ Members(v) = Members(u) \cup {e}
    <3>1. Members(Append(net.down, d)) = Members(net.down) \cup {d}
      BY <1>t, <2>2, MembersMove
    <3> HIDE DEF u
    <3>2. Members(Append(u, e)) = Members(u) \cup {e}
      BY <2>2, <2>4, MembersMove
    <3> QED
      BY <3>1, <3>2 DEF u
  <2>6. Granted(v) = Granted(net.down)
    <3>1. Granted(v) = Granted(u)
      BY <2>2, <2>4, BareFrames
    <3>2. Granted(u) = Granted(net.down) + Grants(d)
      BY <1>t, <2>2, GrantedAppend
    <3>3. Grants(d) = 0 /\ Granted(net.down) \in Nat
      BY <1>t, <2>2, GrantedType DEF Grants
    <3> QED
      BY <3>1, <3>2, <3>3
  <2> HIDE DEF u, v
  <2>7. /\ net' \in NetState /\ net'.down = v /\ net'.up = net.up /\ net'.open = net.open
    BY <1>t, <2>4 DEF NetState
  <2>8. UploadTypeOK'
    BY <1>0, <1>t, <2>3, <2>7 DEF UploadTypeOK
  <2>9. UpOut' = UpOut /\ DownGrants' = DownGrants
    BY <1>0, <2>3, <2>6, <2>7 DEF UpOut, DownGrants
  <2>10. UpOut' + DownGrants' <= UpOut + DownGrants
    <3>1. UpOut \in Int /\ DownGrants \in Int
      BY <1>t, TermTypes DEF TermsNatural
    <3>2. \A a, b \in Int : a + b <= a + b
      OBVIOUS
    <3> QED
      BY <2>9, <3>1, <3>2, Zenon
  <2>11. Shrinks(host.sub.queue, host'.sub.queue)
    BY <2>3 DEF Shrinks
  <2>12. \A f \in Members(net'.down) : f \in Members(net.down) \/ f = d \/ f = e
    BY <2>5, <2>7
  <2> QED
    BY <1>0, <1>t, <2>2, <2>3, <2>7, <2>8, <2>10, <2>11, <2>12 DEF HostTurns
<1> QED
  BY <1>1, <1>2, <1>3

-------------------------------------------------------------------------------
(* The input of the handler.                                                   *)

\* The handler's input is over.
LEMMA InputOverTurns ==
  ASSUME UploadInv, host.pc = "reading",
         call' = call, client' = client, pump' = pump, net' = net,
         host' \in HostState, host'.pc = "handler",
         Shrinks(host.sub.queue, host'.sub.queue),
         host'.queue = host.queue \/ (host.queue # <<>> /\ host'.queue = Tail(host.queue)),
         host'.got = host.got,
         host'.input = "failed" \/ (host'.input = "ended" /\ pump.ended),
         host'.callError = host.callError, host'.ended = host.ended,
         host'.credit = host.credit, host'.terminated = host.terminated,
         host'.seq = host.seq, host'.produced = host.produced
  PROVE  HostTurns
<1>t. /\ UploadTypeOK /\ Windows /\ GivenInOrder
      /\ host.queue \in Seq(Nat) /\ host.sub.queue \in Seq(Frame) /\ net.up \in Seq(Frame)
  BY PartTypes DEF UploadInv
<1>1. ~Parked(host.credit)
  BY <1>t DEF Windows, Parked
<1>2. /\ host'.credit.waiters <= 1 /\ (host'.credit.waiters > 0 => host'.pc = "acquiring")
      /\ HostHas' <= HostHas
  BY <1>1, <1>t, HostWindowKept
<1>3. HostMoves
  BY <1>2 DEF HostMoves, UploadInv, Opened, Windows, HostInOrder
<1>4. GivenInOrder'
  BY <1>t, GivenOver
<1>5. UploadTypeOK'
  BY <1>t DEF UploadTypeOK
<1>6. TermsNatural /\ TermsNatural'
  BY <1>t, <1>5, TermTypes, TermTypesNext
<1>7. Queued' <= Queued /\ Queued \in Nat /\ Queued' \in Nat
  <2>0. host'.queue \in Seq(Nat)
    BY HostFields
  <2>1. Queued \in Nat /\ Cardinality(Chosen(host'.queue, 1..call.inputs)) \in Nat
    BY <1>t, <2>0, ChosenFinite DEF Queued
  <2>2. Queued' = Cardinality(Chosen(host'.queue, 1..call.inputs))
    BY DEF Queued
  <2>3. CASE host'.queue = host.queue
    BY <2>1, <2>2, <2>3 DEF Queued
  <2>4. CASE host.queue # <<>> /\ host'.queue = Tail(host.queue)
    <3> DEFINE S == 1..call.inputs
    <3> HIDE DEF S
    <3>1. Cardinality(Chosen(host.queue, S))
            = Cardinality(Chosen(Tail(host.queue), S)) + (IF Head(host.queue) \in S THEN 1 ELSE 0)
      BY <1>t, <2>4, ChosenTail
    <3> QED
      BY <2>1, <2>2, <2>4, <3>1 DEF Queued, S
  <2> QED
    BY <2>1, <2>2, <2>3, <2>4
<1>8. /\ Count(host'.sub.queue, "d") <= Count(host.sub.queue, "d")
      /\ Granted(host'.sub.queue) <= Granted(host.sub.queue)
      /\ Count(host'.sub.queue, "d") \in Nat /\ Granted(host'.sub.queue) \in Nat
  BY <1>t, ShrinksLemma
<1>9. UpOut' <= UpOut
  BY <1>7, <1>8, <1>t, CountType DEF UpOut
<1>10. IsDuplex => HostHas' + UpGrants' <= HostHas + UpGrants
  <2>1. UpGrants' <= UpGrants
    BY <1>8, <1>t, GrantedType DEF UpGrants
  <2>2. \A a, b, x, y \in Int : x <= a /\ y <= b => x + y <= a + b
    OBVIOUS
  <2>3. HostHas \in Int /\ HostHas' \in Int /\ UpGrants \in Int /\ UpGrants' \in Int
    BY <1>6 DEF TermsNatural
  <2> QED
    BY <1>2, <2>1, <2>2, <2>3, Zenon
<1>11. ErrorFrame \in Frame /\ ErrorFrame.t = "x"
  BY FrameTypes DEF ErrorFrame
<1> QED
  BY <1>3, <1>4, <1>9, <1>10, <1>11, HostSpeaks

\* The handler is given the next input, whose credit returns.
LEMMA InputTakenTurns ==
  ASSUME UploadInv, host.pc = "reading",
         call' = call, client' = client, pump' = pump, PublishDown(CreditFrame(1)),
         host' \in HostState, host'.pc = "handler", GivenInOrder',
         Shrinks(host.sub.queue, host'.sub.queue), UpOut' + 1 <= UpOut,
         host'.callError = host.callError, host'.ended = host.ended,
         host'.credit = host.credit, host'.terminated = host.terminated,
         host'.seq = host.seq, host'.produced = host.produced
  PROVE  HostTurns
<1>t. /\ UploadTypeOK /\ Windows /\ GivenInOrder
      /\ host.sub.queue \in Seq(Frame) /\ net.up \in Seq(Frame) /\ net.down \in Seq(Frame)
      /\ client.sub.queue \in Seq(Frame)
  BY PartTypes DEF UploadInv
<1>c. CreditFrame(1) \in Frame /\ CreditFrame(1).t = "c" /\ Grants(CreditFrame(1)) = 1
  BY FrameTypes DEF CreditFrame, Grants
<1>n. /\ net' \in NetState /\ net'.down = Append(net.down, CreditFrame(1))
      /\ net'.up = net.up /\ net'.open = net.open
      /\ Members(net'.down) = Members(net.down) \cup {CreditFrame(1)}
  BY <1>t, <1>c, PublishDownType DEF PublishDown
<1>1. ~Parked(host.credit)
  BY <1>t DEF Windows, Parked
<1>2. /\ host'.credit.waiters <= 1 /\ (host'.credit.waiters > 0 => host'.pc = "acquiring")
      /\ HostHas' <= HostHas
  BY <1>1, <1>t, HostWindowKept
<1>3. HostMoves
  BY <1>2 DEF HostMoves, UploadInv, Opened, Windows, HostInOrder
<1>5. UploadTypeOK'
  BY <1>n, <1>t DEF UploadTypeOK
<1>6. TermsNatural /\ TermsNatural'
  BY <1>t, <1>5, TermTypes, TermTypesNext
<1>7. DownGrants' = DownGrants + 1
  <2>1. Granted(net'.down) = Granted(net.down) + 1
    BY <1>c, <1>n, <1>t, GrantedAppend
  <2>2. Granted(net.down) \in Nat /\ Granted(client.sub.queue) \in Nat
    BY <1>t, GrantedType
  <2> QED
    BY <2>1, <2>2 DEF DownGrants
<1>8. UpOut' + DownGrants' <= UpOut + DownGrants
  <2>1. \A a, b, x \in Int : x + 1 <= a => x + (b + 1) <= a + b
    OBVIOUS
  <2>2. UpOut \in Int /\ UpOut' \in Int /\ DownGrants \in Int
    BY <1>6 DEF TermsNatural
  <2>3. UpOut' + (DownGrants + 1) <= UpOut + DownGrants
    BY <2>1, <2>2, Zenon
  <2> QED
    BY <1>7, <2>3, Zenon
<1>9. DownOut' = DownOut
  <2>1. Count(net'.down, "d") = Count(net.down, "d") + (IF CreditFrame(1).t = "d" THEN 1 ELSE 0)
    BY <1>c, <1>n, <1>t, CountAppend
  <2>2. Count(net'.down, "d") = Count(net.down, "d")
    BY <1>c, <1>t, <2>1, CountType
  <2> QED
    BY <2>2 DEF DownOut
<1>10. HostHas' + DownOut' + UpGrants' <= HostHas + DownOut + UpGrants
  <2>1. UpGrants' <= UpGrants
    BY <1>n, <1>t, ShrinksLemma, GrantedType DEF UpGrants
  <2>2. \A a, b, c, x, z \in Int : x <= a /\ z <= c => x + b + z <= a + b + c
    OBVIOUS
  <2>3. /\ HostHas \in Int /\ HostHas' \in Int /\ UpGrants \in Int /\ UpGrants' \in Int
        /\ DownOut \in Int
    BY <1>6 DEF TermsNatural
  <2>4. HostHas' + DownOut + UpGrants' <= HostHas + DownOut + UpGrants
    BY <1>2, <2>1, <2>2, <2>3, Zenon
  <2> QED
    BY <1>9, <2>4, Zenon
<1>11. \A f \in Members(net'.down) : f \in Members(net.down) \/ f.t \notin {"d", "e"}
  BY <1>c, <1>n
<1> QED
  BY <1>n, <1>3, <1>5, <1>8, <1>10, <1>11 DEF HostTurns

\* The frame at the head of the host's inbox is one of those on their way up.
LEMMA HeadOfUp ==
  ASSUME UploadInv, HasFrame(host.sub)
  PROVE  /\ NextFrame(host.sub) \in UpFrames /\ NextFrame(host.sub) \in Frame
         /\ Taken(host.sub) \in Subscription
         /\ Taken(host.sub).queue = Tail(host.sub.queue)
         /\ Shrinks(host.sub.queue, Tail(host.sub.queue))
         /\ host.sub.queue \in Seq(Frame) /\ host.sub.queue # <<>>
<1>1. host.sub \in Subscription
  BY PartTypes DEF UploadInv
<1>2. /\ Taken(host.sub) \in Subscription /\ Taken(host.sub).queue = Tail(host.sub.queue)
      /\ NextFrame(host.sub) \in Frame
      /\ host.sub.queue \in Seq(Frame) /\ host.sub.queue # <<>>
  BY <1>1, TakenLemma
<1>3. Head(host.sub.queue) \in Members(host.sub.queue)
  BY <1>2, MembersMove
<1> QED
  BY <1>2, <1>3 DEF NextFrame, Shrinks, UpFrames

\* The number of the next input is known before it is read.
LEMMA CSHostReadsTurns == ASSUME UploadInv, CSHostReads PROVE HostTurns
<1> DEFINE f == NextFrame(host.sub)
           q == Tail(host.sub.queue)
           h == [host EXCEPT !.sub = Taken(host.sub)]
<1>0. /\ IsClientStream /\ host.pc = "reading" /\ HasFrame(host.sub)
      /\ call' = call /\ client' = client /\ pump' = pump
  BY DEF CSHostReads
<1>t. /\ UploadTypeOK /\ GivenInOrder /\ PumpInOrder /\ host \in HostState /\ host.queue = <<>>
      /\ host.input = "open" /\ host.expected \in Nat /\ host.got \in Seq(Nat)
      /\ call.inputs \in Nat /\ net.up \in Seq(Frame)
  BY <1>0, HostFields, CallFields, PartTypes DEF UploadInv, UploadTypeOK, GivenInOrder
<1>f. /\ f \in UpFrames /\ f \in Frame /\ Taken(host.sub) \in Subscription
      /\ Taken(host.sub).queue = q /\ Shrinks(host.sub.queue, q)
      /\ host.sub.queue \in Seq(Frame) /\ host.sub.queue # <<>>
  BY <1>0, HeadOfUp
<1>h. h \in HostState
  BY <1>f, <1>t, HostUpdates
<1>k. /\ h.pc = host.pc /\ h.sub = Taken(host.sub) /\ h.got = host.got /\ h.queue = host.queue
      /\ h.expected = host.expected /\ h.input = host.input
      /\ h.callError = host.callError /\ h.ended = host.ended
      /\ h.credit = host.credit /\ h.terminated = host.terminated
      /\ h.seq = host.seq /\ h.produced = host.produced /\ h.upError = host.upError
  BY <1>t DEF HostState
<1>e. Len(host.got) = host.expected
  <2>1. Len(host.queue) = 0
    BY <1>t
  <2>2. Plain(Len(host.queue))
    BY <2>1 DEF Plain
  <2>3. Len(host.got) \in Nat
    BY <1>t, LenProperties
  <2> QED
    BY <1>t, <2>1, <2>2, <2>3 DEF GivenInOrder
<1>c. \/ /\ f.t = "d" /\ Consecutive(f)
         /\ InputTaken([h EXCEPT !.expected = @ + 1], f.data)
      \/ InputOver(h, "failed")
      \/ f.t = "e" /\ InputOver(h, "ended")
      \/ InputOver([h EXCEPT !.upError = "cancelled"], "failed")
  BY DEF CSHostReads
<1> HIDE DEF h, f, q
<1>1. ASSUME NEW g \in HostState, NEW how \in {"failed", "ended"},
             host' = [g EXCEPT !.pc = "handler", !.input = how], net' = net,
             g.sub = h.sub, g.got = h.got, g.queue = h.queue,
             g.callError = h.callError, g.ended = h.ended, g.credit = h.credit,
             g.terminated = h.terminated, g.seq = h.seq, g.produced = h.produced,
             how = "ended" => pump.ended
      PROVE  HostTurns
  <2>1. host' \in HostState
    BY <1>1 DEF HostState
  <2>2. /\ host'.pc = "handler" /\ host'.input = how /\ host'.sub = g.sub /\ host'.got = g.got
        /\ host'.queue = g.queue /\ host'.callError = g.callError
        /\ host'.ended = g.ended /\ host'.credit = g.credit
        /\ host'.terminated = g.terminated /\ host'.seq = g.seq
        /\ host'.produced = g.produced
    BY <1>1 DEF HostState
  <2> QED
    BY <1>0, <1>1, <1>f, <1>k, <2>1, <2>2, InputOverTurns
<1>2. CASE InputOver(h, "failed")
  BY <1>1, <1>2, <1>h DEF InputOver
<1>3. CASE f.t = "e" /\ InputOver(h, "ended")
  <2>1. pump.ended
    BY <1>3, <1>f, <1>t DEF PumpInOrder
  <2> QED
    BY <1>1, <1>3, <1>h, <2>1 DEF InputOver
<1>4. CASE InputOver([h EXCEPT !.upError = "cancelled"], "failed")
  <2> DEFINE g == [h EXCEPT !.upError = "cancelled"]
  <2>1. g \in HostState
    BY <1>h, HostUpdates DEF Causes
  <2>2. /\ g.sub = h.sub /\ g.got = h.got /\ g.queue = h.queue
        /\ g.callError = h.callError /\ g.ended = h.ended /\ g.credit = h.credit
        /\ g.terminated = h.terminated /\ g.seq = h.seq /\ g.produced = h.produced
    BY <1>h DEF HostState
  <2> HIDE DEF g
  <2>3. InputOver(g, "failed")
    BY <1>4 DEF g
  <2> QED
    BY <1>1, <2>1, <2>2, <2>3 DEF InputOver
<1>5. CASE f.t = "d" /\ Consecutive(f) /\ InputTaken([h EXCEPT !.expected = @ + 1], f.data)
  <2> DEFINE g == [h EXCEPT !.expected = h.expected + 1]
  <2>0. h.expected + 1 \in Nat /\ f.data \in Nat
    BY <1>f, <1>k, <1>t DEF Frame
  <2>1. g \in HostState
    BY <1>h, <2>0, HostUpdates
  <2>2. /\ g.sub = h.sub /\ g.got = h.got /\ g.queue = h.queue /\ g.input = h.input
        /\ g.expected = h.expected + 1
        /\ g.callError = h.callError /\ g.ended = h.ended /\ g.credit = h.credit
        /\ g.terminated = h.terminated /\ g.seq = h.seq /\ g.produced = h.produced
    BY <1>h DEF HostState
  <2>3. InputTaken(g, f.data)
    BY <1>5
  <2> HIDE DEF g
  <2>4. CASE ~host.connected
    BY <1>1, <2>1, <2>2, <2>3, <2>4 DEF InputTaken
  <2>5. CASE host.connected
    <3>1. /\ host' = [g EXCEPT !.pc = "handler", !.got = Append(g.got, f.data)]
          /\ PublishDown(CreditFrame(1))
      BY <2>3, <2>5 DEF InputTaken
    <3>2. Append(host.got, f.data) \in Seq(Nat)
      BY <1>t, <2>0, AppendProperties
    <3>3. host' \in HostState
      BY <1>k, <2>1, <2>2, <3>1, <3>2 DEF HostState
    <3>4. /\ host'.pc = "handler" /\ host'.got = Append(host.got, f.data)
          /\ host'.sub = g.sub /\ host'.queue = g.queue /\ host'.input = g.input
          /\ host'.expected = g.expected
          /\ host'.callError = g.callError /\ host'.ended = g.ended
          /\ host'.credit = g.credit /\ host'.terminated = g.terminated
          /\ host'.seq = g.seq /\ host'.produced = g.produced
      BY <1>k, <2>1, <2>2, <3>1 DEF HostState
    <3>5. f.data = Len(host.got) + 1
      BY <1>5, <1>e, <1>f, <1>t DEF PumpInOrder, Consecutive
    <3>6. GivenInOrder'
      <4>1. /\ Len(host'.got) = Len(host.got) + 1 /\ Len(host.got) \in Nat
            /\ host'.got = [i \in 1..Len(host'.got) |-> i]
        <5>1. host.got = [i \in 1..Len(host.got) |-> i]
          BY <1>t DEF GivenInOrder, InputsInOrder
        <5>2. /\ Len(host.got) \in Nat /\ Len(host'.got) = Len(host.got) + 1
              /\ host'.got \in Seq(Nat) /\ host'.got[Len(host.got) + 1] = f.data
              /\ \A i \in 1..Len(host.got) : host'.got[i] = host.got[i]
          BY <1>t, <2>0, <3>4, AppendProperties, LenProperties
        <5>3. host'.got = [i \in 1..Len(host'.got) |-> host'.got[i]]
          BY <5>2
        <5>4. \A i \in 1..Len(host'.got) : host'.got[i] = i
          BY <3>5, <5>1, <5>2
        <5> QED
          BY <5>2, <5>3, <5>4
      <4>2. host'.queue = <<>> /\ Len(host'.queue) = 0 /\ host'.input = "open"
        BY <1>k, <1>t, <2>2, <3>4
      <4>3. host'.expected = Len(host'.got)
        BY <1>e, <1>k, <2>2, <3>4, <4>1
      <4>4. InputsInOrder'
        BY <4>1, <4>2 DEF InputsInOrder
      <4> QED
        BY <3>4, <4>1, <4>2, <4>3, <4>4 DEF GivenInOrder
    <3>7. UpOut' + 1 <= UpOut
      <4>1. Count(Tail(host.sub.queue), "d") = Count(host.sub.queue, "d") - 1
        BY <1>5, <1>f, CountTail DEF NextFrame, f
      <4>2. host'.sub.queue = Tail(host.sub.queue)
        BY <1>f, <1>k, <2>2, <3>4 DEF q
      <4>3. net'.up = net.up
        BY <1>t, <3>1, PublishDownType, FrameTypes DEF PublishDown
      <4>4. Queued' = Queued /\ Queued \in Nat
        BY <1>0, <1>k, <1>t, <2>2, <3>4, PartTypes, ChosenFinite DEF Queued
      <4>5. Count(net.up, "d") \in Nat /\ Count(host.sub.queue, "d") \in Nat
        BY <1>f, <1>t, CountType
      <4>6. UpOut' = Count(net.up, "d") + (Count(host.sub.queue, "d") - 1) + Queued
        BY <4>1, <4>2, <4>3, <4>4, Zenon DEF UpOut
      <4> QED
        BY <4>4, <4>5, <4>6 DEF UpOut
    <3> QED
      BY <1>0, <1>f, <1>k, <2>2, <3>1, <3>3, <3>4, <3>6, <3>7, InputTakenTurns
  <2> QED
    BY <2>4, <2>5
<1> QED
  BY <1>c, <1>2, <1>3, <1>4, <1>5

-------------------------------------------------------------------------------
(* The duplex host: its input.                                                 *)

\* The next of the queued inputs is given: the queue has what follows it.
LEMMA GivenNext ==
  ASSUME GivenInOrder, call' = call, pump' = pump, IsDuplex,
         host \in HostState, host.input = "open", host.queue # <<>>,
         Head(host.queue) \in 1..call.inputs, call.inputs \in Nat,
         host'.queue = Tail(host.queue), host'.got = Append(host.got, Head(host.queue)),
         host'.expected = host.expected, host'.input = "open", host'.pc = "handler"
  PROVE  GivenInOrder'
<1> DEFINE q == host.queue
           L == Len(q)
           G == Len(host.got)
           N == call.inputs
<1>t. /\ q \in Seq(Nat) /\ L \in Nat /\ G \in Nat /\ host.expected \in Nat
      /\ host.got \in Seq(Nat) /\ L > 0
  BY HostFields, LenProperties, EmptySeq
<1>a. /\ Len(host'.queue) = L - 1 /\ \A i \in 1..(L - 1) : host'.queue[i] = q[i + 1]
      /\ Head(q) = q[1] /\ Head(q) \in Nat
  BY <1>t, HeadTailProperties
<1>g. /\ \A i \in 1..L : q[i] = Half => pump.ended
      /\ \A n \in 1..L : (\A i \in 1..n : q[i] \in 1..N) => q[n] = G + n
      /\ (\A i \in 1..L : q[i] \in 1..N) => host.expected = G + L
  BY DEF GivenInOrder, Plain
<1>b. /\ Len(host'.got) = G + 1 /\ host'.got[G + 1] = Head(q) /\ host'.got \in Seq(Nat)
      /\ \A i \in 1..G : host'.got[i] = host.got[i]
  BY <1>a, <1>t, AppendProperties
<1>h. q[1] \in 1..N
  BY <1>a
<1>i. host.got = [i \in 1..G |-> i]
  BY DEF GivenInOrder, InputsInOrder
<1>half. Half' = Half
  BY DEF Half
<1> HIDE DEF q, L, G, N
<1>1. q[1] = G + 1
  <2>1. \A i \in 1..1 : q[i] \in 1..N
    BY <1>h
  <2>2. 1 \in 1..L
    BY <1>t
  <2> QED
    BY <1>g, <2>1, <2>2
<1>2. InputsInOrder'
  <2>1. host'.got = [i \in 1..(G + 1) |-> host'.got[i]]
    BY <1>b
  <2>2. \A i \in 1..(G + 1) : host'.got[i] = i
    <3> SUFFICES ASSUME NEW i \in 1..(G + 1) PROVE host'.got[i] = i
      OBVIOUS
    <3>1. i \in 1..G \/ i = G + 1
      BY <1>t
    <3> QED
      BY <1>1, <1>a, <1>b, <1>i, <3>1
  <2> QED
    BY <1>b, <2>1, <2>2 DEF InputsInOrder
<1>3. \A i \in 1..(L - 1) : host'.queue[i] = Half' => pump'.ended
  <2>1. \A i \in 1..(L - 1) : i + 1 \in 1..L
    BY <1>t
  <2> QED
    BY <1>a, <1>g, <1>half, <2>1
<1>4. ASSUME NEW n \in 0..(L - 1), \A i \in 1..n : host'.queue[i] \in 1..N
      PROVE  \A i \in 1..(n + 1) : q[i] \in 1..N
  <2> SUFFICES ASSUME NEW i \in 1..(n + 1) PROVE q[i] \in 1..N
    OBVIOUS
  <2>1. CASE i = 1
    BY <1>h, <2>1
  <2>2. CASE i # 1
    <3>1. i - 1 \in 1..n /\ i - 1 \in 1..(L - 1) /\ (i - 1) + 1 = i
      BY <1>t, <2>2
    <3>2. host'.queue[i - 1] = q[i]
      BY <1>a, <3>1
    <3> QED
      BY <1>4, <3>1, <3>2
  <2> QED
    BY <2>1, <2>2
<1>5. ASSUME NEW n \in 1..(L - 1), \A i \in 1..n : host'.queue[i] \in 1..N
      PROVE  host'.queue[n] = (G + 1) + n
  <2>1. n \in 0..(L - 1) /\ n + 1 \in 1..L
    BY <1>t
  <2>2. \A i \in 1..(n + 1) : q[i] \in 1..N
    BY <1>4, <1>5, <2>1
  <2>3. q[n + 1] = G + (n + 1)
    BY <1>g, <2>1, <2>2
  <2> QED
    BY <1>a, <1>t, <2>1, <2>3
<1>6. ASSUME \A i \in 1..(L - 1) : host'.queue[i] \in 1..N
      PROVE  host'.expected = (G + 1) + (L - 1)
  <2>1. L - 1 \in 0..(L - 1) /\ (L - 1) + 1 = L
    BY <1>t
  <2>2. \A i \in 1..((L - 1) + 1) : q[i] \in 1..N
    BY <1>4, <1>6, <2>1
  <2>3. host.expected = G + L
    BY <1>g, <2>1, <2>2
  <2> QED
    BY <1>t, <2>3
<1>7. ~IsClientStream'
  BY DEF IsDuplex, IsClientStream
<1>8. /\ \A n \in 1..(L - 1) :
           (\A i \in 1..n : host'.queue[i] \in 1..N) => host'.queue[n] = (G + 1) + n
      /\ (\A i \in 1..(L - 1) : host'.queue[i] \in 1..N) => host'.expected = (G + 1) + (L - 1)
  BY <1>5, <1>6
<1> QED
  BY <1>a, <1>b, <1>2, <1>3, <1>7, <1>8 DEF GivenInOrder, Plain, q, L, G, N

\* The handler of a duplex call is given the head of the queue.
LEMMA DXHostReadsTurns == ASSUME UploadInv, DXHostReads PROVE HostTurns
<1> DEFINE s == Head(host.queue)
           q == Tail(host.queue)
           h == [host EXCEPT !.queue = q]
           N == call.inputs
<1>0. /\ IsDuplex /\ host.pc = "reading" /\ host.queue # <<>>
      /\ call' = call /\ client' = client /\ pump' = pump
  BY DEF DXHostReads
<1>t. /\ UploadTypeOK /\ GivenInOrder /\ host \in HostState /\ host.queue \in Seq(Nat)
      /\ host.input = "open" /\ host.got \in Seq(Nat)
      /\ N \in Nat /\ net.up \in Seq(Frame) /\ host.sub.queue \in Seq(Frame)
  BY <1>0, HostFields, CallFields, PartTypes DEF UploadInv, UploadTypeOK, GivenInOrder
<1>q. s \in Nat /\ q \in Seq(Nat)
  BY <1>0, <1>t, HeadTailProperties
<1> HIDE DEF q
<1>h. h \in HostState
  BY <1>q, <1>t, HostUpdates
<1>k. /\ h.pc = host.pc /\ h.sub = host.sub /\ h.got = host.got /\ h.queue = q
      /\ h.expected = host.expected /\ h.input = host.input
      /\ h.callError = host.callError /\ h.ended = host.ended
      /\ h.credit = host.credit /\ h.terminated = host.terminated
      /\ h.seq = host.seq /\ h.produced = host.produced
  BY <1>t DEF HostState
<1>c. \/ InputOver(h, "failed")
      \/ s = Half /\ InputOver(h, "ended")
      \/ s \in 1..N /\ InputTaken(h, s)
  BY DEF DXHostReads, q
<1> HIDE DEF h, s, N
<1>r. Shrinks(host.sub.queue, host.sub.queue)
  BY DEF Shrinks
<1>1. ASSUME NEW how \in {"failed", "ended"},
             host' = [h EXCEPT !.pc = "handler", !.input = how], net' = net,
             how = "ended" => pump.ended
      PROVE  HostTurns
  <2>1. host' \in HostState
    BY <1>1, <1>h DEF HostState
  <2>2. /\ host'.pc = "handler" /\ host'.input = how /\ host'.sub = host.sub /\ host'.got = host.got
        /\ host'.queue = q /\ host'.callError = host.callError
        /\ host'.ended = host.ended /\ host'.credit = host.credit
        /\ host'.terminated = host.terminated /\ host'.seq = host.seq
        /\ host'.produced = host.produced
    BY <1>1, <1>h, <1>k DEF HostState
  <2>3. host'.queue = Tail(host.queue)
    BY <2>2 DEF q
  <2> QED
    BY <1>0, <1>1, <1>r, <2>1, <2>2, <2>3, InputOverTurns
<1>2. CASE InputOver(h, "failed")
  BY <1>1, <1>2 DEF InputOver
<1>3. CASE s = Half /\ InputOver(h, "ended")
  <2>1. pump.ended
    <3>1. 1 \in 1..Len(host.queue) /\ host.queue[1] = s
      BY <1>0, <1>t, HeadTailProperties, LenProperties, EmptySeq DEF s
    <3> QED
      BY <1>3, <1>t, <3>1 DEF GivenInOrder
  <2> QED
    BY <1>1, <1>3, <2>1 DEF InputOver
<1>4. CASE s \in 1..N /\ InputTaken(h, s) /\ ~host.connected
  BY <1>1, <1>4 DEF InputTaken
<1>5. CASE s \in 1..N /\ InputTaken(h, s) /\ host.connected
  <2>1. /\ host' = [h EXCEPT !.pc = "handler", !.got = Append(h.got, s)]
        /\ PublishDown(CreditFrame(1))
    BY <1>5 DEF InputTaken
  <2>2. Append(host.got, s) \in Seq(Nat)
    BY <1>q, <1>t, AppendProperties
  <2>3. host' \in HostState
    BY <1>h, <1>k, <2>1, <2>2 DEF HostState
  <2>4. /\ host'.pc = "handler" /\ host'.got = Append(host.got, s)
        /\ host'.sub = host.sub /\ host'.queue = q /\ host'.input = host.input
        /\ host'.expected = host.expected
        /\ host'.callError = host.callError /\ host'.ended = host.ended
        /\ host'.credit = host.credit /\ host'.terminated = host.terminated
        /\ host'.seq = host.seq /\ host'.produced = host.produced
    BY <1>h, <1>k, <2>1 DEF HostState
  <2>5. GivenInOrder'
    BY <1>0, <1>5, <1>t, <2>4, GivenNext DEF s, q, N
  <2>6. UpOut' + 1 <= UpOut
    <3>1. Cardinality(Chosen(host.queue, 1..N))
            = Cardinality(Chosen(q, 1..N)) + (IF s \in 1..N THEN 1 ELSE 0)
      BY <1>0, <1>t, ChosenTail DEF s, q
    <3>2. Cardinality(Chosen(q, 1..N)) \in Nat
      BY <1>q, ChosenFinite
    <3>3. Cardinality(Chosen(host.queue, 1..N)) = Cardinality(Chosen(q, 1..N)) + 1
      BY <1>5, <3>1
    <3>4. Queued = Cardinality(Chosen(host.queue, 1..N)) /\ Queued' = Cardinality(Chosen(q, 1..N))
      BY <1>0, <2>4 DEF Queued, N
    <3>5. net'.up = net.up /\ host'.sub.queue = host.sub.queue
      BY <1>t, <2>1, <2>4, PublishDownType, FrameTypes DEF PublishDown
    <3>6. Count(net.up, "d") \in Nat /\ Count(host.sub.queue, "d") \in Nat
      BY <1>t, CountType
    <3>7. UpOut' = Count(net.up, "d") + Count(host.sub.queue, "d") + Cardinality(Chosen(q, 1..N))
      BY <3>4, <3>5, Zenon DEF UpOut
    <3>8. UpOut = Count(net.up, "d") + Count(host.sub.queue, "d")
                  + (Cardinality(Chosen(q, 1..N)) + 1)
      BY <3>3, <3>4, Zenon DEF UpOut
    <3>9. \A a, b, c \in Int : a + b + c + 1 <= a + b + (c + 1)
      OBVIOUS
    <3> QED
      BY <3>2, <3>6, <3>7, <3>8, <3>9
  <2> QED
    BY <1>0, <1>r, <2>1, <2>3, <2>4, <2>5, <2>6, InputTakenTurns
<1> QED
  BY <1>c, <1>2, <1>3, <1>4, <1>5

\* A signal that is no input is not counted in the window.
LEMMA SignalUncounted ==
  ASSUME UploadTypeOK, call' = call, NEW s \in {Failure, Half},
         host'.queue = Append(host.queue, s)
  PROVE  Queued' = Queued
<1> DEFINE S == 1..call.inputs
<1>1. s \in Nat /\ s \notin S /\ host.queue \in Seq(Nat)
  BY PartTypes, CallFields DEF UploadTypeOK, Failure, Half
<1> HIDE DEF S
<1>2. Cardinality(Chosen(Append(host.queue, s), S))
        = Cardinality(Chosen(host.queue, S)) + (IF s \in S THEN 1 ELSE 0)
  BY <1>1, ChosenAppend
<1>3. Cardinality(Chosen(host.queue, S)) \in Nat
  BY <1>1, ChosenFinite
<1> QED
  BY <1>1, <1>2, <1>3 DEF Queued, S

\* `up` is closed and drained.
LEMMA DXDrainEndsTurns == ASSUME UploadInv, DXDrainEnds PROVE HostTurns
<1> DEFINE h == [host EXCEPT !.drain = "done"]
<1>0. /\ IsDuplex /\ host.drain = "reading"
      /\ call' = call /\ client' = client /\ pump' = pump /\ net' = net
      /\ host' = IF host.terminated THEN h ELSE Signal(h, Failure)
  BY DEF DXDrainEnds
<1>t. /\ UploadTypeOK /\ Windows /\ GivenInOrder /\ host \in HostState
      /\ call.inputs \in Nat /\ host.queue \in Seq(Nat) /\ Failure \in Nat
  BY PartTypes, CallFields DEF UploadInv, UploadTypeOK, Failure
<1>h. h \in HostState
  BY <1>t, HostUpdates
<1>k. /\ h.pc = host.pc /\ h.sub = host.sub /\ h.got = host.got /\ h.queue = host.queue
      /\ h.expected = host.expected /\ h.input = host.input
      /\ h.callError = host.callError /\ h.ended = host.ended
      /\ h.credit = host.credit /\ h.terminated = host.terminated
      /\ h.seq = host.seq /\ h.produced = host.produced
  BY <1>t DEF HostState
<1>i. host.pc # "idle"
  BY <1>0 DEF UploadInv, Untouched
<1> HIDE DEF h
<1>a. Append(host.queue, Failure) \in Seq(Nat)
  BY <1>t, AppendProperties
<1>1. /\ host' \in HostState /\ host'.pc = host.pc /\ host'.sub = host.sub /\ host'.got = host.got
      /\ host'.expected = host.expected /\ host'.input = host.input
      /\ host'.callError = host.callError /\ host'.ended = host.ended
      /\ host'.credit = host.credit /\ host'.terminated = host.terminated
      /\ host'.seq = host.seq /\ host'.produced = host.produced
      /\ host'.queue = host.queue \/ host'.queue = Append(host.queue, Failure)
  <2>1. CASE host' = h
    BY <1>h, <1>k, <2>1
  <2>2. CASE host' = [h EXCEPT !.queue = Append(host.queue, Failure)]
    <3>1. host' \in HostState
      BY <1>a, <1>h, <2>2, HostUpdates
    <3> QED
      BY <1>h, <1>k, <2>2, <3>1 DEF HostState
  <2> QED
    BY <1>0, <1>k, <2>1, <2>2 DEF Signal
<1>2. /\ host'.credit.waiters <= 1 /\ (host'.credit.waiters > 0 => host'.pc = "acquiring")
      /\ HostHas' <= HostHas
  BY <1>1, <1>t, HostWindowKept
<1>3. HostMoves
  BY <1>i, <1>1, <1>2 DEF HostMoves, UploadInv, Opened, Windows, HostInOrder
<1>4. GivenInOrder' /\ Queued' = Queued
  <2>1. CASE host'.queue = host.queue
    <3>1. Queued' = Queued
      BY <1>0, <2>1 DEF Queued
    <3>2. host'.pc = "reading" => host.input = "open"
      BY <1>1, <1>t DEF GivenInOrder
    <3> QED
      BY <1>0, <1>1, <1>t, <2>1, <3>1, <3>2, GivenKept
  <2>2. CASE host'.queue = Append(host.queue, Failure)
    BY <1>0, <1>1, <1>t, <2>2, GivenSignal, SignalUncounted
  <2> QED
    BY <1>1, <2>1, <2>2
<1>5. ErrorFrame \in Frame /\ ErrorFrame.t = "x"
  BY FrameTypes DEF ErrorFrame
<1> QED
  BY <1>0, <1>1, <1>2, <1>3, <1>4, <1>5, HostSaysOnly

\* The timer aborts the call.
LEMMA DXHostExpiresTurns == ASSUME UploadInv, DXHostExpires PROVE HostTurns
<1>0. /\ IsDuplex /\ host.timer
      /\ call' = call /\ client' = client /\ pump' = pump /\ net' = net
      /\ host' = Signal(Aborted([host EXCEPT !.timer = FALSE, !.upError = "timeout",
                                             !.sub = Unsubscribe(@)]), Failure)
  BY DEF DXHostExpires
<1>t. /\ UploadTypeOK /\ Windows /\ GivenInOrder /\ host \in HostState
      /\ call.inputs \in Nat /\ host.queue \in Seq(Nat) /\ Failure \in Nat
      /\ host.sub \in Subscription /\ host.credit \in Controller
  BY PartTypes, CallFields DEF UploadInv, UploadTypeOK, Failure
<1>i. host.pc # "idle"
  BY <1>0 DEF UploadInv, Untouched
<1>s. /\ Unsubscribe(host.sub) \in Subscription /\ Unsubscribe(host.sub).queue = host.sub.queue
      /\ Append(host.queue, Failure) \in Seq(Nat) /\ Cancel(host.credit) \in Controller
  BY <1>t, UnsubscribeLemma, AppendProperties, CancelLemma
<1> DEFINE h1 == [host EXCEPT !.timer = FALSE]
           h2 == [h1 EXCEPT !.upError = "timeout"]
           h3 == [h2 EXCEPT !.sub = Unsubscribe(host.sub)]
           h4 == [h3 EXCEPT !.terminated = TRUE]
           h5 == [h4 EXCEPT !.credit = Cancel(host.credit)]
           h6 == [h5 EXCEPT !.queue = Append(host.queue, Failure)]
<1>1. host' = h6
  BY <1>0, <1>t DEF Signal, Aborted, HostState
<1>2. h6 \in HostState
  <2>1. h1 \in HostState
    BY <1>t, HostUpdates
  <2>2. h2 \in HostState
    <3> HIDE DEF h1
    <3> QED
      BY <2>1, HostUpdates DEF Causes
  <2>3. h3 \in HostState
    <3> HIDE DEF h2
    <3> QED
      BY <1>s, <2>2, HostUpdates
  <2>4. h4 \in HostState
    <3> HIDE DEF h3
    <3> QED
      BY <2>3, HostUpdates
  <2>5. h5 \in HostState
    <3> HIDE DEF h4
    <3> QED
      BY <1>s, <2>4, HostUpdates
  <2>6. h6 \in HostState
    <3> HIDE DEF h5
    <3> QED
      BY <1>s, <2>5, HostUpdates
  <2> QED
    BY <2>6
<1>3. /\ host'.pc = host.pc /\ host'.sub.queue = host.sub.queue /\ host'.got = host.got
      /\ host'.expected = host.expected /\ host'.input = host.input
      /\ host'.callError = host.callError /\ host'.ended = host.ended
      /\ host'.credit = Cancel(host.credit) /\ host'.terminated = TRUE
      /\ host'.seq = host.seq /\ host'.produced = host.produced
      /\ host'.queue = Append(host.queue, Failure)
  BY <1>1, <1>s, <1>t DEF HostState
<1> HIDE DEF h6
<1>4. /\ host'.credit.waiters <= 1 /\ (host'.credit.waiters > 0 => host'.pc = "acquiring")
      /\ HostHas' <= HostHas
  BY <1>3, <1>t, HostWindowKept
<1>5. HostMoves
  BY <1>i, <1>3, <1>4 DEF HostMoves, UploadInv, Opened, HostInOrder
<1>6. GivenInOrder' /\ Queued' = Queued
  BY <1>0, <1>3, <1>t, GivenSignal, SignalUncounted
<1>7. ErrorFrame \in Frame /\ ErrorFrame.t = "x"
  BY FrameTypes DEF ErrorFrame
<1> QED
  BY <1>0, <1>1, <1>2, <1>3, <1>4, <1>5, <1>6, <1>7, HostSaysOnly

\* The call is recorded.
LEMMA DXHostRecordsTurns == ASSUME UploadInv, DXHostRecords PROVE HostTurns
<1> DEFINE r == IF host.callError = "none" THEN "ok" ELSE "error"
<1>0. /\ host.pc = "closing"
      /\ call' = call /\ client' = client /\ pump' = pump /\ net' = net
      /\ host' = [host EXCEPT !.pc = "done", !.recorded = r]
  BY DEF DXHostRecords
<1>t. UploadTypeOK /\ Windows /\ GivenInOrder /\ host \in HostState
  BY DEF UploadInv, UploadTypeOK
<1>r. r \in {"none", "ok", "error"}
  OBVIOUS
<1> HIDE DEF r
<1>1. host' \in HostState
  BY <1>0, <1>r, <1>t DEF HostState
<1>2. /\ host'.pc = "done" /\ host'.sub = host.sub /\ host'.got = host.got
      /\ host'.expected = host.expected /\ host'.input = host.input
      /\ host'.callError = host.callError /\ host'.ended = host.ended
      /\ host'.credit = host.credit /\ host'.terminated = host.terminated
      /\ host'.seq = host.seq /\ host'.produced = host.produced
      /\ host'.queue = host.queue
  BY <1>0, <1>t DEF HostState
<1>3. ~Parked(host.credit)
  BY <1>0, <1>t DEF Windows, Parked
<1>4. /\ host'.credit.waiters <= 1 /\ (host'.credit.waiters > 0 => host'.pc = "acquiring")
      /\ HostHas' <= HostHas
  BY <1>2, <1>3, <1>t, HostWindowKept
<1>5. HostMoves
  BY <1>0, <1>2, <1>4 DEF HostMoves, UploadInv, Opened, Windows
<1>6. GivenInOrder' /\ Queued' = Queued
  <2>1. Queued' = Queued
    BY <1>0, <1>2 DEF Queued
  <2> QED
    BY <1>0, <1>2, <1>t, <2>1, GivenKept
<1>7. ErrorFrame \in Frame /\ ErrorFrame.t = "x"
  BY FrameTypes DEF ErrorFrame
<1> QED
  BY <1>0, <1>1, <1>2, <1>4, <1>5, <1>6, <1>7, HostSaysOnly

\* The handler yields an output and waits for a credit.
LEMMA DXHostYieldsTurns == ASSUME UploadInv, DXHostYields PROVE HostTurns
<1> DEFINE k == Acquire(host.credit)
<1>0. /\ host.pc = "handler"
      /\ call' = call /\ client' = client /\ pump' = pump /\ net' = net
      /\ host' = [host EXCEPT !.pc = "acquiring", !.produced = @ + 1, !.credit = k]
  BY DEF DXHostYields
<1>t. /\ UploadTypeOK /\ Windows /\ GivenInOrder /\ host \in HostState
      /\ host.credit \in Controller /\ host.produced + 1 \in Nat
  BY PartTypes, HostFields DEF UploadInv, UploadTypeOK
<1>a. /\ k \in Controller /\ k.cancelled = host.credit.cancelled
      /\ host.credit.cancelled => k = host.credit
      /\ ~host.credit.cancelled /\ host.credit.credit > 0 =>
           k.credit = host.credit.credit - 1 /\ k.waiters = host.credit.waiters
      /\ ~host.credit.cancelled /\ host.credit.credit = 0 =>
           k.credit = 0 /\ k.waiters = host.credit.waiters + 1
  BY <1>t, AcquireLemma
<1> HIDE DEF k
<1>w. host.credit.waiters = 0
  BY <1>0, <1>t DEF Windows, Controller
<1>1. host' \in HostState
  <2> DEFINE h1 == [host EXCEPT !.pc = "acquiring"]
             h2 == [h1 EXCEPT !.produced = host.produced + 1]
             h3 == [h2 EXCEPT !.credit = k]
  <2>1. h1 \in HostState
    BY <1>t, HostUpdates
  <2>2. h2 \in HostState
    <3> HIDE DEF h1
    <3> QED
      BY <1>t, <2>1, HostUpdates
  <2>3. h3 \in HostState
    <3> HIDE DEF h2
    <3> QED
      BY <1>a, <2>2, HostUpdates
  <2> QED
    BY <1>0, <2>3
<1>2. /\ host'.pc = "acquiring" /\ host'.sub = host.sub /\ host'.got = host.got
      /\ host'.expected = host.expected /\ host'.input = host.input
      /\ host'.callError = host.callError /\ host'.ended = host.ended
      /\ host'.credit = k /\ host'.terminated = host.terminated
      /\ host'.seq = host.seq /\ host'.produced = host.produced + 1
      /\ host'.queue = host.queue
  BY <1>0, <1>t DEF HostState
<1>3. host'.credit.waiters <= 1
  BY <1>2, <1>a, <1>t, <1>w DEF Controller
<1>4. HostHas' <= HostHas
  <2>1. HostHolds = 0
    BY <1>0 DEF HostHolds, Held
  <2>2. HostHolds' \in {0, 1}
    BY DEF HostHolds, Held
  <2>3. host.credit.credit \in Nat
    BY <1>t DEF Controller
  <2>4. HostHas = host.credit.credit + 0 /\ HostHas' = k.credit + HostHolds'
    BY <1>2, <2>1, Zenon DEF HostHas
  <2>5. CASE host.credit.cancelled
    <3>1. HostHolds' = 0
      BY <1>2, <1>a, <2>5 DEF HostHolds, Held
    <3> QED
      BY <1>a, <2>3, <2>4, <2>5, <3>1
  <2>6. CASE ~host.credit.cancelled /\ host.credit.credit > 0
    BY <1>a, <2>2, <2>3, <2>4, <2>6
  <2>7. CASE ~host.credit.cancelled /\ host.credit.credit = 0
    <3>1. k.waiters > 0
      BY <1>a, <1>w, <2>7
    <3>2. HostHolds' = 0
      BY <1>2, <3>1 DEF HostHolds, Held, Parked
    <3> QED
      BY <1>a, <2>4, <2>7, <3>2
  <2> QED
    BY <2>3, <2>5, <2>6, <2>7
<1>5. HostMoves
  BY <1>0, <1>2, <1>3, <1>a DEF HostMoves, UploadInv, Opened, Windows, HostInOrder
<1>6. GivenInOrder' /\ Queued' = Queued
  <2>1. Queued' = Queued
    BY <1>0, <1>2 DEF Queued
  <2> QED
    BY <1>0, <1>2, <1>t, <2>1, GivenKept
<1>7. ErrorFrame \in Frame /\ ErrorFrame.t = "x"
  BY FrameTypes DEF ErrorFrame
<1> QED
  BY <1>0, <1>1, <1>2, <1>4, <1>5, <1>6, <1>7, HostSaysOnly

-------------------------------------------------------------------------------
(* The duplex host: the end of its call.                                       *)

\* The finally of the host releases its window.
LEMMA DXFinally ==
  ASSUME UploadInv, host.pc \in {"handler", "acquiring"}, call' = call, pump' = pump,
         NEW h \in HostState, DXHostFinally(h),
         h.sub = host.sub, h.got = host.got, h.input = host.input,
         h.expected = host.expected, h.queue = host.queue, h.credit = host.credit,
         h.ended = "e" => h.callError = "none"
  PROVE  /\ host' \in HostState /\ HostMoves /\ GivenInOrder' /\ Queued' = Queued
         /\ host'.sub.queue = host.sub.queue /\ HostHas' <= HostHas
         /\ host'.ended = h.ended /\ host'.seq = h.seq
<1>t. /\ UploadTypeOK /\ Windows /\ GivenInOrder
      /\ host.sub \in Subscription /\ host.credit \in Controller
  BY PartTypes DEF UploadInv
<1>s. /\ Unsubscribe(host.sub) \in Subscription /\ Unsubscribe(host.sub).queue = host.sub.queue
      /\ Cancel(host.credit) \in Controller
  BY <1>t, UnsubscribeLemma, CancelLemma
<1> DEFINE h1 == [h EXCEPT !.terminated = TRUE]
           h2 == [h1 EXCEPT !.credit = Cancel(host.credit)]
           h3 == [h2 EXCEPT !.pc = "closing"]
           h4 == [h3 EXCEPT !.timer = FALSE]
           h5 == [h4 EXCEPT !.sub = Unsubscribe(host.sub)]
<1>1. host' = h5
  BY DEF DXHostFinally, Aborted, HostState
<1>2. h5 \in HostState
  <2>1. h1 \in HostState
    BY HostUpdates
  <2>2. h2 \in HostState
    <3> HIDE DEF h1
    <3> QED
      BY <1>s, <2>1, HostUpdates
  <2>3. h3 \in HostState
    <3> HIDE DEF h2
    <3> QED
      BY <2>2, HostUpdates
  <2>4. h4 \in HostState
    <3> HIDE DEF h3
    <3> QED
      BY <2>3, HostUpdates
  <2>5. h5 \in HostState
    <3> HIDE DEF h4
    <3> QED
      BY <1>s, <2>4, HostUpdates
  <2> QED
    BY <2>5
<1>3. /\ host'.pc = "closing" /\ host'.sub.queue = host.sub.queue /\ host'.got = host.got
      /\ host'.expected = host.expected /\ host'.input = host.input
      /\ host'.callError = h.callError /\ host'.ended = h.ended
      /\ host'.credit = Cancel(host.credit) /\ host'.terminated = TRUE
      /\ host'.seq = h.seq /\ host'.queue = host.queue
  BY <1>1, <1>s, <1>t DEF HostState
<1> HIDE DEF h5
<1>4. /\ host'.credit.waiters <= 1 /\ (host'.credit.waiters > 0 => host'.pc = "acquiring")
      /\ HostHas' <= HostHas
  BY <1>3, <1>t, HostWindowKept
<1>5. HostMoves
  BY <1>3, <1>4 DEF HostMoves, UploadInv, Opened
<1>6. GivenInOrder' /\ Queued' = Queued
  <2>1. Queued' = Queued
    BY <1>3 DEF Queued
  <2> QED
    BY <1>3, <1>t, <2>1, GivenKept
<1> QED
  BY <1>1, <1>2, <1>3, <1>4, <1>5, <1>6

\* The producer was released because the call is aborted.
LEMMA DXHostStopsTurns == ASSUME UploadInv, DXHostStops PROVE HostTurns
<1> DEFINE e == IF host.callError = "none" THEN host.upError ELSE host.callError
           h == [host EXCEPT !.callError = e]
<1>0. /\ host.pc = "acquiring"
      /\ call' = call /\ client' = client /\ pump' = pump /\ net' = net
      /\ DXHostFinally(h)
  BY DEF DXHostStops, HoldsDownCredit
<1>t. host \in HostState /\ e \in Causes /\ host.ended = "none"
  BY <1>0, HostFields DEF UploadInv, UploadTypeOK, Opened
<1> HIDE DEF e
<1>1. /\ h \in HostState /\ h.sub = host.sub /\ h.got = host.got /\ h.input = host.input
      /\ h.expected = host.expected /\ h.queue = host.queue /\ h.credit = host.credit
      /\ h.ended = host.ended
  BY <1>t DEF HostState
<1> HIDE DEF h
<1>2. /\ host' \in HostState /\ HostMoves /\ GivenInOrder' /\ Queued' = Queued
      /\ host'.sub.queue = host.sub.queue /\ HostHas' <= HostHas
  BY <1>0, <1>1, <1>t, DXFinally
<1>3. ErrorFrame \in Frame /\ ErrorFrame.t = "x"
  BY FrameTypes DEF ErrorFrame
<1> QED
  BY <1>0, <1>2, <1>3, HostSaysOnly

\* The handler fails.
LEMMA DXHostFailsTurns == ASSUME UploadInv, DXHostFails PROVE HostTurns
<1> DEFINE h == [host EXCEPT !.callError = "handler", !.ended = "x"]
<1>0. /\ host.pc = "handler" /\ HostPublishes(<<ErrorFrame>>)
      /\ call' = call /\ client' = client /\ pump' = pump /\ DXHostFinally(h)
  BY DEF DXHostFails
<1>t. host \in HostState
  BY DEF UploadInv, UploadTypeOK
<1>1. /\ h \in HostState /\ h.sub = host.sub /\ h.got = host.got /\ h.input = host.input
      /\ h.expected = host.expected /\ h.queue = host.queue /\ h.credit = host.credit
      /\ h.ended = "x"
  BY <1>t DEF HostState, Causes
<1> HIDE DEF h
<1>2. /\ host' \in HostState /\ HostMoves /\ GivenInOrder' /\ Queued' = Queued
      /\ host'.sub.queue = host.sub.queue /\ HostHas' <= HostHas
  BY <1>0, <1>1, DXFinally
<1>3. ErrorFrame \in Frame /\ ErrorFrame.t = "x"
  BY FrameTypes DEF ErrorFrame
<1> QED
  BY <1>0, <1>2, <1>3, HostSaysOnly

\* The handler is finished: the client's terminal is forwarded, or `down` ends.
LEMMA DXHostEndsTurns == ASSUME UploadInv, DXHostEnds PROVE HostTurns
<1>0. /\ host.pc = "handler" /\ call' = call /\ client' = client /\ pump' = pump
  BY DEF DXHostEnds
<1>t. /\ host \in HostState /\ host.seq \in Nat /\ host.upError \in Causes
      /\ host.ended = "none" /\ host.callError = "none" /\ net \in NetState
  BY <1>0, HostFields DEF UploadInv, UploadTypeOK, Opened
<1>x. ErrorFrame \in Frame /\ ErrorFrame.t = "x"
  BY FrameTypes DEF ErrorFrame
<1>1. CASE host.upError # "none"
  <2> DEFINE h == [host EXCEPT !.callError = host.upError, !.ended = "x"]
  <2>1. HostPublishes(<<ErrorFrame>>) /\ DXHostFinally(h)
    BY <1>1 DEF DXHostEnds
  <2>2. /\ h \in HostState /\ h.sub = host.sub /\ h.got = host.got /\ h.input = host.input
        /\ h.expected = host.expected /\ h.queue = host.queue /\ h.credit = host.credit
        /\ h.ended = "x"
    BY <1>t DEF HostState
  <2> HIDE DEF h
  <2>3. /\ host' \in HostState /\ HostMoves /\ GivenInOrder' /\ Queued' = Queued
        /\ host'.sub.queue = host.sub.queue /\ HostHas' <= HostHas
    BY <1>0, <2>1, <2>2, DXFinally
  <2> QED
    BY <1>0, <1>x, <2>1, <2>3, HostSaysOnly
<1>2. CASE host.upError = "none" /\ host.connected
  <2> DEFINE h == [host EXCEPT !.ended = "e", !.seq = host.seq + 1]
             f == EndFrame(host.seq)
  <2>1. HostPublishes(<<f>>) /\ DXHostFinally(h)
    BY <1>2 DEF DXHostEnds
  <2>2. /\ h \in HostState /\ h.sub = host.sub /\ h.got = host.got /\ h.input = host.input
        /\ h.expected = host.expected /\ h.queue = host.queue /\ h.credit = host.credit
        /\ h.ended = "e" /\ h.callError = "none" /\ h.seq = host.seq + 1
    <3>1. host.seq + 1 \in Nat
      BY <1>t
    <3>2. h \in HostState
      <4> DEFINE g == [host EXCEPT !.ended = "e"]
      <4>1. g \in HostState
        BY <1>t, HostUpdates
      <4>2. h = [g EXCEPT !.seq = host.seq + 1]
        OBVIOUS
      <4> HIDE DEF g
      <4> QED
        BY <3>1, <4>1, <4>2, HostUpdates
    <3> QED
      BY <1>t, <3>1, <3>2 DEF HostState
  <2>3. f \in Frame /\ f.t = "e" /\ f.seq = host.seq
    BY <1>t, FrameTypes DEF EndFrame
  <2> HIDE DEF h, f
  <2>4. /\ host' \in HostState /\ HostMoves /\ GivenInOrder' /\ Queued' = Queued
        /\ host'.sub.queue = host.sub.queue /\ HostHas' <= HostHas
        /\ host'.ended = "e" /\ host'.seq = f.seq + 1
    BY <1>0, <2>1, <2>2, <2>3, DXFinally
  <2> QED
    BY <1>0, <2>1, <2>3, <2>4, HostSaysOnly
<1>3. CASE host.upError = "none" /\ ~host.connected
  <2> DEFINE h == [host EXCEPT !.callError = "handler"]
  <2>1. net' = net /\ DXHostFinally(h)
    BY <1>3 DEF DXHostEnds, HostPublishes
  <2>2. /\ h \in HostState /\ h.sub = host.sub /\ h.got = host.got /\ h.input = host.input
        /\ h.expected = host.expected /\ h.queue = host.queue /\ h.credit = host.credit
        /\ h.ended = "none"
    BY <1>t DEF HostState, Causes
  <2> HIDE DEF h
  <2>3. /\ host' \in HostState /\ HostMoves /\ GivenInOrder' /\ Queued' = Queued
        /\ host'.sub.queue = host.sub.queue /\ HostHas' <= HostHas
    BY <1>0, <2>1, <2>2, DXFinally
  <2> QED
    BY <1>0, <1>x, <2>1, <2>3, HostSaysOnly
<1> QED
  BY <1>1, <1>2, <1>3

\* The output is published with the credit that was reserved for it.
LEMMA DXHostPublishesTurns == ASSUME UploadInv, DXHostPublishes PROVE HostTurns
<1> DEFINE f == DataFrame(host.seq, host.produced)
<1>0. /\ IsDuplex /\ host.pc = "acquiring" /\ ~Parked(host.credit) /\ ~host.terminated
      /\ HostPublishes(<<f>>)
      /\ call' = call /\ client' = client /\ pump' = pump
  BY DEF DXHostPublishes, HoldsDownCredit
<1>t. /\ UploadTypeOK /\ Windows /\ GivenInOrder
      /\ host \in HostState /\ host.seq \in Nat /\ host.produced \in Nat /\ host.upError \in Causes
      /\ host.ended = "none" /\ host.callError = "none" /\ net \in NetState
      /\ host.produced = host.seq + 1 /\ ~host.credit.cancelled
      /\ host.credit \in Controller /\ net.down \in Seq(Frame) /\ ~IsClientStream
      /\ client.sub.queue \in Seq(Frame)
  BY <1>0, HostFields, PartTypes
     DEF UploadInv, UploadTypeOK, Opened, HostInOrder, Windows, IsDuplex, IsClientStream
<1>f. f \in Frame /\ f.t = "d" /\ f.data = f.seq + 1
  BY <1>t, FrameTypes DEF DataFrame
<1> HIDE DEF f
<1>1. CASE ~host.connected
  <2> DEFINE e == IF host.upError # "none" THEN host.upError ELSE "handler"
             h == [host EXCEPT !.callError = e]
  <2>1. net' = net /\ DXHostFinally(h)
    BY <1>1, <1>0 DEF DXHostPublishes, HostPublishes
  <2>2. e \in Causes
    BY <1>t DEF Causes
  <2> HIDE DEF e
  <2>3. /\ h \in HostState /\ h.sub = host.sub /\ h.got = host.got /\ h.input = host.input
        /\ h.expected = host.expected /\ h.queue = host.queue /\ h.credit = host.credit
        /\ h.ended = "none"
    BY <1>t, <2>2 DEF HostState
  <2> HIDE DEF h
  <2>4. /\ host' \in HostState /\ HostMoves /\ GivenInOrder' /\ Queued' = Queued
        /\ host'.sub.queue = host.sub.queue /\ HostHas' <= HostHas
    BY <1>0, <2>1, <2>3, DXFinally
  <2>5. ErrorFrame \in Frame /\ ErrorFrame.t = "x"
    BY FrameTypes DEF ErrorFrame
  <2> QED
    BY <1>0, <2>1, <2>4, <2>5, HostSaysOnly
<1>2. CASE host.connected
  <2>1. host' = [host EXCEPT !.pc = "handler", !.seq = host.seq + 1]
    BY <1>2 DEF DXHostPublishes
  <2>2. host' \in HostState
    BY <1>t, <2>1 DEF HostState
  <2>3. /\ host'.pc = "handler" /\ host'.sub = host.sub /\ host'.got = host.got
        /\ host'.expected = host.expected /\ host'.input = host.input
        /\ host'.callError = host.callError /\ host'.ended = host.ended
        /\ host'.credit = host.credit /\ host'.terminated = host.terminated
        /\ host'.seq = host.seq + 1 /\ host'.produced = host.produced
        /\ host'.queue = host.queue
    BY <1>t, <2>1 DEF HostState
  <2>4. /\ net' \in NetState /\ net'.up = net.up /\ net'.open = net.open
        /\ net'.down = Append(net.down, f) /\ Members(net'.down) = Members(net.down) \cup {f}
    BY <1>0, <1>2, <1>f, <1>t, HostPublishesOne
  <2>5. UploadTypeOK'
    BY <1>0, <1>t, <2>2, <2>4 DEF UploadTypeOK
  <2>6. TermsNatural /\ TermsNatural'
    BY <1>t, <2>5, TermTypes, TermTypesNext
  <2>7. HostMoves
    BY <1>0, <1>t, <2>3 DEF HostMoves, Windows, Parked, Controller
  <2>8. GivenInOrder'
    BY <1>0, <1>t, <2>3, GivenKept
  <2>9. UpOut' = UpOut /\ DownGrants' = DownGrants /\ UpGrants' = UpGrants
    <3>1. Granted(net'.down) = Granted(net.down) + Grants(f)
      BY <1>f, <1>t, <2>4, GrantedAppend
    <3>2. Grants(f) = 0 /\ Granted(net.down) \in Nat
      BY <1>f, <1>t, GrantedType DEF Grants
    <3>3. Granted(net'.down) = Granted(net.down)
      BY <3>1, <3>2
    <3> QED
      BY <1>0, <2>3, <2>4, <3>3 DEF UpOut, DownGrants, UpGrants, Queued
  <2>10. UpOut' + DownGrants' <= UpOut + DownGrants
    <3>1. UpOut \in Int /\ DownGrants \in Int
      BY <2>6 DEF TermsNatural
    <3>2. \A a, b \in Int : a + b <= a + b
      OBVIOUS
    <3> QED
      BY <2>9, <3>1, <3>2, Zenon
  <2>11. HostHas' + 1 <= HostHas
    <3>1. HostHolds = 1
      BY <1>0, <1>t DEF HostHolds, Held
    <3>2. HostHolds' = 0
      BY <2>3 DEF HostHolds, Held
    <3>3. HostHas = host.credit.credit + 1 /\ HostHas' = host.credit.credit + 0
      BY <2>3, <3>1, <3>2, Zenon DEF HostHas
    <3>4. host.credit.credit \in Nat
      BY <1>t DEF Controller
    <3> QED
      BY <3>3, <3>4
  <2>12. DownOut' = DownOut + 1
    <3>1. Count(net'.down, "d") = Count(net.down, "d") + (IF f.t = "d" THEN 1 ELSE 0)
      BY <1>f, <1>t, <2>4, CountAppend
    <3>2. Count(net.down, "d") \in Nat /\ Count(client.sub.queue, "d") \in Nat
      BY <1>t, CountType
    <3>3. Count(net'.down, "d") = Count(net.down, "d") + 1
      BY <1>f, <3>1
    <3>4. DownOut' = (Count(net.down, "d") + 1) + Count(client.sub.queue, "d")
      BY <1>0, <3>3, Zenon DEF DownOut
    <3> QED
      BY <3>2, <3>4 DEF DownOut
  <2>13. HostHas' + DownOut' + UpGrants' <= HostHas + DownOut + UpGrants
    <3>1. \A a, b, c, x \in Int : x + 1 <= a => x + (b + 1) + c <= a + b + c
      OBVIOUS
    <3>2. HostHas \in Int /\ HostHas' \in Int /\ DownOut \in Int /\ UpGrants \in Int
      BY <2>6 DEF TermsNatural
    <3>3. HostHas' + (DownOut + 1) + UpGrants <= HostHas + DownOut + UpGrants
      BY <2>11, <3>1, <3>2, Zenon
    <3> QED
      BY <2>9, <2>12, <3>3, Zenon
  <2>14. \A g \in Members(net'.down) :
           g \in Members(net.down) \/ (g.t = "d" /\ g.data = g.seq + 1)
    BY <1>f, <2>4
  <2>15. Shrinks(host.sub.queue, host'.sub.queue)
    BY <2>3 DEF Shrinks
  <2> QED
    BY <1>0, <1>t, <2>4, <2>5, <2>7, <2>8, <2>10, <2>13, <2>14, <2>15 DEF HostTurns
<1> QED
  BY <1>1, <1>2

-------------------------------------------------------------------------------
(* The duplex host: drainUp.                                                   *)

\* drainUp takes a frame: what all its cases share.
DrainTakes(f) ==
  /\ host' \in HostState /\ host'.sub = Taken(host.sub)
  /\ host'.pc = host.pc /\ host'.got = host.got /\ host'.input = host.input
  /\ host'.callError = host.callError /\ host'.ended = host.ended
  /\ host'.seq = host.seq /\ host'.produced = host.produced
  /\ \/ /\ f.t = "c" /\ host'.queue = host.queue /\ host'.expected = host.expected
        /\ host'.credit = Grant(host.credit, f.data) /\ host'.terminated = host.terminated
     \/ /\ f.t = "d" /\ f.seq = host.expected /\ host'.queue = Append(host.queue, f.data)
        /\ host'.expected = host.expected + 1
        /\ host'.credit = host.credit /\ host'.terminated = host.terminated
     \/ /\ f.t # "c" /\ (f.t = "e" => host'.queue = Append(host.queue, Half))
        /\ f.t # "e" => host'.queue = Append(host.queue, Failure)
        /\ host'.expected = host.expected
        /\ \/ host'.credit = host.credit /\ host'.terminated = host.terminated
           \/ host'.credit = Cancel(host.credit) /\ host'.terminated = TRUE

\* Every case of drainUp is such a step.
LEMMA DrainLemma ==
  ASSUME UploadInv, DXDrains
  PROVE  DrainTakes(NextFrame(host.sub))
<1> DEFINE f == NextFrame(host.sub)
           h == [host EXCEPT !.sub = Taken(host.sub)]
           last == [h EXCEPT !.drain = "done"]
<1>0. /\ HasFrame(host.sub)
      /\ host' = CASE f.t = "c" -> [h EXCEPT !.credit = Grant(@, f.data)]
                  [] f.t = "d" /\ Consecutive(f) ->
                       Signal([h EXCEPT !.expected = @ + 1], f.data)
                  [] f.t = "d" /\ ~Consecutive(f) -> Signal(last, Failure)
                  [] f.t = "e" -> Signal(h, Half)
                  [] f.t = "a" ->
                       Signal(Aborted([last EXCEPT !.upError = "cancelled"]), Failure)
                  [] f.t = "bad" -> Signal(Aborted(last), Failure)
  BY DEF DXDrains
<1>f. f \in UpFrames /\ f \in Frame /\ Taken(host.sub) \in Subscription
  BY <1>0, HeadOfUp
<1>x. f.t \in {"d", "e", "c", "a", "bad"} /\ f.data \in Nat /\ f.seq \in Nat
  BY <1>f DEF UploadInv, PumpInOrder, Frame, FrameTag
<1>t. /\ host \in HostState /\ host.credit \in Controller /\ host.queue \in Seq(Nat)
      /\ host.expected \in Nat /\ call.inputs \in Nat
  BY HostFields, CallFields DEF UploadInv, UploadTypeOK
<1>a. /\ Grant(host.credit, f.data) \in Controller /\ Cancel(host.credit) \in Controller
      /\ Failure \in Nat /\ Half \in Nat
      /\ \A s \in Nat : Append(host.queue, s) \in Seq(Nat)
  <2>1. Grant(host.credit, f.data) \in Controller /\ Cancel(host.credit) \in Controller
    BY <1>t, <1>x, GrantLemma, CancelLemma
  <2>2. \A s \in Nat : Append(host.queue, s) \in Seq(Nat)
    BY <1>t, AppendProperties
  <2>3. Failure \in Nat /\ Half \in Nat
    BY <1>t DEF Failure, Half
  <2> QED
    BY <2>1, <2>2, <2>3
<1>h. h \in HostState /\ last \in HostState
  <2>1. h \in HostState
    BY <1>f, <1>t, HostUpdates
  <2> HIDE DEF h
  <2> QED
    BY <2>1, HostUpdates
<1>k. /\ h.sub = Taken(host.sub) /\ h.pc = host.pc /\ h.got = host.got
      /\ h.input = host.input /\ h.callError = host.callError /\ h.ended = host.ended
      /\ h.seq = host.seq /\ h.produced = host.produced /\ h.queue = host.queue
      /\ h.expected = host.expected /\ h.credit = host.credit
      /\ h.terminated = host.terminated
  BY <1>t DEF HostState
<1>l. /\ last.sub = Taken(host.sub) /\ last.pc = host.pc /\ last.got = host.got
      /\ last.input = host.input /\ last.callError = host.callError /\ last.ended = host.ended
      /\ last.seq = host.seq /\ last.produced = host.produced /\ last.queue = host.queue
      /\ last.expected = host.expected /\ last.credit = host.credit
      /\ last.terminated = host.terminated
  BY <1>t DEF HostState
<1> HIDE DEF h, last, f
<1>1. CASE f.t = "c"
  <2>1. host' = [h EXCEPT !.credit = Grant(host.credit, f.data)]
    BY <1>0, <1>1, <1>k
  <2>2. host' \in HostState
    BY <1>a, <1>h, <2>1, HostUpdates
  <2> QED
    BY <1>1, <1>h, <1>k, <2>1, <2>2 DEF DrainTakes, HostState, f
<1>2. CASE f.t = "d" /\ f.seq = host.expected
  <2> DEFINE g == [h EXCEPT !.expected = host.expected + 1]
  <2>1. host' = Signal(g, f.data)
    BY <1>0, <1>2, <1>k DEF Consecutive
  <2>2. host.expected + 1 \in Nat
    BY <1>t
  <2>3. g \in HostState /\ g.queue = host.queue
    BY <1>h, <1>k, <2>2 DEF HostState
  <2>4. host' = [g EXCEPT !.queue = Append(host.queue, f.data)]
    BY <2>1, <2>3 DEF Signal
  <2>5. host' \in HostState
    <3> HIDE DEF g
    <3> QED
      BY <1>a, <1>x, <2>3, <2>4, HostUpdates
  <2> QED
    BY <1>2, <1>h, <1>k, <2>4, <2>5 DEF DrainTakes, HostState, f
<1>3. CASE f.t = "d" /\ f.seq # host.expected
  <2>1. host' = [last EXCEPT !.queue = Append(host.queue, Failure)]
    BY <1>0, <1>3, <1>l DEF Consecutive, Signal
  <2>2. host' \in HostState
    BY <1>a, <1>h, <2>1, HostUpdates
  <2> QED
    BY <1>3, <1>h, <1>l, <2>1, <2>2 DEF DrainTakes, HostState, f
<1>4. CASE f.t = "e"
  <2>1. host' = [h EXCEPT !.queue = Append(host.queue, Half)]
    BY <1>0, <1>4, <1>k DEF Signal
  <2>2. host' \in HostState
    BY <1>a, <1>h, <2>1, HostUpdates
  <2> QED
    BY <1>4, <1>h, <1>k, <2>1, <2>2 DEF DrainTakes, HostState, f
<1>5. ASSUME NEW g \in HostState, host' = Signal(Aborted(g), Failure), f.t \in {"a", "bad"},
             g.sub = last.sub, g.pc = last.pc, g.got = last.got, g.input = last.input,
             g.callError = last.callError, g.ended = last.ended, g.seq = last.seq,
             g.produced = last.produced, g.queue = last.queue, g.expected = last.expected,
             g.credit = last.credit
      PROVE  DrainTakes(f)
  <2> DEFINE g1 == [g EXCEPT !.terminated = TRUE]
             g2 == [g1 EXCEPT !.credit = Cancel(host.credit)]
             g3 == [g2 EXCEPT !.queue = Append(host.queue, Failure)]
  <2>1. host' = g3
    BY <1>5, <1>l DEF Signal, Aborted, HostState
  <2>2. g3 \in HostState
    <3>1. g1 \in HostState
      BY <1>5, HostUpdates
    <3>2. g2 \in HostState
      <4> HIDE DEF g1
      <4> QED
        BY <1>a, <3>1, HostUpdates
    <3>3. g3 \in HostState
      <4> HIDE DEF g2
      <4> QED
        BY <1>a, <3>2, HostUpdates
    <3> QED
      BY <3>3
  <2>3. /\ host'.sub = g.sub /\ host'.pc = g.pc /\ host'.got = g.got /\ host'.input = g.input
        /\ host'.callError = g.callError /\ host'.ended = g.ended /\ host'.seq = g.seq
        /\ host'.produced = g.produced /\ host'.expected = g.expected
        /\ host'.credit = Cancel(host.credit) /\ host'.terminated = TRUE
        /\ host'.queue = Append(host.queue, Failure)
    BY <1>5, <2>1 DEF HostState
  <2> HIDE DEF g3
  <2> QED
    BY <1>5, <1>l, <2>1, <2>2, <2>3 DEF DrainTakes
<1>6. CASE f.t = "a"
  <2> DEFINE g == [last EXCEPT !.upError = "cancelled"]
  <2>1. host' = Signal(Aborted(g), Failure)
    BY <1>0, <1>6
  <2>2. g \in HostState
    BY <1>h, HostUpdates DEF Causes
  <2>3. /\ g.sub = last.sub /\ g.pc = last.pc /\ g.got = last.got /\ g.input = last.input
        /\ g.callError = last.callError /\ g.ended = last.ended /\ g.seq = last.seq
        /\ g.produced = last.produced /\ g.queue = last.queue /\ g.expected = last.expected
        /\ g.credit = last.credit
    BY <1>h DEF HostState
  <2> HIDE DEF g
  <2> QED
    BY <1>5, <1>6, <2>1, <2>2, <2>3 DEF f
<1>7. CASE f.t = "bad"
  <2>1. host' = Signal(Aborted(last), Failure)
    BY <1>0, <1>7
  <2> QED
    BY <1>5, <1>7, <1>h, <2>1 DEF f
<1> QED
  BY <1>x, <1>1, <1>2, <1>3, <1>4, <1>6, <1>7 DEF f

\* drainUp: a credit goes back to the window, an input to the queue.
LEMMA DXDrainsTurns == ASSUME UploadInv, DXDrains PROVE HostTurns
<1> DEFINE f == NextFrame(host.sub)
           q == host.sub.queue
           r == Tail(host.sub.queue)
           S == 1..call.inputs
           b == host.pc = "acquiring"
<1>0. /\ IsDuplex /\ host.drain = "reading" /\ HasFrame(host.sub)
      /\ call' = call /\ client' = client /\ pump' = pump /\ net' = net
  BY DEF DXDrains
<1>d. DrainTakes(f)
  BY DrainLemma
<1>t. /\ UploadTypeOK /\ Windows /\ GivenInOrder /\ PumpInOrder
      /\ host \in HostState /\ host.credit \in Controller
      /\ host.queue \in Seq(Nat) /\ call.inputs \in Nat /\ net.up \in Seq(Frame)
  BY PartTypes, CallFields DEF UploadInv, UploadTypeOK
<1>i. host.pc # "idle"
  BY <1>0 DEF UploadInv, Untouched
<1>f. /\ f \in UpFrames /\ f \in Frame /\ f = Head(q)
      /\ host'.sub.queue = r /\ Shrinks(q, r) /\ q \in Seq(Frame) /\ q # <<>>
  BY <1>0, <1>d, HeadOfUp DEF DrainTakes, NextFrame
<1>x. f.data \in Nat /\ f.seq \in Nat
  BY <1>f DEF Frame
<1>q. /\ Count(r, "d") = Count(q, "d") - (IF f.t = "d" THEN 1 ELSE 0)
      /\ Granted(q) = Granted(r) + Grants(f)
      /\ Count(q, "d") \in Nat /\ Count(r, "d") \in Nat /\ r \in Seq(Frame)
      /\ Granted(q) \in Nat /\ Granted(r) \in Nat
  BY <1>f, CountTail, CountType, GrantedTail, GrantedType, HeadTailProperties
<1>u. Count(net.up, "d") \in Nat /\ Granted(net.up) \in Nat /\ Queued \in Nat
  BY <1>t, CountType, GrantedType, ChosenFinite DEF Queued
<1>h. host.credit.credit \in Nat /\ HostHolds \in Nat /\ HostHas = host.credit.credit + HostHolds
  <2>1. HostHolds \in {0, 1}
    BY DEF HostHolds, Held
  <2> QED
    BY <1>t, <2>1 DEF HostHas, Controller
<1>o. /\ UpOut = Count(net.up, "d") + Count(q, "d") + Queued
      /\ UpOut' = Count(net.up, "d") + Count(r, "d") + Queued'
      /\ UpGrants = Granted(net.up) + Granted(q)
      /\ UpGrants' = Granted(net.up) + Granted(r)
  BY <1>0, <1>f, Zenon DEF UpOut, UpGrants
<1>x1. ErrorFrame \in Frame /\ ErrorFrame.t = "x"
  BY FrameTypes DEF ErrorFrame
<1> HIDE DEF f, q, r
<1>1. CASE f.t = "c" /\ host'.queue = host.queue /\ host'.expected = host.expected
           /\ host'.credit = Grant(host.credit, f.data) /\ host'.terminated = host.terminated
  <2>1. /\ host'.credit.cancelled = host.credit.cancelled
        /\ host'.credit.waiters <= 1 /\ (host'.credit.waiters > 0 => b)
        /\ host'.credit.credit + Held(host'.credit, b)
             <= host.credit.credit + Held(host.credit, b) + f.data
        /\ host'.credit \in Controller
    BY <1>1, <1>t, <1>x, GrantHeld DEF Windows
  <2>2. HostMoves
    BY <1>1, <1>d, <1>i, <2>1 DEF HostMoves, DrainTakes, UploadInv, Opened, Windows, HostInOrder
  <2>3. GivenInOrder'
    <3>1. host'.pc = "reading" => host.input = "open"
      BY <1>d, <1>t DEF DrainTakes, GivenInOrder
    <3> QED
      BY <1>0, <1>1, <1>d, <1>t, <3>1, GivenKept DEF DrainTakes
  <2>4. UpOut' <= UpOut
    <3>1. Queued' = Queued
      BY <1>0, <1>1 DEF Queued
    <3> QED
      BY <1>1, <1>o, <1>q, <1>u, <3>1
  <2>5. HostHas' + UpGrants' <= HostHas + UpGrants
    <3>1. Held(host'.credit, b) \in {0, 1} /\ Held(host.credit, b) \in {0, 1}
      BY DEF Held
    <3>2. /\ HostHas = host.credit.credit + Held(host.credit, b)
          /\ HostHas' = host'.credit.credit + Held(host'.credit, b)
      BY <1>d DEF HostHas, HostHolds, DrainTakes
    <3>3. host'.credit.credit \in Nat
      BY <2>1 DEF Controller
    <3>4. UpGrants = Granted(net.up) + (Granted(r) + f.data)
      BY <1>1, <1>o, <1>q DEF Grants
    <3>5. HostHas' <= HostHas + f.data /\ HostHas' \in Int /\ HostHas \in Int
      BY <1>h, <2>1, <3>1, <3>2, <3>3
    <3>6. \A a, x, m, n, k \in Int : x <= a + k => x + (m + n) <= a + (m + (n + k))
      OBVIOUS
    <3>7. Granted(net.up) \in Int /\ Granted(r) \in Int /\ f.data \in Int
      BY <1>q, <1>u, <1>x
    <3>8. HostHas' + (Granted(net.up) + Granted(r))
            <= HostHas + (Granted(net.up) + (Granted(r) + f.data))
      BY <3>5, <3>6, <3>7, Zenon
    <3> QED
      BY <1>o, <3>4, <3>8, Zenon
  <2> QED
    BY <1>0, <1>d, <1>f, <1>x1, <2>2, <2>3, <2>4, <2>5, HostSpeaks DEF DrainTakes, q
<1>k. ASSUME \/ host'.credit = host.credit /\ host'.terminated = host.terminated
             \/ host'.credit = Cancel(host.credit) /\ host'.terminated = TRUE
      PROVE  HostMoves /\ HostHas' + UpGrants' <= HostHas + UpGrants
  <2>1. /\ host'.credit.waiters <= 1 /\ (host'.credit.waiters > 0 => host'.pc = "acquiring")
        /\ HostHas' <= HostHas
    BY <1>d, <1>k, <1>t, HostWindowKept DEF DrainTakes
  <2>2. HostMoves
    BY <1>d, <1>i, <1>k, <2>1 DEF HostMoves, DrainTakes, UploadInv, Opened, Windows, HostInOrder
  <2>3. UpGrants' <= UpGrants
    <3>1. Granted(r) <= Granted(q)
      BY <1>f, ShrinksLemma
    <3> QED
      BY <1>o, <1>q, <1>u, <3>1
  <2>4. \A a, c, x, y \in Int : x <= a /\ y <= c => x + y <= a + c
    OBVIOUS
  <2>5. HostHas \in Int /\ HostHas' \in Int /\ UpGrants \in Int /\ UpGrants' \in Int
    <3>1. UpGrants \in Int /\ UpGrants' \in Int
      <4>1. Granted(net.up) + Granted(q) \in Int /\ Granted(net.up) + Granted(r) \in Int
        BY <1>q, <1>u
      <4> QED
        BY <1>o, <4>1, Zenon
    <3>2. host'.credit \in Controller
      BY <1>d, HostFields DEF DrainTakes
    <3>3. host'.credit.credit \in Nat
      BY <3>2 DEF Controller
    <3>4. HostHolds' \in {0, 1}
      BY DEF HostHolds, Held
    <3>5. HostHas' = host'.credit.credit + HostHolds'
      BY Zenon DEF HostHas
    <3>6. HostHas' \in Int
      BY <3>3, <3>4, <3>5
    <3> QED
      BY <1>h, <3>1, <3>6
  <2> QED
    BY <2>1, <2>2, <2>3, <2>4, <2>5, Zenon
<1>2. CASE f.t = "d" /\ f.seq = host.expected /\ host'.queue = Append(host.queue, f.data)
           /\ host'.expected = host.expected + 1
           /\ host'.credit = host.credit /\ host'.terminated = host.terminated
  <2>1. f.data = host.expected + 1 /\ f.data <= call.inputs /\ host.expected \in Nat
    BY <1>2, <1>f, <1>t, HostFields DEF PumpInOrder
  <2>2. GivenInOrder'
    BY <1>0, <1>2, <1>d, <1>t, <1>x, <2>1, GivenSignal DEF DrainTakes
  <2>3. UpOut' <= UpOut
    <3>1. f.data \in S
      BY <1>t, <1>x, <2>1
    <3> HIDE DEF S
    <3>2. Cardinality(Chosen(Append(host.queue, f.data), S))
            = Cardinality(Chosen(host.queue, S)) + (IF f.data \in S THEN 1 ELSE 0)
      BY <1>t, <1>x, ChosenAppend
    <3>3. Queued' = Queued + 1
      BY <1>0, <1>2, <3>1, <3>2 DEF Queued, S
    <3>4. UpOut' = Count(net.up, "d") + (Count(q, "d") - 1) + (Queued + 1)
      <4>1. Count(r, "d") = Count(q, "d") - 1
        BY <1>2, <1>q
      <4> QED
        BY <1>o, <3>3, <4>1, Zenon
    <3>5. \A a, k, n \in Int : a + (k - 1) + (n + 1) <= a + k + n
      OBVIOUS
    <3>6. Count(net.up, "d") \in Int /\ Count(q, "d") \in Int /\ Queued \in Int
      BY <1>q, <1>u
    <3> QED
      BY <1>o, <3>4, <3>5, <3>6, Zenon
  <2>4. HostMoves /\ HostHas' + UpGrants' <= HostHas + UpGrants
    BY <1>2, <1>k
  <2> QED
    BY <1>0, <1>d, <1>f, <1>x1, <2>2, <2>3, <2>4, HostSpeaks DEF DrainTakes, q
<1>3. CASE /\ f.t # "c" /\ (f.t = "e" => host'.queue = Append(host.queue, Half))
           /\ f.t # "e" => host'.queue = Append(host.queue, Failure)
           /\ host'.expected = host.expected
           /\ \/ host'.credit = host.credit /\ host'.terminated = host.terminated
              \/ host'.credit = Cancel(host.credit) /\ host'.terminated = TRUE
  <2>1. GivenInOrder' /\ Queued' = Queued
    <3>1. CASE f.t = "e"
      <4>1. pump.ended /\ Half \in Nat
        BY <1>f, <1>t, <3>1 DEF PumpInOrder, Half
      <4> QED
        BY <1>0, <1>3, <1>d, <1>t, <3>1, <4>1, GivenSignal, SignalUncounted DEF DrainTakes
    <3>2. CASE f.t # "e"
      <4>1. Failure \in Nat
        BY DEF Failure
      <4> QED
        BY <1>0, <1>3, <1>d, <1>t, <3>2, <4>1, GivenSignal, SignalUncounted DEF DrainTakes
    <3> QED
      BY <3>1, <3>2
  <2>2. UpOut' <= UpOut
    BY <1>o, <1>q, <1>u, <2>1
  <2>3. HostMoves /\ HostHas' + UpGrants' <= HostHas + UpGrants
    BY <1>3, <1>k
  <2> QED
    BY <1>0, <1>d, <1>f, <1>x1, <2>1, <2>2, <2>3, HostSpeaks DEF DrainTakes, q
<1> QED
  BY <1>d, <1>1, <1>2, <1>3 DEF DrainTakes

-------------------------------------------------------------------------------
(* Every step.                                                                 *)

\* The steps of the client and its application.
LEMMA ClientStep == UploadInv /\ (ClientNext \/ DXConsumerNext \/ ClientExpires
                                  \/ ClientConnectionCloses) => UploadInv'
<1> SUFFICES ASSUME UploadInv,
                    ClientNext \/ DXConsumerNext \/ ClientExpires \/ ClientConnectionCloses
             PROVE  UploadInv'
  OBVIOUS
<1>1. CASE ClientOpens
  BY <1>1, ClientOpensKeep
<1>2. CASE ClientTakesGrant
  BY <1>2, ClientTakesGrantKeep
<1>3. CASE DXClientTakesData
  BY <1>3, DXClientTakesDataKeep
<1>4. CASE ClientReturns
  BY <1>4, ClientReturnsTurns, ClientTurnsKeep
<1>5. CASE CSClientNext
  BY <1>5, CSClientTakesResultTurns, CSClientTakesBareEndTurns, CSClientFailsTurns,
     ClientTurnsKeep DEF CSClientNext
<1>6. CASE DXClientTakesEnd \/ DXClientTakesError \/ DXClientDownCloses
  BY <1>6, DXClientTakesEndTurns, DXClientTakesErrorTurns, DXClientDownClosesTurns,
     ClientTurnsKeep
<1>7. CASE DXConsumerNext
  BY <1>7, DXConsumerPullsTurns, DXConsumerLeavesTurns, ClientTurnsKeep DEF DXConsumerNext
<1>8. CASE ClientExpires
  <2>1. client.pc # "idle"
    BY <1>8 DEF ClientExpires, UploadInv, Opened
  <2> QED
    BY <1>8, <2>1, ClientExpiresTurns, ClientTurnsKeep
<1>9. CASE ClientConnectionCloses
  BY <1>9, ClientConnectionClosesTurns, ClientTurnsKeep
<1> QED
  BY <1>1, <1>2, <1>3, <1>4, <1>5, <1>6, <1>7, <1>8, <1>9 DEF ClientNext, DXClientNext

\* The steps of the pump.
LEMMA PumpStep == UploadInv /\ PumpNext => UploadInv'
BY PumpBeginsTurns, PumpInputThrowsTurns, PumpTakesInputTurns, PumpPublishesTurns,
   PumpEndsTurns, PumpTurnsKeep DEF PumpNext

\* The steps of the handler, the serving task and its drain.
LEMMA HostStep == UploadInv /\ (HandlerNext \/ HostNext \/ HostExpires) => UploadInv'
<1> SUFFICES ASSUME UploadInv, HandlerNext \/ HostNext \/ HostExpires PROVE HostTurns
  BY HostTurnsKeep
<1>1. CASE HostPulls
  BY <1>1, HostPullsTurns
<1>2. CASE CSHostReturns \/ CSHostFails
  BY <1>2, CSHostReturnsTurns, CSHostFailsTurns
<1>3. CASE DXHostYields \/ DXHostEnds \/ DXHostFails
  BY <1>3, DXHostYieldsTurns, DXHostEndsTurns, DXHostFailsTurns
<1>4. CASE CSHostReads \/ CSHostInputCloses
  BY <1>4, CSHostReadsTurns, CSHostInputClosesTurns
<1>5. CASE DXHostPublishes \/ DXHostStops \/ DXHostRecords
  BY <1>5, DXHostPublishesTurns, DXHostStopsTurns, DXHostRecordsTurns
<1>6. CASE DXDrains \/ DXDrainEnds \/ DXHostReads
  BY <1>6, DXDrainsTurns, DXDrainEndsTurns, DXHostReadsTurns
<1>7. CASE CSHostExpires \/ DXHostExpires
  BY <1>7, CSHostExpiresTurns, DXHostExpiresTurns
<1> QED
  BY <1>1, <1>2, <1>3, <1>4, <1>5, <1>6, <1>7
     DEF HandlerNext, CSHandlerNext, DXHandlerNext, HostNext, CSInputNext, DXHostNext,
         DXInputNext, HostExpires

\* A stuttering step.
LEMMA StillUpload == UploadInv /\ UNCHANGED vars => UploadInv'
<1> SUFFICES ASSUME UploadInv, UNCHANGED vars PROVE HostRests
  BY HostRestsKeep
<1> QED
  BY DEF HostRests, vars, UploadInv, UploadTypeOK

\* Every step keeps the invariant.
LEMMA UploadStep == UploadInv /\ [Next]_vars => UploadInv'
<1> SUFFICES ASSUME UploadInv, [Next]_vars PROVE UploadInv'
  OBVIOUS
<1>1. CASE ClientNext \/ DXConsumerNext \/ ClientExpires \/ ClientConnectionCloses
  BY <1>1, ClientStep
<1>2. CASE PumpNext
  BY <1>2, PumpStep
<1>3. CASE HandlerNext \/ HostNext \/ HostExpires
  BY <1>3, HostStep
<1>4. CASE HostAccepts
  BY <1>4, CSHostStarts, DXHostStarts, HostStartsKeep DEF HostAccepts
<1>5. CASE HostConnectionCloses \/ HostUnregisters \/ LoseOpen \/ NoResponders
  BY <1>5, HostConnectionClosesKeep, HostUnregistersKeep, LoseOpenKeep, NoRespondersKeep
<1>6. CASE DeliverDown \/ DeliverUp
  BY <1>6, DeliverDownKeep, DeliverUpKeep
<1>7. CASE UNCHANGED vars
  BY <1>7, StillUpload
<1> QED
  BY <1>1, <1>2, <1>3, <1>4, <1>5, <1>6, <1>7 DEF Next, Environment

\* In every state of a clientStream or a duplex call the invariant holds.
THEOREM UploadInvCorrect == Spec => []UploadInv
<1>1. Init => UploadInv
  BY UploadInit
<1>2. UploadInv /\ [Next]_vars => UploadInv'
  BY UploadStep
<1> QED
  BY <1>1, <1>2, PTL DEF Spec

\* Each direction has its own window, and no interleaving of the pump, the serving
\* task, its drain and the application over two shared inboxes, with frames lost or
\* garbled, lets more than it be unconsumed.
THEOREM BothWindowsConserved == Spec => []WindowsConserved
BY UploadInvCorrect, PTL DEF UploadInv

\* The handler is given inputs 1, 2, 3, ... and a clean end of them only after the
\* client's half-close.
THEOREM InputsAreInOrder == Spec => []InputsInOrder
<1>1. UploadInv => InputsInOrder
  BY DEF UploadInv, GivenInOrder
<1> QED
  BY <1>1, UploadInvCorrect, PTL

\* "ok" is told only of a call that the host finished, with every output in order.
THEOREM SuccessIsToldByTheHost == Spec => []SuccessIsTheHosts
<1>1. UploadInv => SuccessIsTheHosts
  BY DEF UploadInv
<1> QED
  BY <1>1, UploadInvCorrect, PTL
===============================================================================
