----------------------------- MODULE StreamLemmas -----------------------------
(***************************************************************************)
(* Lemmas about the operators the streaming calls are built from: counting *)
(* frames of one kind in a FIFO, the inbox subscription, the credit window *)
(* and the sums of its terms.  Every proof about a call cites these.       *)
(***************************************************************************)
EXTENDS FrameSubscription, CreditController, FiniteSetTheorems,
        SequenceTheorems, TLAPS

-------------------------------------------------------------------------------
(* Frames and FIFOs. *)

\* Every frame the two sides build is a frame.
LEMMA FrameTypes ==
  /\ ErrorFrame \in Frame /\ CancelFrame \in Frame /\ Undecodable \in Frame
  /\ \A n \in Nat : EndFrame(n) \in Frame /\ CreditFrame(n) \in Frame
  /\ \A n, m \in Nat : DataFrame(n, m) \in Frame
BY DEF Frame, FrameTag, ErrorFrame, CancelFrame, Undecodable, EndFrame,
       CreditFrame, DataFrame

\* The positions Count counts form a finite set.
LEMMA CountFinite ==
  ASSUME NEW s \in Seq(Frame), NEW tag
  PROVE  /\ IsFiniteSet({i \in 1..Len(s) : s[i].t = tag})
         /\ {i \in 1..Len(s) : s[i].t = tag} \in SUBSET (1..Len(s))
<1>1. IsFiniteSet(1..Len(s))
  BY LenProperties, FS_Interval
<1>2. {i \in 1..Len(s) : s[i].t = tag} \in SUBSET (1..Len(s))
  OBVIOUS
<1> QED
  BY <1>1, <1>2, FS_Subset

\* A count is a natural number.
LEMMA CountType ==
  ASSUME NEW s \in Seq(Frame), NEW tag
  PROVE  Count(s, tag) \in Nat
BY CountFinite, FS_CardinalityType DEF Count

\* An empty FIFO holds no frame of any kind.
LEMMA CountEmpty ==
  ASSUME NEW tag
  PROVE  Count(<<>>, tag) = 0
<1>1. {i \in 1..Len(<<>>) : <<>>[i].t = tag} = {}
  OBVIOUS
<1> QED
  BY <1>1, FS_EmptySet DEF Count

\* Sending one frame adds one to the count of its kind and to no other.
LEMMA CountAppend ==
  ASSUME NEW s \in Seq(Frame), NEW f \in Frame, NEW tag
  PROVE  Count(Append(s, f), tag) = Count(s, tag) + (IF f.t = tag THEN 1 ELSE 0)
<1> DEFINE A == {i \in 1..Len(s) : s[i].t = tag}
           T == Append(s, f)
           B == {i \in 1..Len(T) : T[i].t = tag}
<1>1. /\ Len(s) \in Nat /\ Len(T) = Len(s) + 1 /\ T[Len(s) + 1] = f
      /\ \A i \in 1..Len(s) : T[i] = s[i]
  BY AppendProperties, LenProperties
<1>2. Len(s) + 1 \notin A
  BY <1>1
<1>3. IsFiniteSet(A)
  BY CountFinite
<1>4. Count(s, tag) = Cardinality(A) /\ Count(T, tag) = Cardinality(B)
  BY DEF Count
<1>5. f.t = tag => B = A \cup {Len(s) + 1}
  <2> HAVE f.t = tag
  <2>1. \A i \in B : i \in A \cup {Len(s) + 1}
    BY <1>1
  <2>2. \A i \in A \cup {Len(s) + 1} : i \in B
    BY <1>1
  <2> QED
    BY <2>1, <2>2
<1>6. f.t # tag => B = A
  BY <1>1
<1> HIDE DEF A, B, T
<1>7. Cardinality(A) \in Nat
  BY <1>3, FS_CardinalityType
<1>8. Cardinality(A \cup {Len(s) + 1}) = Cardinality(A) + 1
  BY <1>2, <1>3, FS_AddElement
<1>9. CASE f.t = tag
  <2>1. Cardinality(B) = Cardinality(A) + 1
    BY <1>5, <1>8, <1>9
  <2>2. Count(T, tag) = Count(s, tag) + 1
    BY <2>1, <1>4
  <2> QED
    BY <2>2, <1>9 DEF T
<1>10. CASE f.t # tag
  <2>1. Cardinality(B) = Cardinality(A)
    BY <1>6, <1>10
  <2>2. Count(T, tag) = Count(s, tag) + 0
    BY <2>1, <1>4, <1>7
  <2> QED
    BY <2>2, <1>10 DEF T
<1> QED
  BY <1>9, <1>10

\* Taking the head removes one from the count of its kind and from no other.
LEMMA CountTail ==
  ASSUME NEW s \in Seq(Frame), s # <<>>, NEW tag
  PROVE  Count(Tail(s), tag) = Count(s, tag) - (IF Head(s).t = tag THEN 1 ELSE 0)
<1> DEFINE A == {i \in 1..Len(s) : s[i].t = tag}
           T == Tail(s)
           B == {i \in 1..Len(T) : T[i].t = tag}
           f == [i \in B |-> i + 1]
<1>1. /\ Len(s) \in Nat /\ Len(s) > 0 /\ T \in Seq(Frame)
      /\ Len(T) = Len(s) - 1 /\ \A i \in 1..Len(T) : T[i] = s[i + 1]
      /\ Head(s) = s[1]
  BY HeadTailProperties, LenProperties, EmptySeq
<1>2. IsFiniteSet(A)
  BY CountFinite
<1>3. IsFiniteSet(B)
  BY CountFinite, <1>1
<1>4. \A i \in B : i \in Nat /\ i + 1 \in A \ {1}
  BY <1>1
<1>5. \A j \in A \ {1} : j - 1 \in B /\ (j - 1) + 1 = j
  BY <1>1
<1>6. 1 \in A <=> Head(s).t = tag
  BY <1>1
<1>7. Count(s, tag) = Cardinality(A) /\ Count(T, tag) = Cardinality(B)
  BY DEF Count
<1> HIDE DEF A, B, T
<1>8. ExistsBijection(B, A \ {1})
  <2>1. f \in [B -> A \ {1}]
    BY <1>4
  <2>2. \A i, k \in B : f[i] = f[k] => i = k
    BY <1>4
  <2>3. \A j \in A \ {1} : \E i \in B : f[i] = j
    BY <1>5
  <2> HIDE DEF f
  <2>4. f \in Bijection(B, A \ {1})
    BY <2>1, <2>2, <2>3 DEF Bijection, Injection, Surjection, IsInjective
  <2> QED
    BY <2>4 DEF ExistsBijection
<1>9. Cardinality(A \ {1}) = Cardinality(B)
  BY <1>3, <1>8, FS_Bijection
<1>10. Cardinality(A \ {1}) = IF 1 \in A THEN Cardinality(A) - 1 ELSE Cardinality(A)
  BY <1>2, FS_RemoveElement
<1>11. Cardinality(A) \in Nat
  BY <1>2, FS_CardinalityType
<1>12. Count(T, tag) = Count(s, tag) - (IF Head(s).t = tag THEN 1 ELSE 0)
  BY <1>6, <1>7, <1>9, <1>10, <1>11
<1> QED
  BY <1>12 DEF T

-------------------------------------------------------------------------------
(* The inbox subscription. *)

\* A subscription starts empty, open or closed.
LEMMA SubscriptionStart ==
  /\ NotSubscribed \in Subscription /\ NotSubscribed.queue = <<>>
  /\ Subscribed \in Subscription /\ Subscribed.queue = <<>>
  /\ ~NotSubscribed.open
BY EmptySeq DEF Subscription, NotSubscribed, Subscribed

\* Receive queues the frame of an open inbox and drops that of a closed one.
LEMMA ReceiveLemma ==
  ASSUME NEW sub \in Subscription, NEW f \in Frame
  PROVE  /\ Receive(sub, f) \in Subscription
         /\ Receive(sub, f).open = sub.open
         /\ Receive(sub, f).queue \in {sub.queue, Append(sub.queue, f)}
         /\ ~sub.open => Receive(sub, f) = sub
<1>1. sub.queue \in Seq(Frame) /\ sub.open \in BOOLEAN
  BY DEF Subscription
<1>2. Append(sub.queue, f) \in Seq(Frame)
  BY <1>1, AppendProperties
<1> QED
  BY <1>1, <1>2 DEF Receive, Subscription

\* Closing an inbox keeps what it has queued.
LEMMA UnsubscribeLemma ==
  ASSUME NEW sub \in Subscription
  PROVE  /\ Unsubscribe(sub) \in Subscription
         /\ Unsubscribe(sub).queue = sub.queue
         /\ ~Unsubscribe(sub).open
BY DEF Unsubscribe, Subscription

\* next() takes the head of the queue and leaves the inbox as open as it was.
LEMMA TakenLemma ==
  ASSUME NEW sub \in Subscription, HasFrame(sub)
  PROVE  /\ Taken(sub) \in Subscription
         /\ Taken(sub).open = sub.open
         /\ Taken(sub).queue = Tail(sub.queue)
         /\ NextFrame(sub) \in Frame
         /\ sub.queue \in Seq(Frame) /\ sub.queue # <<>>
<1>1. sub.queue \in Seq(Frame) /\ sub.queue # <<>>
  BY DEF Subscription, HasFrame
<1>2. Tail(sub.queue) \in Seq(Frame) /\ Head(sub.queue) \in Frame
  BY <1>1, HeadTailProperties
<1> QED
  BY <1>1, <1>2 DEF Taken, NextFrame, Subscription

-------------------------------------------------------------------------------
(* The credit window. *)

\* A new window holds its initial credit and parks nobody.
LEMMA NewControllerLemma ==
  ASSUME NEW n \in Nat
  PROVE  /\ NewController(n) \in Controller
         /\ NewController(n).credit = n
         /\ NewController(n).waiters = 0
         /\ NewController(n).cancelled = FALSE
BY DEF Controller, NewController

\* acquire() takes a credit, or parks when there is none; it never overdraws.
LEMMA AcquireLemma ==
  ASSUME NEW c \in Controller
  PROVE  /\ Acquire(c) \in Controller
         /\ Acquire(c).cancelled = c.cancelled
         /\ c.cancelled => Acquire(c) = c
         /\ ~c.cancelled /\ c.credit > 0 =>
              Acquire(c).credit = c.credit - 1 /\ Acquire(c).waiters = c.waiters
         /\ ~c.cancelled /\ c.credit = 0 =>
              Acquire(c).credit = 0 /\ Acquire(c).waiters = c.waiters + 1
<1>1. c.credit \in Nat /\ c.waiters \in Nat /\ c.cancelled \in BOOLEAN
  BY DEF Controller
<1>2. CASE c.cancelled
  BY <1>2 DEF Acquire
<1>3. CASE ~c.cancelled /\ c.credit > 0
  BY <1>1, <1>3 DEF Acquire, Controller
<1>4. CASE ~c.cancelled /\ c.credit = 0
  BY <1>1, <1>4 DEF Acquire, Controller
<1> QED
  BY <1>1, <1>2, <1>3, <1>4

\* grant(n) gives every credit to the window or to a sender it wakes, and a
\* cancelled window nothing.
LEMMA GrantLemma ==
  ASSUME NEW c \in Controller, NEW n \in Nat
  PROVE  /\ Grant(c, n) \in Controller
         /\ Grant(c, n).cancelled = c.cancelled
         /\ c.cancelled => Grant(c, n) = c
         /\ Grant(c, n).waiters <= c.waiters
         /\ ~c.cancelled =>
              Grant(c, n).credit + (c.waiters - Grant(c, n).waiters) = c.credit + n
<1>1. c.credit \in Nat /\ c.waiters \in Nat /\ c.cancelled \in BOOLEAN
  BY DEF Controller
<1>2. CASE c.cancelled
  <2>1. Grant(c, n) = c
    BY <1>2, Zenon DEF Grant
  <2>2. Grant(c, n).waiters <= c.waiters
    BY <1>1, <2>1
  <2> QED
    BY <1>2, <2>1, <2>2, Zenon
<1>3. CASE ~c.cancelled /\ n = 0
  BY <1>1, <1>3 DEF Grant
<1>4. CASE ~c.cancelled /\ n > 0
  <2>1. /\ Woken(c, n) \in Nat
        /\ Woken(c, n) <= c.waiters /\ Woken(c, n) <= c.credit + n
    BY <1>1 DEF Woken
  <2>2. Grant(c, n) = [credit    |-> c.credit + n - Woken(c, n),
                       waiters   |-> c.waiters - Woken(c, n),
                       cancelled |-> c.cancelled]
    <3>1. ~(n <= 0)
      BY <1>4
    <3>2. Grant(c, n) = [c EXCEPT !.credit  = @ + n - Woken(c, n),
                                  !.waiters = @ - Woken(c, n)]
      BY <3>1, <1>4, Zenon DEF Grant
    <3> QED
      BY <3>2 DEF Controller
  <2>3. c.credit + n - Woken(c, n) \in Nat /\ c.waiters - Woken(c, n) \in Nat
    BY <2>1, <1>1
  <2> QED
    BY <1>1, <1>4, <2>1, <2>2, <2>3 DEF Controller
<1> QED
  BY <1>1, <1>2, <1>3, <1>4

\* cancel() releases every parked sender and leaves the credit unused.
LEMMA CancelLemma ==
  ASSUME NEW c \in Controller
  PROVE  /\ Cancel(c) \in Controller
         /\ Cancel(c).credit = c.credit
         /\ Cancel(c).waiters = 0
         /\ Cancel(c).cancelled
BY DEF Cancel, Controller

-------------------------------------------------------------------------------
(* The elements of a FIFO, and how many of them are in a set.                  *)

\* The elements of a FIFO.
Members(s) == {s[i] : i \in DOMAIN s}

\* The positions of a FIFO whose element is in S.
Chosen(q, S) == {i \in 1..Len(q) : q[i] \in S}

\* Appending adds the element, taking the head adds nothing.
LEMMA MembersMove ==
  ASSUME NEW T, NEW s \in Seq(T)
  PROVE  /\ Members(<<>>) = {}
         /\ Members(s) \subseteq T
         /\ \A x \in T : Members(Append(s, x)) = Members(s) \cup {x}
         /\ s # <<>> => Head(s) \in Members(s) /\ Members(Tail(s)) \subseteq Members(s)
<1>1. Members(<<>>) = {} /\ Members(s) \subseteq T
  BY DEF Members
<1>2. ASSUME NEW x \in T PROVE Members(Append(s, x)) = Members(s) \cup {x}
  <2> DEFINE u == Append(s, x)
  <2>1. /\ Len(s) \in Nat /\ DOMAIN u = 1..(Len(s) + 1) /\ DOMAIN s = 1..Len(s)
        /\ u[Len(s) + 1] = x /\ \A n \in 1..Len(s) : u[n] = s[n]
    BY AppendProperties, LenProperties
  <2> HIDE DEF u
  <2>2. \A y \in Members(u) : y \in Members(s) \cup {x}
    BY <2>1 DEF Members
  <2>3. \A y \in Members(s) \cup {x} : y \in Members(u)
    BY <2>1 DEF Members
  <2>4. Members(u) = Members(s) \cup {x}
    BY <2>2, <2>3
  <2> QED
    BY <2>4 DEF u
<1>3. ASSUME s # <<>>
      PROVE  Head(s) \in Members(s) /\ Members(Tail(s)) \subseteq Members(s)
  <2> DEFINE u == Tail(s)
  <2>1. /\ Len(s) \in Nat /\ Len(s) > 0 /\ DOMAIN u = 1..(Len(s) - 1)
        /\ DOMAIN s = 1..Len(s)
        /\ Head(s) = s[1] /\ \A n \in 1..(Len(s) - 1) : u[n] = s[n + 1]
    BY <1>3, HeadTailProperties, LenProperties, EmptySeq
  <2> HIDE DEF u
  <2>2. Head(s) \in Members(s) /\ \A y \in Members(u) : y \in Members(s)
    BY <2>1 DEF Members
  <2> QED
    BY <2>2 DEF u
<1> QED
  BY <1>1, <1>2, <1>3

\* A number of chosen positions.
LEMMA ChosenFinite ==
  ASSUME NEW T, NEW q \in Seq(T), NEW S
  PROVE  IsFiniteSet(Chosen(q, S)) /\ Cardinality(Chosen(q, S)) \in Nat
<1>1. IsFiniteSet(1..Len(q))
  BY LenProperties, FS_Interval
<1>2. Chosen(q, S) \in SUBSET (1..Len(q))
  BY DEF Chosen
<1> QED
  BY <1>1, <1>2, FS_Subset, FS_CardinalityType

\* An empty FIFO has none of them.
LEMMA ChosenEmpty == \A S : Cardinality(Chosen(<<>>, S)) = 0
<1> TAKE S
<1>1. Chosen(<<>>, S) = {}
  BY DEF Chosen
<1> QED
  BY <1>1, FS_EmptySet

\* Appending adds one if the element is in the set.
LEMMA ChosenAppend ==
  ASSUME NEW T, NEW q \in Seq(T), NEW x \in T, NEW S
  PROVE  Cardinality(Chosen(Append(q, x), S))
           = Cardinality(Chosen(q, S)) + (IF x \in S THEN 1 ELSE 0)
<1> DEFINE A == Chosen(q, S)
           B == Chosen(Append(q, x), S)
           u == Append(q, x)
<1>1. /\ Len(q) \in Nat /\ Len(u) = Len(q) + 1 /\ u[Len(q) + 1] = x
      /\ \A i \in 1..Len(q) : u[i] = q[i]
  BY AppendProperties, LenProperties
<1>2. Len(q) + 1 \notin A
  BY <1>1 DEF Chosen
<1>3. IsFiniteSet(A) /\ Cardinality(A) \in Nat
  BY ChosenFinite
<1>4. x \in S => B = A \cup {Len(q) + 1}
  <2> HAVE x \in S
  <2>1. \A i \in B : i \in A \cup {Len(q) + 1}
    BY <1>1 DEF Chosen
  <2>2. \A i \in A \cup {Len(q) + 1} : i \in B
    BY <1>1 DEF Chosen
  <2> QED
    BY <2>1, <2>2
<1>5. x \notin S => B = A
  <2> HAVE x \notin S
  <2>1. \A i \in B : i \in A
    BY <1>1 DEF Chosen
  <2>2. \A i \in A : i \in B
    BY <1>1 DEF Chosen
  <2> QED
    BY <2>1, <2>2
<1> HIDE DEF A, B
<1>6. Cardinality(A \cup {Len(q) + 1}) = Cardinality(A) + 1
  BY <1>2, <1>3, FS_AddElement
<1>7. Cardinality(B) = Cardinality(A) + (IF x \in S THEN 1 ELSE 0)
  <2>1. CASE x \in S
    <3>1. Cardinality(B) = Cardinality(A) + 1
      BY <1>4, <1>6, <2>1
    <3> QED
      BY <2>1, <3>1
  <2>2. CASE x \notin S
    <3>1. Cardinality(B) = Cardinality(A)
      BY <1>5, <2>2
    <3> QED
      BY <1>3, <2>2, <3>1
  <2> QED
    BY <2>1, <2>2
<1> QED
  BY <1>7 DEF A, B

\* Taking the head takes one if it is in the set.
LEMMA ChosenTail ==
  ASSUME NEW T, NEW q \in Seq(T), q # <<>>, NEW S
  PROVE  Cardinality(Chosen(q, S))
           = Cardinality(Chosen(Tail(q), S)) + (IF Head(q) \in S THEN 1 ELSE 0)
<1> DEFINE A == Chosen(q, S)
           u == Tail(q)
           B == Chosen(u, S)
           f == [i \in B |-> i + 1]
<1>1. /\ Len(q) \in Nat /\ Len(q) > 0 /\ u \in Seq(T)
      /\ Len(u) = Len(q) - 1 /\ \A i \in 1..Len(u) : u[i] = q[i + 1]
      /\ Head(q) = q[1]
  BY HeadTailProperties, LenProperties, EmptySeq
<1>2. IsFiniteSet(A) /\ Cardinality(A) \in Nat
  BY ChosenFinite
<1>3. IsFiniteSet(B) /\ Cardinality(B) \in Nat
  BY ChosenFinite, <1>1
<1> HIDE DEF u
<1>4. \A i \in B : i \in Nat /\ i + 1 \in A \ {1}
  BY <1>1 DEF Chosen
<1>5. \A j \in A \ {1} : j - 1 \in B /\ (j - 1) + 1 = j
  BY <1>1 DEF Chosen
<1>6. 1 \in A <=> Head(q) \in S
  BY <1>1 DEF Chosen
<1> HIDE DEF A, B
<1>7. ExistsBijection(B, A \ {1})
  <2>1. f \in [B -> A \ {1}]
    BY <1>4
  <2>2. \A i, k \in B : f[i] = f[k] => i = k
    BY <1>4
  <2>3. \A j \in A \ {1} : \E i \in B : f[i] = j
    BY <1>5
  <2> HIDE DEF f
  <2>4. f \in Bijection(B, A \ {1})
    BY <2>1, <2>2, <2>3 DEF Bijection, Injection, Surjection, IsInjective
  <2> QED
    BY <2>4 DEF ExistsBijection
<1>8. Cardinality(A \ {1}) = Cardinality(B)
  BY <1>3, <1>7, FS_Bijection
<1>9. Cardinality(A \ {1}) = IF 1 \in A THEN Cardinality(A) - 1 ELSE Cardinality(A)
  BY <1>2, FS_RemoveElement
<1>10. Cardinality(A) = Cardinality(B) + (IF Head(q) \in S THEN 1 ELSE 0)
  BY <1>2, <1>3, <1>6, <1>8, <1>9
<1> QED
  BY <1>10 DEF A, B, u

-------------------------------------------------------------------------------
(* Sums, for windows whose terms are too large to add up at once.              *)

\* Sums of three, of which one stays.
LEMMA SumStays ==
  \A a, b, c, x, y \in Int : x + y <= a + b => x + y + c <= a + b + c
OBVIOUS

\* Sums of two.
LEMMA SumsFall ==
  /\ \A a, b, x, y \in Int : x <= a /\ y <= b => x + y <= a + b
  /\ \A a, b, x, y \in Int : x = a - 1 /\ y = b + 1 => x + y <= a + b
OBVIOUS

\* Sums of three of which one grows by what another loses.
LEMMA SumMoves ==
  \A a, b, c, x, y, n \in Int :
    x <= a + n /\ y + n <= b => x + c + y <= a + c + b /\ c + x + y <= c + a + b
OBVIOUS

\* The same of a sum that loses more than it gains.
LEMMA SumShrinks ==
  /\ \A a, b, c, y \in Int : y <= a => y + b + c <= a + b + c
  /\ \A a, b, c, y \in Int : y <= b => a + y + c <= a + b + c
  /\ \A a, b, c, y \in Int : y <= c => a + b + y <= a + b + c
OBVIOUS

\* Sums of two, of which one stays.
LEMMA LessPlus == \A a, b, x \in Int : x <= a => x + b <= a + b
OBVIOUS

===============================================================================
