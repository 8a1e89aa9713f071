-------------------------- MODULE FederationProofs --------------------------
(***************************************************************************)
(* The federation package, for any number of servers, rooms, events, users *)
(* and calls at the same time.                                             *)
(*                                                                         *)
(* FederationJoin: the auth chains of the responses are complete, the      *)
(* handlers panic only for a reason, and a join that nothing overlaps with *)
(* leaves both servers with the same room.                                 *)
(*                                                                         *)
(* FederationServer: the port allocator never gives a name twice in a      *)
(* process and never runs out of attempts, for any port range.             *)
(***************************************************************************)
EXTENDS FederationJoin, FederationServer, SequenceTheorems, FiniteSetTheorems, WellFoundedInduction, TLAPS

-----------------------------------------------------------------------------
(* Numbers, finite sets and sequences *)

\* Every nonempty set of naturals has a least element.
LEMMA HasLeast ==
  ASSUME NEW T \in SUBSET Nat, T # {}
  PROVE  \E x \in T : \A y \in T : x <= y
<1> DEFINE R == OpToRel(<, Nat)
<1>1. IsWellFoundedOn(R, Nat)
  BY NatLessThanWellFounded
<1>2. \A x, y \in Nat : y < x => <<y, x>> \in R
  BY DEF OpToRel
<1> HIDE DEF R
<1>3. PICK x \in T : \A y \in T : ~(<<y, x>> \in R)
  BY <1>1, WFMin
<1>4. \A y \in T : ~(y < x)
  BY <1>2, <1>3
<1>5. QED
  BY <1>4

\* Induction, in the form of a set of numbers: one that contains 0 and with
\* every number the next one contains all.
LEMMA AllNumbers ==
  ASSUME NEW T \in SUBSET Nat, 0 \in T, \A n \in T : n + 1 \in T
  PROVE  \A n \in Nat : n \in T
<1> DEFINE bad == Nat \ T
<1>1. ASSUME bad # {} PROVE FALSE
  <2>1. PICK m \in bad : \A y \in bad : m <= y
    BY <1>1, HasLeast
  <2>2. m \in Nat /\ m # 0 /\ m - 1 \in Nat
    OBVIOUS
  <2>3. m - 1 \in bad => m <= m - 1
    BY <2>1
  <2>4. m - 1 \in T
    BY <2>2, <2>3
  <2>5. (m - 1) + 1 \in T
    BY <2>4
  <2>6. (m - 1) + 1 = m
    BY <2>2
  <2>7. QED
    BY <2>5, <2>6
<1>2. QED
  BY <1>1

\* A finite set as a sequence.
LEMMA SetToSeqFact ==
  ASSUME NEW S, IsFiniteSet(S)
  PROVE  /\ SetToSeq(S) \in Seq(S) /\ Len(SetToSeq(S)) = Cardinality(S) /\ Cardinality(S) \in Nat
         /\ ToSet(SetToSeq(S)) = S
         /\ IsInjective(SetToSeq(S))
<1> DEFINE n == Cardinality(S)
           f == SetToSeq(S)
<1>1. n \in Nat /\ ExistsBijection(1 .. n, S)
  BY FS_CardinalityType
<1>2. \E g \in [1 .. n -> S] : IsInjective(g)
  BY <1>1 DEF ExistsBijection, Bijection, Injection
<1>3. f \in [1 .. n -> S] /\ IsInjective(f)
  BY <1>2 DEF SetToSeq
<1>4. f \in Injection(1 .. n, S)
  BY <1>3 DEF Injection
<1>5. Cardinality(1 .. n) = n
  BY <1>1, FS_Interval
<1>6. f \in Surjection(1 .. n, S)
  BY <1>4, <1>5, FS_Injection
<1> HIDE DEF f, n
<1>7. f \in Seq(S) /\ Len(f) = n /\ DOMAIN f = 1 .. n
  BY <1>1, <1>3
<1>8. ToSet(f) = S
  BY <1>3, <1>6, <1>7 DEF ToSet, Surjection
<1>9. QED
  BY <1>1, <1>3, <1>7, <1>8 DEF f, n

\* A set of numbers up to n is finite.
LEMMA FiniteUpTo ==
  ASSUME NEW n \in Nat, NEW S \in SUBSET (1 .. n)
  PROVE  IsFiniteSet(S) /\ Cardinality(S) \in Nat /\ Cardinality(S) <= n
<1>1. IsFiniteSet(1 .. n) /\ Cardinality(1 .. n) = n
  BY FS_Interval
<1>2. IsFiniteSet(S) /\ Cardinality(S) <= Cardinality(1 .. n)
  BY <1>1, FS_Subset
<1>3. Cardinality(S) \in Nat
  BY <1>2, FS_CardinalityType
<1>4. QED
  BY <1>1, <1>2, <1>3

\* The elements of a concatenation.
LEMMA ConcatFact ==
  ASSUME NEW S, NEW s \in Seq(S), NEW t \in Seq(S)
  PROVE  /\ s \o t \in Seq(S) /\ Len(s \o t) = Len(s) + Len(t)
         /\ \A k \in 1 .. Len(s) : (s \o t)[k] = s[k]
         /\ ToSet(s \o t) = ToSet(s) \cup ToSet(t)
         /\ IsInjective(s) /\ IsInjective(t) /\ ToSet(s) \cap ToSet(t) = {} => IsInjective(s \o t)
<1> DEFINE u == s \o t
<1>1. /\ Len(s) \in Nat /\ Len(t) \in Nat
      /\ DOMAIN s = 1 .. Len(s) /\ DOMAIN t = 1 .. Len(t)
      /\ u \in Seq(S) /\ Len(u) = Len(s) + Len(t) /\ DOMAIN u = 1 .. Len(s) + Len(t)
      /\ \A k \in 1 .. Len(s) + Len(t) : u[k] = IF k <= Len(s) THEN s[k] ELSE t[k - Len(s)]
  BY ConcatProperties, LenProperties
<1> HIDE DEF u
<1>2. \A k \in 1 .. Len(s) : k \in 1 .. Len(s) + Len(t) /\ u[k] = s[k]
  BY <1>1
<1>3. \A k \in 1 .. Len(t) : k + Len(s) \in 1 .. Len(s) + Len(t) /\ u[k + Len(s)] = t[k]
  BY <1>1
<1>4. \A k \in 1 .. Len(s) + Len(t) :
        \/ k \in 1 .. Len(s) /\ u[k] = s[k]
        \/ k - Len(s) \in 1 .. Len(t) /\ u[k] = t[k - Len(s)]
  BY <1>1
<1>5. ToSet(u) = ToSet(s) \cup ToSet(t)
  <2>1. ASSUME NEW k \in DOMAIN u PROVE u[k] \in ToSet(s) \cup ToSet(t)
    BY <1>1, <1>4 DEF ToSet
  <2>2. ASSUME NEW k \in DOMAIN s PROVE s[k] \in ToSet(u)
    BY <1>1, <1>2 DEF ToSet
  <2>3. ASSUME NEW k \in DOMAIN t PROVE t[k] \in ToSet(u)
    BY <1>1, <1>3 DEF ToSet
  <2>4. QED
    BY <2>1, <2>2, <2>3 DEF ToSet
<1>6. ASSUME IsInjective(s), IsInjective(t), ToSet(s) \cap ToSet(t) = {}
      PROVE  IsInjective(u)
  <2>1. SUFFICES ASSUME NEW a \in DOMAIN u, NEW b \in DOMAIN u, u[a] = u[b] PROVE a = b
    BY DEF IsInjective
  <2>2. \A j \in DOMAIN s, k \in DOMAIN t : s[j] # t[k]
    BY <1>6 DEF ToSet
  <2>3. a \in 1 .. Len(s) + Len(t) /\ b \in 1 .. Len(s) + Len(t)
    BY <1>1
  <2>4. CASE a \in 1 .. Len(s) /\ b \in 1 .. Len(s)
    BY <1>1, <1>2, <1>6, <2>1, <2>4 DEF IsInjective
  <2>5. CASE a - Len(s) \in 1 .. Len(t) /\ b - Len(s) \in 1 .. Len(t)
    <3>1. t[a - Len(s)] = t[b - Len(s)]
      BY <1>1, <1>4, <2>1, <2>3, <2>5
    <3>2. a - Len(s) = b - Len(s)
      BY <1>1, <1>6, <2>5, <3>1 DEF IsInjective
    <3>3. QED
      BY <1>1, <2>3, <3>2
  <2>6. QED
    BY <1>1, <1>4, <2>1, <2>2, <2>3, <2>4, <2>5
<1>7. QED
  BY <1>1, <1>2, <1>5, <1>6 DEF u

-----------------------------------------------------------------------------
(* AuthChainForEvents *)

\* Events that refer to events.
ChainInput(evs, ids) ==
  /\ Len(evs) \in Nat
  /\ ids \subseteq 1 .. Len(evs)
  /\ \A e \in 1 .. Len(evs) : evs[e].auth \subseteq 1 .. Len(evs)

\* The state b of the loop after n iterations: the queue is the events given
\* and the chain, which has no event twice; the auth events of the first n
\* events of the queue are in the chain, and no others.
WalkInv(evs, ids, b, n) ==
  /\ b.queue \in Seq(1 .. Len(evs)) /\ b.chain \in Seq(1 .. Len(evs))
  /\ Len(b.queue) = Cardinality(ids) + Len(b.chain)
  /\ ToSet(b.queue) = ids \cup ToSet(b.chain)
  /\ IsInjective(b.chain)
  /\ b.panic = FALSE =>
       /\ \A m \in 1 .. Len(b.queue) : m <= n => evs[b.queue[m]].auth \subseteq ToSet(b.chain)
       /\ \A e \in ToSet(b.chain) : \E d \in ToSet(b.queue) : e \in evs[d].auth

\* The loop begins with the events given.
LEMMA WalkInit ==
  ASSUME NEW evs, NEW ids, ChainInput(evs, ids)
  PROVE  WalkInv(evs, ids, [queue |-> SetToSeq(ids), chain |-> <<>>, panic |-> FALSE], 0)
<1> DEFINE b == [queue |-> SetToSeq(ids), chain |-> <<>>, panic |-> FALSE]
<1>1. IsFiniteSet(ids)
  BY FiniteUpTo DEF ChainInput
<1>2. SetToSeq(ids) \in Seq(ids) /\ Len(SetToSeq(ids)) = Cardinality(ids) /\ ToSet(SetToSeq(ids)) = ids
      /\ Cardinality(ids) \in Nat
  BY <1>1, SetToSeqFact
<1>3. SetToSeq(ids) \in Seq(1 .. Len(evs))
  BY <1>2, SeqMonotonic DEF ChainInput
<1>4. ToSet(<<>>) = {} /\ <<>> \in Seq(1 .. Len(evs)) /\ Len(<<>>) = 0 /\ IsInjective(<<>>)
  BY DEF ToSet, IsInjective
<1>5. b.queue = SetToSeq(ids) /\ b.chain = <<>> /\ b.panic = FALSE
  OBVIOUS
<1> HIDE DEF b
<1>6. \A m \in 1 .. Len(b.queue) : ~(m <= 0)
  BY <1>2, <1>5
<1>7. WalkInv(evs, ids, b, 0)
  BY <1>2, <1>3, <1>4, <1>5, <1>6 DEF WalkInv
<1>8. QED
  BY <1>7 DEF b

\* An iteration takes the auth events of one event of the queue.
LEMMA WalkStep ==
  ASSUME NEW evs, NEW ids, NEW known, NEW b, NEW n \in Nat \ {0}, ChainInput(evs, ids),
         WalkInv(evs, ids, b, n - 1), b.panic \in BOOLEAN
  PROVE  LET c == ChainStep(evs, known, b, n)
         IN WalkInv(evs, ids, c, n) /\ c.panic \in BOOLEAN
<1> DEFINE c == ChainStep(evs, known, b, n)
           new == evs[b.queue[n]].auth \ ToSet(b.chain)
           q == SetToSeq(new)
<1>0. /\ b.queue \in Seq(1 .. Len(evs)) /\ b.chain \in Seq(1 .. Len(evs))
      /\ Len(b.queue) \in Nat /\ Len(b.chain) \in Nat /\ Len(evs) \in Nat
      /\ Len(b.queue) = Cardinality(ids) + Len(b.chain)
      /\ ToSet(b.queue) = ids \cup ToSet(b.chain) /\ IsInjective(b.chain)
  BY DEF WalkInv, ChainInput
<1>1. ASSUME b.panic = TRUE PROVE WalkInv(evs, ids, c, n) /\ c.panic \in BOOLEAN
  <2>1. c = b
    BY <1>1 DEF ChainStep
  <2>2. QED
    BY <1>0, <1>1, <2>1 DEF WalkInv
<1>2. ASSUME b.panic = FALSE /\ n > Len(b.queue) PROVE WalkInv(evs, ids, c, n) /\ c.panic \in BOOLEAN
  <2>1. c = b
    BY <1>2 DEF ChainStep
  <2>2. \A m \in 1 .. Len(b.queue) : m <= n - 1
    BY <1>0, <1>2
  <2>3. QED
    BY <1>0, <1>2, <2>1, <2>2 DEF WalkInv
<1>3. ASSUME b.panic = FALSE /\ n <= Len(b.queue) PROVE WalkInv(evs, ids, c, n) /\ c.panic \in BOOLEAN
  <2>1. c = [queue |-> b.queue \o q, chain |-> b.chain \o q, panic |-> ~(new \subseteq known)]
    BY <1>0, <1>3 DEF ChainStep
  <2>2. c.queue = b.queue \o q /\ c.chain = b.chain \o q /\ c.panic \in BOOLEAN
    BY <2>1
  <2> HIDE DEF c
  <2>3. b.queue[n] \in 1 .. Len(evs) /\ b.queue[n] \in ToSet(b.queue)
    BY <1>0, <1>3 DEF ToSet
  <2>4. new \subseteq 1 .. Len(evs)
    BY <2>3 DEF ChainInput
  <2>5. IsFiniteSet(new)
    BY <1>0, <2>4, FiniteUpTo
  <2> HIDE DEF q
  <2>6. q \in Seq(new) /\ Len(q) \in Nat /\ ToSet(q) = new /\ IsInjective(q)
    BY <2>5, SetToSeqFact DEF q
  <2>7. q \in Seq(1 .. Len(evs))
    BY <2>4, <2>6, SeqMonotonic
  <2> HIDE DEF new
  <2>8. /\ c.queue \in Seq(1 .. Len(evs)) /\ c.chain \in Seq(1 .. Len(evs))
        /\ Len(c.queue) = Len(b.queue) + Len(q) /\ Len(c.chain) = Len(b.chain) + Len(q)
        /\ ToSet(c.queue) = ToSet(b.queue) \cup new /\ ToSet(c.chain) = ToSet(b.chain) \cup new
        /\ \A k \in 1 .. Len(b.queue) : c.queue[k] = b.queue[k]
    <3>1. /\ b.queue \o q \in Seq(1 .. Len(evs)) /\ Len(b.queue \o q) = Len(b.queue) + Len(q)
          /\ ToSet(b.queue \o q) = ToSet(b.queue) \cup ToSet(q)
      <4>1. b.queue \in Seq(1 .. Len(evs))
        BY <1>0
      <4>2. QED
        BY <4>1, <2>7, ConcatFact
    <3>3. \A k \in 1 .. Len(b.queue) : (b.queue \o q)[k] = b.queue[k]
      BY <1>0, <2>6, <2>7
    <3>2. /\ b.chain \o q \in Seq(1 .. Len(evs)) /\ Len(b.chain \o q) = Len(b.chain) + Len(q)
          /\ ToSet(b.chain \o q) = ToSet(b.chain) \cup ToSet(q)
      BY <1>0, <2>7, ConcatFact
    <3>4. QED
      BY <2>2, <2>6, <3>1, <3>2, <3>3
  <2>9. IsInjective(c.chain)
    <3>1. ToSet(b.chain) \cap ToSet(q) = {}
      BY <2>6 DEF new
    <3>2. QED
      BY <1>0, <2>2, <2>6, <2>7, <3>1, ConcatFact
  <2>10. Len(c.queue) = Cardinality(ids) + Len(c.chain)
    <3>1. Cardinality(ids) \in Nat
      BY FiniteUpTo DEF ChainInput
    <3>2. QED
      BY <1>0, <2>6, <2>8, <3>1
  <2>11. ToSet(c.queue) = ids \cup ToSet(c.chain)
    BY <1>0, <2>8
  <2>12. /\ \A m \in 1 .. Len(b.queue) : m <= n - 1 => evs[b.queue[m]].auth \subseteq ToSet(b.chain)
         /\ \A e \in ToSet(b.chain) : \E d \in ToSet(b.queue) : e \in evs[d].auth
    BY <1>3 DEF WalkInv
  <2>13. ASSUME NEW m \in 1 .. Len(c.queue), m <= n PROVE evs[c.queue[m]].auth \subseteq ToSet(c.chain)
    <3>0. m \in 1 .. Len(b.queue)
      BY <1>0, <1>3, <2>6, <2>8, <2>13
    <3>1. m \in 1 .. Len(b.queue) /\ c.queue[m] = b.queue[m]
      BY <2>8, <3>0
    <3>2. CASE m = n
      BY <2>8, <3>1, <3>2 DEF new
    <3>3. CASE m <= n - 1
      BY <2>8, <2>12, <3>1, <3>3
    <3>4. QED
      BY <1>0, <2>13, <3>1, <3>2, <3>3
  <2>14. ASSUME NEW e \in ToSet(c.chain) PROVE \E d \in ToSet(c.queue) : e \in evs[d].auth
    BY <2>3, <2>8, <2>12 DEF new
  <2>15. WalkInv(evs, ids, c, n)
    BY <2>8, <2>9, <2>10, <2>11, <2>13, <2>14 DEF WalkInv
  <2>16. QED
    BY <2>2, <2>15
<1> HIDE DEF c
<1>4. WalkInv(evs, ids, c, n) /\ c.panic \in BOOLEAN
  <2>1. \/ b.panic = TRUE
        \/ b.panic = FALSE /\ n > Len(b.queue)
        \/ b.panic = FALSE /\ n <= Len(b.queue)
    BY <1>0
  <2>2. QED
    BY <1>1, <1>2, <1>3, <2>1
<1>5. QED
  BY <1>4 DEF c

\* The loop of AuthChainForEvents is defined by its iterations.
LEMMA WalkDefined ==
  ASSUME NEW evs, NEW known, NEW start, NEW last \in Nat
  PROVE  \E f : f = [n \in 0 .. last |->
                       IF n = 0 THEN start ELSE ChainStep(evs, known, f[n - 1], n)]
<1> DEFINE Rec(f, m) == f = [n \in 0 .. m |-> IF n = 0 THEN start ELSE ChainStep(evs, known, f[n - 1], n)]
           T == {m \in Nat : \E f : Rec(f, m)}
<1>1. 0 \in T
  <2> DEFINE f0 == [n \in 0 .. 0 |-> start]
  <2>1. \A n \in 0 .. 0 : n = 0
    OBVIOUS
  <2>2. f0 = [n \in 0 .. 0 |-> IF n = 0 THEN start ELSE ChainStep(evs, known, f0[n - 1], n)]
    BY <2>1
  <2>3. Rec(f0, 0)
    BY <2>2
  <2>4. QED
    BY <2>3
<1>2. ASSUME NEW m \in T PROVE m + 1 \in T
  <2>1. m \in Nat /\ \E f : Rec(f, m)
    OBVIOUS
  <2>2. PICK f : Rec(f, m)
    BY <2>1
  <2> DEFINE g == [n \in 0 .. m + 1 |-> IF n = m + 1 THEN ChainStep(evs, known, f[m], m + 1) ELSE f[n]]
  <2>3. ASSUME NEW n \in 0 .. m + 1
        PROVE  g[n] = IF n = 0 THEN start ELSE ChainStep(evs, known, g[n - 1], n)
    <3>1. CASE n = m + 1
      <4>1. m \in 0 .. m + 1 /\ m # m + 1 /\ n - 1 = m /\ n # 0
        BY <2>1, <3>1
      <4>2. g[n - 1] = f[m]
        BY <4>1
      <4>3. g[n] = ChainStep(evs, known, f[m], n)
        BY <3>1
      <4> HIDE DEF g
      <4>4. QED
        BY <4>1, <4>2, <4>3
    <3>2. CASE n # m + 1
      <4>1. n \in 0 .. m
        BY <2>1, <3>2
      <4>2. g[n] = f[n]
        BY <3>2
      <4>3. f[n] = IF n = 0 THEN start ELSE ChainStep(evs, known, f[n - 1], n)
        BY <2>2, <4>1
      <4>4. n # 0 => n - 1 \in 0 .. m + 1 /\ n - 1 # m + 1
        BY <2>1, <4>1
      <4>5. n # 0 => g[n - 1] = f[n - 1]
        BY <4>4
      <4> HIDE DEF g
      <4>6. QED
        BY <4>2, <4>3, <4>5
    <3>3. QED
      BY <3>1, <3>2
  <2>4. DOMAIN g = 0 .. m + 1 /\ g = [n \in DOMAIN g |-> g[n]]
    OBVIOUS
  <2> HIDE DEF g
  <2>5. g = [n \in 0 .. m + 1 |-> IF n = 0 THEN start ELSE ChainStep(evs, known, g[n - 1], n)]
    BY <2>3, <2>4
  <2>6. Rec(g, m + 1)
    BY <2>5
  <2>7. QED
    BY <2>1, <2>6
<1> HIDE DEF T
<1>3. \A n \in Nat : n \in T
  <2>1. T \in SUBSET Nat
    BY DEF T
  <2>2. QED
    BY <1>1, <1>2, <2>1, AllNumbers
<1>4. \E f : Rec(f, last)
  BY <1>3 DEF T
<1>5. QED
  BY <1>4

\* AuthChainForEvents ends with the last of a series of iterations.
LEMMA WalkFunction ==
  ASSUME NEW evs, NEW ids, NEW known, Cardinality(ids) + Len(evs) \in Nat
  PROVE  \E f :
           /\ AuthChainForEvents(evs, ids, known) = f[Cardinality(ids) + Len(evs)]
           /\ f[0] = [queue |-> SetToSeq(ids), chain |-> <<>>, panic |-> FALSE]
           /\ \A n \in 1 .. Cardinality(ids) + Len(evs) : f[n] = ChainStep(evs, known, f[n - 1], n)
<1> DEFINE last == Cardinality(ids) + Len(evs)
           start == [queue |-> SetToSeq(ids), chain |-> <<>>, panic |-> FALSE]
           bfs[n \in 0 .. last] == IF n = 0 THEN start ELSE ChainStep(evs, known, bfs[n - 1], n)
<1>1. AuthChainForEvents(evs, ids, known) = bfs[last]
  BY DEF AuthChainForEvents
<1> HIDE DEF last, start
<1>2. bfs = [n \in 0 .. last |-> IF n = 0 THEN start ELSE ChainStep(evs, known, bfs[n - 1], n)]
  BY WalkDefined DEF last
<1> HIDE DEF bfs
<1>3. last \in Nat /\ 0 \in 0 .. last /\ \A n \in 1 .. last : n \in 0 .. last /\ n # 0
  BY DEF last
<1>4. bfs[0] = start /\ \A n \in 1 .. last : bfs[n] = ChainStep(evs, known, bfs[n - 1], n)
  BY <1>2, <1>3
<1>5. QED
  BY <1>1, <1>4 DEF last, start

\* A pigeonhole: a sequence of numbers up to n without repetition has at most n
\* elements, and as many as there are.
LEMMA InjectiveLen ==
  ASSUME NEW n \in Nat, NEW s \in Seq(1 .. n), IsInjective(s)
  PROVE  Len(s) <= n /\ Cardinality(ToSet(s)) = Len(s)
<1> DEFINE T == ToSet(s)
<1>1. T \subseteq 1 .. n
  BY DEF ToSet
<1>2. IsFiniteSet(T) /\ Cardinality(T) \in Nat /\ Cardinality(T) <= n
  BY <1>1, FiniteUpTo
<1>3. Len(s) \in Nat /\ DOMAIN s = 1 .. Len(s)
  OBVIOUS
<1>4. s \in [1 .. Len(s) -> T]
  BY <1>3 DEF ToSet
<1>5. s \in Bijection(1 .. Len(s), T)
  <2>1. s \in Injection(1 .. Len(s), T)
    BY <1>3, <1>4 DEF Injection, IsInjective
  <2>2. \A t \in T : \E k \in 1 .. Len(s) : s[k] = t
    BY <1>3 DEF ToSet
  <2>3. QED
    BY <1>4, <2>1, <2>2 DEF Bijection, Surjection
<1>6. IsFiniteSet(1 .. Len(s)) /\ Cardinality(1 .. Len(s)) = Len(s)
  <2> DEFINE m == Len(s)
  <2> HIDE DEF m
  <2>1. m \in Nat
    BY <1>3 DEF m
  <2>2. IsFiniteSet(1 .. m) /\ Cardinality(1 .. m) = m
    BY <2>1, FS_Interval
  <2>3. QED
    BY <2>2 DEF m
<1>7. Cardinality(T) = Len(s)
  <2>1. ExistsBijection(1 .. Len(s), T)
    BY <1>5 DEF ExistsBijection
  <2>2. QED
    BY <1>6, <2>1, FS_Bijection
<1>8. QED
  BY <1>2, <1>7

\* What AuthChainForEvents returns, if it does not panic: each event once, the
\* auth events of the events given and of the chain itself, and nothing else.
LEMMA ChainCorrect ==
  ASSUME NEW evs, NEW ids, NEW known, ChainInput(evs, ids)
  PROVE  LET b == AuthChainForEvents(evs, ids, known)
         IN /\ b.panic \in BOOLEAN
            /\ b.panic = FALSE =>
                 /\ b.chain \in Seq(Nat)
                 /\ ToSet(b.chain) \subseteq 1 .. Len(evs)
                 /\ Cardinality(ToSet(b.chain)) = Len(b.chain)
                 /\ ToSet(b.chain) = UNION {evs[e].auth : e \in ids \cup ToSet(b.chain)}
<1> DEFINE last == Cardinality(ids) + Len(evs)
           b == AuthChainForEvents(evs, ids, known)
<1>1. Len(evs) \in Nat /\ Cardinality(ids) \in Nat /\ last \in Nat
  BY FiniteUpTo DEF ChainInput
<1> HIDE DEF b
<1>2. PICK f : /\ b = f[last]
               /\ f[0] = [queue |-> SetToSeq(ids), chain |-> <<>>, panic |-> FALSE]
               /\ \A n \in 1 .. last : f[n] = ChainStep(evs, known, f[n - 1], n)
  BY <1>1, WalkFunction DEF b
<1> HIDE DEF last
<1> DEFINE T == {n \in Nat : n <= last => WalkInv(evs, ids, f[n], n) /\ f[n].panic \in BOOLEAN}
<1>3. 0 \in T
  <2>1. WalkInv(evs, ids, f[0], 0)
    BY <1>2, WalkInit
  <2>2. f[0].panic \in BOOLEAN
    BY <1>2
  <2>3. QED
    BY <2>1, <2>2
<1>4. ASSUME NEW n \in T PROVE n + 1 \in T
  <2>1. n \in Nat /\ n + 1 \in Nat \ {0} /\ (n + 1) - 1 = n
    OBVIOUS
  <2>2. SUFFICES ASSUME n + 1 <= last PROVE WalkInv(evs, ids, f[n + 1], n + 1) /\ f[n + 1].panic \in BOOLEAN
    BY <2>1
  <2>3. n <= last /\ n + 1 \in 1 .. last
    BY <1>1, <2>1, <2>2
  <2>4. WalkInv(evs, ids, f[n], n) /\ f[n].panic \in BOOLEAN
    BY <2>3
  <2>5. f[n + 1] = ChainStep(evs, known, f[n], n + 1)
    BY <1>2, <2>1, <2>3
  <2> HIDE DEF T
  <2>6. QED
    BY <2>1, <2>4, <2>5, WalkStep
<1>5. T \in SUBSET Nat
  OBVIOUS
<1> HIDE DEF T
<1>6. last \in T
  BY <1>1, <1>3, <1>4, <1>5, AllNumbers
<1>7. WalkInv(evs, ids, b, last) /\ b.panic \in BOOLEAN
  BY <1>1, <1>2, <1>6 DEF T
<1>8. ASSUME b.panic = FALSE
      PROVE  /\ b.chain \in Seq(Nat)
             /\ ToSet(b.chain) \subseteq 1 .. Len(evs)
             /\ Cardinality(ToSet(b.chain)) = Len(b.chain)
             /\ ToSet(b.chain) = UNION {evs[e].auth : e \in ids \cup ToSet(b.chain)}
  <2>1. /\ b.queue \in Seq(1 .. Len(evs)) /\ b.chain \in Seq(1 .. Len(evs))
        /\ Len(b.queue) = Cardinality(ids) + Len(b.chain)
        /\ ToSet(b.queue) = ids \cup ToSet(b.chain)
        /\ IsInjective(b.chain)
        /\ \A m \in 1 .. Len(b.queue) : m <= last => evs[b.queue[m]].auth \subseteq ToSet(b.chain)
        /\ \A e \in ToSet(b.chain) : \E d \in ToSet(b.queue) : e \in evs[d].auth
    BY <1>7, <1>8 DEF WalkInv
  <2>2. Len(b.chain) \in Nat /\ Len(b.chain) <= Len(evs) /\ Cardinality(ToSet(b.chain)) = Len(b.chain)
    BY <1>1, <2>1, InjectiveLen
  <2>3. Len(b.queue) \in Nat /\ Len(b.queue) <= last
    BY <1>1, <2>1, <2>2 DEF last
  <2>4. \A d \in ToSet(b.queue) : evs[d].auth \subseteq ToSet(b.chain)
    <3>1. SUFFICES ASSUME NEW m \in DOMAIN b.queue PROVE evs[b.queue[m]].auth \subseteq ToSet(b.chain)
      BY DEF ToSet
    <3>2. m \in 1 .. Len(b.queue) /\ m <= last
      BY <1>1, <2>1, <2>3
    <3>3. QED
      BY <2>1, <3>2
  <2>5. ToSet(b.chain) \subseteq 1 .. Len(evs)
    BY <2>1 DEF ToSet
  <2>6. ToSet(b.chain) = UNION {evs[e].auth : e \in ids \cup ToSet(b.chain)}
    BY <2>1, <2>4
  <2>7. b.chain \in Seq(Nat)
    BY <2>1, SeqMonotonic
  <2>8. QED
    BY <2>2, <2>5, <2>6, <2>7
<1>9. QED
  BY <1>7, <1>8 DEF b

\* A walk that begins in a set of known events, which has the auth events of
\* its events, does not leave it and does not panic.
LEMMA NoPanic ==
  ASSUME NEW evs, NEW ids, NEW known, ChainInput(evs, ids), NEW C, ids \subseteq C, C \subseteq known,
         \A e \in C : evs[e].auth \subseteq C
  PROVE  AuthChainForEvents(evs, ids, known).panic = FALSE
<1> DEFINE last == Cardinality(ids) + Len(evs)
           b == AuthChainForEvents(evs, ids, known)
<1>1. Len(evs) \in Nat /\ Cardinality(ids) \in Nat /\ last \in Nat
  BY FiniteUpTo DEF ChainInput
<1> HIDE DEF b
<1>2. PICK f : /\ b = f[last]
               /\ f[0] = [queue |-> SetToSeq(ids), chain |-> <<>>, panic |-> FALSE]
               /\ \A n \in 1 .. last : f[n] = ChainStep(evs, known, f[n - 1], n)
  <2>1. last \in Nat
    BY <1>1
  <2>2. QED
    BY <2>1, WalkFunction, SMTT(30) DEF b
<1> HIDE DEF last
<1> DEFINE Good(n) == WalkInv(evs, ids, f[n], n) /\ f[n].panic = FALSE /\ ToSet(f[n].queue) \subseteq C
           T == {n \in Nat : n <= last => Good(n)}
<1>3. 0 \in T
  <2>1. WalkInv(evs, ids, f[0], 0)
    BY <1>2, WalkInit
  <2>2. f[0].panic = FALSE /\ f[0].chain = <<>>
    BY <1>2
  <2>3. ToSet(f[0].queue) = ids \cup ToSet(f[0].chain)
    BY <2>1 DEF WalkInv
  <2>4. ToSet(<<>>) = {}
    BY DEF ToSet
  <2>5. Good(0)
    BY <2>1, <2>2, <2>3, <2>4
  <2>6. QED
    BY <2>5
<1>4. ASSUME NEW n \in T PROVE n + 1 \in T
  <2>1. n \in Nat /\ n + 1 \in Nat \ {0} /\ (n + 1) - 1 = n
    OBVIOUS
  <2>2. SUFFICES ASSUME n + 1 <= last PROVE Good(n + 1)
    BY <2>1
  <2>3. n <= last /\ n + 1 \in 1 .. last
    BY <1>1, <2>1, <2>2
  <2>4. WalkInv(evs, ids, f[n], n) /\ f[n].panic = FALSE /\ ToSet(f[n].queue) \subseteq C
    BY <2>3
  <2>5. f[n + 1] = ChainStep(evs, known, f[n], n + 1)
    BY <1>2, <2>1, <2>3
  <2> DEFINE c == f[n]
             d == f[n + 1]
             new == evs[c.queue[n + 1]].auth \ ToSet(c.chain)
             q == SetToSeq(new)
  <2> HIDE DEF T, c, d
  <2>6. WalkInv(evs, ids, c, n) /\ c.panic = FALSE /\ ToSet(c.queue) \subseteq C /\ d = ChainStep(evs, known, c, n + 1)
    BY <2>4, <2>5 DEF c, d
  <2>7. WalkInv(evs, ids, d, n + 1)
    BY <2>1, <2>6, WalkStep
  <2>8. d.panic = FALSE /\ ToSet(d.queue) \subseteq C
    <3>1. CASE n + 1 > Len(c.queue)
      <4>1. d = c
        BY <2>6, <3>1 DEF ChainStep
      <4>2. QED
        BY <2>6, <4>1
    <3>2. CASE ~(n + 1 > Len(c.queue))
      <4>1. d = [queue |-> c.queue \o q, chain |-> c.chain \o q, panic |-> ~(new \subseteq known)]
        BY <2>6, <3>2 DEF ChainStep
      <4>2. d.queue = c.queue \o q /\ d.panic = ~(new \subseteq known)
        BY <4>1
      <4>3. c.queue \in Seq(1 .. Len(evs))
        BY <2>6 DEF WalkInv
      <4>4. c.queue[n + 1] \in ToSet(c.queue) /\ c.queue[n + 1] \in 1 .. Len(evs)
        BY <2>1, <3>2, <4>3 DEF ToSet
      <4>5. new \subseteq C
        BY <2>6, <4>4
      <4>6. new \subseteq 1 .. Len(evs)
        BY <4>4 DEF ChainInput
      <4>7. IsFiniteSet(new)
        BY <1>1, <4>6, FiniteUpTo
      <4> HIDE DEF new
      <4>8. q \in Seq(new) /\ ToSet(q) = new
        BY <4>7, SetToSeqFact
      <4> HIDE DEF q
      <4>9. q \in Seq(1 .. Len(evs))
        BY <4>6, <4>8, SeqMonotonic
      <4>10. ToSet(c.queue \o q) = ToSet(c.queue) \cup ToSet(q)
        BY <4>3, <4>9, ConcatFact
      <4>11. ToSet(d.queue) \subseteq C
        BY <2>6, <4>2, <4>5, <4>8, <4>10
      <4>12. new \subseteq known
        BY <4>5
      <4>13. QED
        BY <4>2, <4>11, <4>12
    <3>3. QED
      BY <3>1, <3>2
  <2>9. QED
    BY <2>7, <2>8 DEF d
<1>5. T \in SUBSET Nat
  OBVIOUS
<1> HIDE DEF T, Good
<1>6. last \in T
  BY <1>1, <1>3, <1>4, <1>5, AllNumbers
<1>7. Good(last)
  BY <1>1, <1>6 DEF T
<1>8. QED
  BY <1>2, <1>7 DEF Good, b

-----------------------------------------------------------------------------
(* The invariant *)

\* The memberships of events.
Memberships == {"none", "join", "invite", "leave"}

\* The events, rooms and local variables as records.
EventRecords ==
  [tuple : Tuples \cup {Message}, membership : Memberships,
   depth : Nat, prev : Nat, auth : SUBSET Nat]

RoomRecords ==
  [made : BOOLEAN, state : [Tuples -> Nat], timeline : Seq(Nat), depth : Nat, extremity : Nat]

CallRecords ==
  [op : {"none", "create", "join", "leave", "transaction", "eventAuth"}, srv : ServerNames, user : Users,
   partial : BOOLEAN, ev : Nat, room : Nat, snap : SUBSET Nat, known : SUBSET Nat,
   chain : Seq(Nat), servers : SUBSET ServerNames, pdus : Seq(Nat)]

\* Events refer to earlier ones only.
EventsOK(evs) ==
  /\ evs \in Seq(EventRecords)
  /\ \A e \in 1 .. Len(evs) : evs[e].prev \in 0 .. e - 1 /\ evs[e].auth \subseteq 1 .. e - 1

\* A room holds events, its state each under its own (type, state_key) pair.
RoomOK(evs, room) ==
  /\ room \in RoomRecords
  /\ \A k \in Tuples : room.state[k] # 0 =>
       room.state[k] \in 1 .. Len(evs) /\ evs[room.state[k]].tuple = k
  /\ ToSet(room.timeline) \subseteq 1 .. Len(evs)
  /\ room.extremity \in 0 .. Len(evs)

\* All rooms.
RoomsOK(evs, rms) == rms \in Seq(RoomRecords) /\ \A r \in 1 .. Len(rms) : RoomOK(evs, rms[r])

\* A chain as the property asks for it, of events signed so far.
Closed(evs, ids, chain) ==
  /\ ids \subseteq 1 .. Len(evs) /\ ToSet(chain) \subseteq 1 .. Len(evs)
  /\ Cardinality(ToSet(chain)) = Len(chain)
  /\ ToSet(chain) = UNION {evs[e].auth : e \in ids \cup ToSet(chain)}

\* What is known of the local variables l of a call at c.
CallOK(evs, rms, c, l) ==
  /\ l.snap \subseteq 1 .. Len(evs)
  /\ ToSet(l.pdus) \subseteq 0 .. Len(evs)
  /\ c \in {"send", "state", "append", "heads", "answered", "returned", "leaving"} => l.ev \in 1 .. Len(evs)
  /\ c \in {"copy", "chain", "servers", "state", "append", "heads", "leaving"} => l.room \in 1 .. Len(rms)
  /\ c \in {"send", "servers", "answered", "returned"} => l.op = "join"
  /\ c \in {"copy", "chain"} => l.op \in {"join", "eventAuth"}
  /\ c = "pdus" => l.op = "transaction"
  /\ c = "leaving" => l.op = "leave"
  /\ c = "state" => evs[l.ev].tuple # Message
  /\ l.op = "join" =>
       /\ l.ev \in 1 .. Len(evs)
       /\ l.user \in Guests /\ l.srv = ServerOf[l.user]
       /\ evs[l.ev].tuple = Member(l.user)
  /\ l.op = "join" /\ c \in {"servers", "state", "append", "heads"} => Closed(evs, l.snap, l.chain)
  /\ c = "heads" => l.ev \in ToSet(rms[l.room].timeline)

\* A result of a transaction is of an event that a room has.
ResultOK(rms, x) == x.room \in 1 .. Len(rms) /\ x.ev \in ToSet(rms[x.room].timeline)

\* What holds whatever overlaps with what.
CoreInv ==
  /\ config \in Configs
  /\ EventsOK(events) /\ RoomsOK(events, rooms)
  /\ roomOf \in [ServerNames -> 0 .. Len(rooms)] /\ roomOf[Resident] # 0
  /\ pc \in [Procs -> PCs] /\ loc \in [Procs -> CallRecords]
  /\ \A p \in Procs : CallOK(events, rooms, pc[p], loc[p])
  /\ ops \in [Kinds -> Nat]
  /\ \A x \in results : ResultOK(rooms, x)
  /\ \A a \in answers : Closed(events, a.state, a.chain)

\* A call that nothing overlaps with is the only one.
AloneInv ==
  /\ alone \in [Procs -> BOOLEAN]
  /\ \A p, q \in Procs : alone[p] /\ pc[p] # "idle" /\ q # p => pc[q] = "idle"

\* A state event of a made room is in its timeline, or about to be.
MadeStored ==
  \A r \in 1 .. Len(rooms) : rooms[r].made =>
    \A k \in Tuples : rooms[r].state[k] # 0 =>
      \/ rooms[r].state[k] \in ToSet(rooms[r].timeline)
      \/ \E q \in Procs : pc[q] = "append" /\ loc[q].room = r /\ loc[q].ev = rooms[r].state[k]

\* A call that nothing overlaps with asks for the chain of events that the
\* timeline of a made room has, and finds the timeline in eventsByID.
Copied(room, c, l) ==
  c \in {"copy", "chain"} /\ room.made =>
    /\ l.snap \subseteq ToSet(room.timeline)
    /\ c = "chain" => l.known = ToSet(room.timeline)

\* Copied, of every call that nothing overlaps with.
CopyInv == \A p \in Procs : alone[p] => Copied(rooms[loc[p].room], pc[p], loc[p])

\* A join that nothing overlaps with, between make_join and its return: there
\* is the room of the resident server.  A partial join does not send all pairs.
Sends(cfg, k) == ~(cfg.partial /\ IsMember(k))

\* The joined servers of the state that is sent.
SentServers(evs, ids) ==
  {ServerOf[u] : u \in {v \in Users :
     \E e \in ids : evs[e].tuple = Member(v) /\ evs[e].membership = "join"}}

\* Up to the write of the state, the state is what is sent.
BeforeWrite(cfg, evs, there, l) ==
  /\ evs[l.ev].depth = there.depth + 1
  /\ l.snap = StateEvents(there, cfg.partial)

\* After it, the state has the join event and otherwise what was sent.
AfterWrite(cfg, evs, there, l) ==
  /\ there.state[Member(l.user)] = l.ev
  /\ \A k \in Tuples \ {Member(l.user)} :
       there.state[k] # 0 /\ Sends(cfg, k) => there.state[k] \in l.snap
  /\ \A x \in l.snap :
       /\ evs[x].tuple \in Tuples /\ Sends(cfg, evs[x].tuple)
       /\ evs[x].tuple # Member(l.user) => there.state[evs[x].tuple] = x

\* The servers of the response.
ListedServers(cfg, evs, l) ==
  l.servers = IF cfg.omitServers THEN {Resident}
              ELSE IF cfg.partial THEN l.servers
              ELSE SentServers(evs, l.snap)

\* What is known of a join at c, with the room there.
JoinStage(cfg, evs, there, c, l) ==
  /\ c = "send" => evs[l.ev].depth = there.depth + 1 /\ \A k \in Tuples : there.state[k] # l.ev
  /\ c \notin {"send", "returned"} => l.ev \notin l.snap
  /\ c \in {"copy", "chain", "servers", "state"} => BeforeWrite(cfg, evs, there, l)
  /\ c \in {"append", "heads", "answered"} => AfterWrite(cfg, evs, there, l)
  /\ c \in {"append", "heads"} => evs[l.ev].depth = there.depth + 1
  /\ c \in {"state", "append", "heads", "answered"} => ListedServers(cfg, evs, l)
  /\ c = "answered" => there.extremity = l.ev /\ there.depth = evs[l.ev].depth

\* The same of a call, if it is a join.
Staged(cfg, evs, rms, home, c, l) ==
  l.op = "join" /\ c # "idle" =>
    /\ c \notin {"send", "returned"} => l.room = home
    /\ JoinStage(cfg, evs, rms[home], c, l)

\* Staged, of every call that nothing overlaps with.
StageInv ==
  \A p \in Procs : alone[p] => Staged(config, events, rooms, roomOf[Resident], pc[p], loc[p])

\* JoinedView of one call, at the end of which its server has the room here.
Viewed(cfg, evs, here, there, l) ==
  /\ \A k \in Tuples :
       here.state[k] = IF cfg.partial /\ IsMember(k) /\ k # Member(l.user) THEN 0 ELSE there.state[k]
  /\ here.extremity = there.extremity /\ here.depth = there.depth
  /\ l.ev \notin l.snap
  /\ ListedServers(cfg, evs, l)

\* The inductive invariant.  JoinedView says what a join ends with, so StageInv
\* follows it through its steps; PanicsExplained rests on what the walk starts
\* from, so CopyInv and MadeStored relate state, timeline and copy; AloneInv
\* says why nothing else changes them meanwhile.
FederationInv ==
  /\ CoreInv /\ AloneInv /\ MadeStored /\ CopyInv /\ StageInv
  /\ PanicsExplained /\ JoinedView

-----------------------------------------------------------------------------
(* Growth *)

\* Events and rooms are added and never taken away.
EventsGrow(evs, evs2) ==
  /\ Len(evs) \in Nat /\ Len(evs2) \in Nat /\ Len(evs) <= Len(evs2)
  /\ \A e \in 1 .. Len(evs) : evs2[e] = evs[e]

RoomsGrow(rms, rms2) ==
  /\ Len(rms) \in Nat /\ Len(rms2) \in Nat /\ Len(rms) <= Len(rms2)
  /\ \A r \in 1 .. Len(rms) : ToSet(rms[r].timeline) \subseteq ToSet(rms2[r].timeline)

\* What an event is it remains.
LEMMA EventRange ==
  ASSUME NEW evs, NEW evs2, EventsGrow(evs, evs2)
  PROVE  /\ 1 .. Len(evs) \subseteq 1 .. Len(evs2) /\ 0 .. Len(evs) \subseteq 0 .. Len(evs2)
         /\ \A e \in 1 .. Len(evs) : e \in 1 .. Len(evs2) /\ evs2[e] = evs[e]
  BY DEF EventsGrow

\* A room is one for later events as well.
LEMMA RoomOKGrows ==
  ASSUME NEW evs, NEW evs2, NEW room, EventsGrow(evs, evs2), RoomOK(evs, room)
  PROVE  RoomOK(evs2, room)
  BY EventRange DEF RoomOK

\* So are rooms.
LEMMA RoomsOKGrow ==
  ASSUME NEW evs, NEW evs2, NEW rms, EventsGrow(evs, evs2), RoomsOK(evs, rms)
  PROVE  RoomsOK(evs2, rms)
  BY RoomOKGrows DEF RoomsOK

\* A closed chain stays closed.
LEMMA ClosedGrows ==
  ASSUME NEW evs, NEW evs2, NEW ids, NEW chain, EventsGrow(evs, evs2), Closed(evs, ids, chain)
  PROVE  Closed(evs2, ids, chain)
<1>0. ids \subseteq 1 .. Len(evs) /\ ToSet(chain) \subseteq 1 .. Len(evs)
  BY DEF Closed
<1>1. \A e \in ids \cup ToSet(chain) : evs2[e] = evs[e]
  <2>1. \A e \in 1 .. Len(evs) : evs2[e] = evs[e]
    BY DEF EventsGrow
  <2>2. QED
    BY <1>0, <2>1
<1>2. UNION {evs2[e].auth : e \in ids \cup ToSet(chain)} = UNION {evs[e].auth : e \in ids \cup ToSet(chain)}
  BY <1>1
<1>3. ids \subseteq 1 .. Len(evs2) /\ ToSet(chain) \subseteq 1 .. Len(evs2)
  BY <1>0, EventRange
<1>4. QED
  BY <1>2, <1>3 DEF Closed

\* A call's local variables remain what they are.
LEMMA CallOKGrows ==
  ASSUME NEW evs, NEW evs2, NEW rms, NEW rms2, NEW c, NEW l,
         EventsGrow(evs, evs2), RoomsGrow(rms, rms2), CallOK(evs, rms, c, l)
  PROVE  CallOK(evs2, rms2, c, l)
<1>1. /\ 1 .. Len(evs) \subseteq 1 .. Len(evs2) /\ 0 .. Len(evs) \subseteq 0 .. Len(evs2)
      /\ \A e \in 1 .. Len(evs) : e \in 1 .. Len(evs2) /\ evs2[e] = evs[e]
  BY EventRange
<1>2. \A r \in 1 .. Len(rms) : r \in 1 .. Len(rms2) /\ ToSet(rms[r].timeline) \subseteq ToSet(rms2[r].timeline)
  BY DEF RoomsGrow
<1>3. Closed(evs, l.snap, l.chain) => Closed(evs2, l.snap, l.chain)
  BY ClosedGrows
<1>4. l.snap \subseteq 1 .. Len(evs2) /\ ToSet(l.pdus) \subseteq 0 .. Len(evs2)
  BY <1>1 DEF CallOK
<1>5. l.op = "join" =>
       /\ l.ev \in 1 .. Len(evs2)
       /\ l.user \in Guests /\ l.srv = ServerOf[l.user]
       /\ evs2[l.ev].tuple = Member(l.user)
  BY <1>1 DEF CallOK
<1>6. c \in {"send", "state", "append", "heads", "answered", "returned", "leaving"} => l.ev \in 1 .. Len(evs2)
  BY <1>1 DEF CallOK
<1>7. c \in {"copy", "chain", "servers", "state", "append", "heads", "leaving"} => l.room \in 1 .. Len(rms2)
  BY <1>2 DEF CallOK
<1>8. c = "state" => evs2[l.ev].tuple # Message
  BY <1>1 DEF CallOK
<1>9. c = "heads" => l.ev \in ToSet(rms2[l.room].timeline)
  BY <1>2 DEF CallOK
<1>10. QED
  BY <1>3, <1>4, <1>5, <1>6, <1>7, <1>8, <1>9 DEF CallOK

\* What a step does to one call, to events, rooms and the histories.
LEMMA CoreStep ==
  ASSUME CoreInv, NEW p \in Procs, NEW c \in PCs, NEW l \in CallRecords,
         config' = config,
         EventsOK(events'), EventsGrow(events, events'),
         RoomsOK(events', rooms'), RoomsGrow(rooms, rooms'),
         roomOf' \in [ServerNames -> 0 .. Len(rooms')], roomOf'[Resident] # 0,
         pc' = [pc EXCEPT ![p] = c], loc' = [loc EXCEPT ![p] = l],
         CallOK(events', rooms', c, l),
         ops' \in [Kinds -> Nat],
         \A x \in results' : x \in results \/ ResultOK(rooms', x),
         \A a \in answers' : a \in answers \/ Closed(events', a.state, a.chain)
  PROVE  CoreInv'
<1>1. pc' \in [Procs -> PCs] /\ loc' \in [Procs -> CallRecords]
  BY DEF CoreInv
<1>2. ASSUME NEW q \in Procs PROVE CallOK(events', rooms', pc'[q], loc'[q])
  <2>1. CASE q = p
    BY <2>1 DEF CoreInv
  <2>2. CASE q # p
    <3>1. pc'[q] = pc[q] /\ loc'[q] = loc[q] /\ CallOK(events, rooms, pc[q], loc[q])
      BY <2>2 DEF CoreInv
    <3>2. CallOK(events', rooms', pc[q], loc[q])
      BY <3>1, CallOKGrows
    <3>3. QED
      BY <3>1, <3>2
  <2>3. QED
    BY <2>1, <2>2
<1>3. ASSUME NEW x \in results' PROVE ResultOK(rooms', x)
  <2>1. CASE x \in results
    <3>1. x.room \in 1 .. Len(rooms) /\ x.ev \in ToSet(rooms[x.room].timeline)
      BY <2>1 DEF CoreInv, ResultOK
    <3>2. x.room \in 1 .. Len(rooms')
      BY <3>1 DEF RoomsGrow
    <3>3. ToSet(rooms[x.room].timeline) \subseteq ToSet(rooms'[x.room].timeline)
      BY <3>1 DEF RoomsGrow
    <3>4. QED
      BY <3>1, <3>2, <3>3 DEF ResultOK
  <2>2. QED
    BY <2>1
<1>4. ASSUME NEW a \in answers' PROVE Closed(events', a.state, a.chain)
  <2>1. CASE a \in answers
    <3>1. Closed(events, a.state, a.chain)
      BY <2>1 DEF CoreInv
    <3>2. QED
      BY <3>1, ClosedGrows
  <2>2. QED
    BY <2>1
<1>5. config' \in Configs
  BY DEF CoreInv
<1>6. QED
  BY <1>1, <1>2, <1>3, <1>4, <1>5 DEF CoreInv, EventsOK, RoomsOK, RoomOK, Closed, ResultOK

-----------------------------------------------------------------------------
(* Events and rooms *)

\* The pairs of the state are those of state events.
LEMMA TupleFacts ==
  /\ Message \notin Tuples /\ ~IsMember(Message)
  /\ Create \in Tuples /\ JoinRules \in Tuples /\ PowerLevels \in Tuples
  /\ \A u \in Users : Member(u) \in Tuples /\ IsMember(Member(u))
  /\ \A u, v : Member(u) = Member(v) => u = v
<1>1. Message[1] = "m.room.message" /\ Create[1] = "m.room.create" /\ JoinRules[1] = "m.room.join_rules"
      /\ PowerLevels[1] = "m.room.power_levels" /\ \A u : Member(u)[1] = "m.room.member" /\ Member(u)[2] = u
  BY DEF Message, Create, JoinRules, PowerLevels, Member
<1>2. \A k \in Tuples : k[1] # "m.room.message"
  BY <1>1 DEF Tuples
<1>3. \A u, v : Member(u) = Member(v) => u = v
  BY <1>1
<1>4. QED
  BY <1>1, <1>2, <1>3 DEF Tuples, IsMember

\* A new event that refers to events comes behind them.
LEMMA AppendEvent ==
  ASSUME NEW evs, EventsOK(evs), NEW x \in EventRecords,
         x.prev \in 0 .. Len(evs), x.auth \subseteq 1 .. Len(evs)
  PROVE  /\ EventsOK(Append(evs, x)) /\ EventsGrow(evs, Append(evs, x))
         /\ Len(evs) \in Nat /\ Len(Append(evs, x)) = Len(evs) + 1
         /\ Append(evs, x)[Len(evs) + 1] = x
<1> DEFINE evs2 == Append(evs, x)
<1>1. evs \in Seq(EventRecords) /\ Len(evs) \in Nat
  BY DEF EventsOK
<1>2. /\ evs2 \in Seq(EventRecords) /\ Len(evs2) = Len(evs) + 1
      /\ \A e \in 1 .. Len(evs) : evs2[e] = evs[e]
      /\ evs2[Len(evs) + 1] = x
  BY <1>1
<1> HIDE DEF evs2
<1>3. ASSUME NEW e \in 1 .. Len(evs2) PROVE evs2[e].prev \in 0 .. e - 1 /\ evs2[e].auth \subseteq 1 .. e - 1
  <2>1. CASE e \in 1 .. Len(evs)
    BY <1>2, <2>1 DEF EventsOK
  <2>2. CASE e = Len(evs) + 1
    BY <1>1, <1>2, <2>2
  <2>3. QED
    BY <1>1, <1>2, <2>1, <2>2
<1>4. EventsOK(evs2)
  BY <1>2, <1>3 DEF EventsOK
<1>5. EventsGrow(evs, evs2)
  BY <1>1, <1>2 DEF EventsGrow
<1>6. QED
  BY <1>1, <1>2, <1>4, <1>5 DEF evs2

\* ProtoEventCreator makes an event that rests on the room's.
LEMMA ProtoOK ==
  ASSUME NEW evs, EventsOK(evs), NEW room, RoomOK(evs, room), NEW domainless, NEW tuple \in Tuples \cup {Message},
         NEW sender \in Users, NEW membership \in Memberships
  PROVE  LET x == ProtoEventCreator(room, domainless, tuple, sender, membership)
         IN /\ x \in EventRecords /\ x.prev \in 0 .. Len(evs) /\ x.auth \subseteq 1 .. Len(evs)
            /\ x.tuple = tuple /\ x.membership = membership /\ x.depth = room.depth + 1
<1> DEFINE needed == StateNeeded(tuple, sender, membership) \ (IF domainless THEN {Create} ELSE {})
           x == ProtoEventCreator(room, domainless, tuple, sender, membership)
           auth == AuthEvents(room, needed)
<1>1. needed \subseteq Tuples
  <2>1. IsMember(tuple) => tuple \in Tuples
    BY TupleFacts
  <2>2. {Create, PowerLevels, Member(sender)} \subseteq Tuples /\ {JoinRules} \subseteq Tuples
    BY TupleFacts
  <2>3. QED
    BY <2>1, <2>2 DEF StateNeeded
<1> HIDE DEF needed
<1>2. auth \subseteq 1 .. Len(evs)
  BY <1>1 DEF AuthEvents, RoomOK
<1>3. Len(evs) \in Nat
  BY DEF EventsOK
<1>4. room.depth + 1 \in Nat /\ room.extremity \in Nat /\ room.extremity \in 0 .. Len(evs)
  BY <1>3 DEF RoomOK, RoomRecords
<1>5. auth \in SUBSET Nat
  BY <1>2, <1>3
<1>6. x = [tuple |-> tuple, membership |-> membership, depth |-> room.depth + 1,
           prev |-> room.extremity, auth |-> auth]
  BY DEF ProtoEventCreator, needed
<1> HIDE DEF x, auth
<1>7. x \in EventRecords
  BY <1>4, <1>5, <1>6 DEF EventRecords
<1>8. /\ x.prev = room.extremity /\ x.auth = auth /\ x.tuple = tuple /\ x.membership = membership
      /\ x.depth = room.depth + 1
  BY <1>6
<1>9. QED
  BY <1>2, <1>4, <1>7, <1>8 DEF x

\* The fields of a room.
LEMMA RoomFields ==
  ASSUME NEW room \in RoomRecords
  PROVE  /\ room.made \in BOOLEAN /\ room.state \in [Tuples -> Nat] /\ room.timeline \in Seq(Nat)
         /\ room.depth \in Nat /\ room.extremity \in Nat
  BY DEF RoomRecords

\* What ReplaceCurrentState changes, and what it leaves.
LEMMA ReplaceCurrentStateFact ==
  ASSUME NEW evs, NEW room, RoomOK(evs, room), NEW e \in 1 .. Len(evs), evs[e].tuple \in Tuples, Len(evs) \in Nat
  PROVE  LET new == ReplaceCurrentState(room, evs, e)
         IN /\ RoomOK(evs, new)
            /\ new.made = room.made /\ new.timeline = room.timeline
            /\ new.depth = room.depth /\ new.extremity = room.extremity
            /\ new.state[evs[e].tuple] = e
            /\ \A k \in Tuples : k # evs[e].tuple => new.state[k] = room.state[k]
<1> DEFINE t == evs[e].tuple
           new == ReplaceCurrentState(room, evs, e)
<1>1. room \in RoomRecords
  BY DEF RoomOK
<1>2. room.state \in [Tuples -> Nat] /\ room.timeline \in Seq(Nat)
  BY <1>1, RoomFields
<1>3. new = [room EXCEPT !.state = [room.state EXCEPT ![t] = e]]
  BY DEF ReplaceCurrentState
<1> HIDE DEF new, t
<1>4. t \in Tuples
  BY DEF t
<1>5. /\ new.made = room.made /\ new.timeline = room.timeline /\ new.depth = room.depth
      /\ new.extremity = room.extremity
  BY <1>1, <1>3 DEF RoomRecords
<1>6. new.state = [room.state EXCEPT ![t] = e]
  BY <1>1, <1>3 DEF RoomRecords
<1>7. e \in Nat
  OBVIOUS
<1>8. [room.state EXCEPT ![t] = e] \in [Tuples -> Nat]
  BY <1>2, <1>4, <1>7
<1>9. new \in RoomRecords
  BY <1>1, <1>3, <1>8 DEF RoomRecords
<1>10. new.state[t] = e /\ \A k \in Tuples : k # t => new.state[k] = room.state[k]
  BY <1>2, <1>4, <1>6
<1>11. \A k \in Tuples : new.state[k] # 0 => new.state[k] \in 1 .. Len(evs) /\ evs[new.state[k]].tuple = k
  BY <1>10 DEF RoomOK, t
<1>12. RoomOK(evs, new)
  BY <1>5, <1>9, <1>11 DEF RoomOK
<1>13. QED
  BY <1>5, <1>10, <1>12 DEF new, t

\* The elements of a sequence with one more.
LEMMA AppendSet ==
  ASSUME NEW S, NEW s \in Seq(S), NEW x \in S
  PROVE  Append(s, x) \in Seq(S) /\ ToSet(Append(s, x)) = ToSet(s) \cup {x}
<1>1. /\ Append(s, x) \in Seq(S) /\ Len(s) \in Nat /\ Len(Append(s, x)) = Len(s) + 1
      /\ DOMAIN s = 1 .. Len(s) /\ DOMAIN Append(s, x) = 1 .. Len(s) + 1
      /\ \A k \in 1 .. Len(s) : Append(s, x)[k] = s[k]
      /\ Append(s, x)[Len(s) + 1] = x
  OBVIOUS
<1>2. \A k \in 1 .. Len(s) + 1 : k \in 1 .. Len(s) \/ k = Len(s) + 1
  BY <1>1
<1>3. 1 .. Len(s) \subseteq 1 .. Len(s) + 1 /\ Len(s) + 1 \in 1 .. Len(s) + 1
  BY <1>1
<1>4. QED
  BY <1>1, <1>2, <1>3 DEF ToSet

\* What AppendTimeline changes, and what it leaves.
LEMMA AppendTimelineFact ==
  ASSUME NEW evs, NEW room, RoomOK(evs, room), NEW e \in 1 .. Len(evs), Len(evs) \in Nat
  PROVE  LET new == AppendTimeline(room, e)
         IN /\ RoomOK(evs, new)
            /\ new.made = room.made /\ new.state = room.state
            /\ new.depth = room.depth /\ new.extremity = room.extremity
            /\ ToSet(new.timeline) = ToSet(room.timeline) \cup {e}
<1> DEFINE new == AppendTimeline(room, e)
<1>1. room \in RoomRecords /\ e \in Nat
  BY DEF RoomOK
<1>2. room.timeline \in Seq(Nat)
  BY <1>1, RoomFields
<1>3. Append(room.timeline, e) \in Seq(Nat) /\ ToSet(Append(room.timeline, e)) = ToSet(room.timeline) \cup {e}
  BY <1>1, <1>2, AppendSet
<1>4. new = [room EXCEPT !.timeline = Append(room.timeline, e)]
  BY DEF AppendTimeline
<1> HIDE DEF new
<1>5. /\ new.made = room.made /\ new.state = room.state /\ new.depth = room.depth
      /\ new.extremity = room.extremity /\ new.timeline = Append(room.timeline, e)
  BY <1>1, <1>4 DEF RoomRecords
<1>6. new \in RoomRecords
  BY <1>1, <1>3, <1>4 DEF RoomRecords
<1>7. RoomOK(evs, new)
  BY <1>3, <1>5, <1>6 DEF RoomOK
<1>8. QED
  BY <1>3, <1>5, <1>7 DEF new

\* What SetHeads changes, and what it leaves.
LEMMA SetHeadsFact ==
  ASSUME NEW evs, EventsOK(evs), NEW room, RoomOK(evs, room), NEW e \in 1 .. Len(evs)
  PROVE  LET new == SetHeads(room, evs, e)
         IN /\ RoomOK(evs, new)
            /\ new.made = room.made /\ new.state = room.state /\ new.timeline = room.timeline
            /\ new.extremity = e
            /\ new.depth = IF evs[e].depth > room.depth THEN evs[e].depth ELSE room.depth
<1> DEFINE d == IF evs[e].depth > room.depth THEN evs[e].depth ELSE room.depth
           new == SetHeads(room, evs, e)
<1>1. room \in RoomRecords /\ e \in Nat /\ Len(evs) \in Nat
  BY DEF RoomOK, EventsOK
<1>2. evs[e] \in EventRecords
  BY DEF EventsOK
<1>3. evs[e].depth \in Nat
  BY <1>2 DEF EventRecords
<1>4. d \in Nat
  BY <1>1, <1>3, RoomFields
<1>5. new = [room EXCEPT !.depth = d, !.extremity = e]
  BY DEF SetHeads
<1> HIDE DEF new, d
<1>6. /\ new.made = room.made /\ new.state = room.state /\ new.timeline = room.timeline
      /\ new.depth = d /\ new.extremity = e
  BY <1>1, <1>5 DEF RoomRecords
<1>7. new \in RoomRecords
  BY <1>1, <1>4, <1>5 DEF RoomRecords
<1>8. RoomOK(evs, new)
  BY <1>1, <1>6, <1>7 DEF RoomOK
<1>9. QED
  BY <1>6, <1>8 DEF new, d

\* AddEvent of a state event.
LEMMA AddEventFact ==
  ASSUME NEW evs, EventsOK(evs), NEW room, RoomOK(evs, room), NEW e \in 1 .. Len(evs), evs[e].tuple \in Tuples
  PROVE  LET new == AddEvent(room, evs, e)
         IN /\ RoomOK(evs, new) /\ new.made = room.made
            /\ new.state[evs[e].tuple] = e
            /\ \A k \in Tuples : k # evs[e].tuple => new.state[k] = room.state[k]
            /\ ToSet(new.timeline) = ToSet(room.timeline) \cup {e}
            /\ new.extremity = e
            /\ new.depth = IF evs[e].depth > room.depth THEN evs[e].depth ELSE room.depth
<1> DEFINE r1 == ReplaceCurrentState(room, evs, e)
           r2 == AppendTimeline(r1, e)
           r3 == SetHeads(r2, evs, e)
           t == evs[e].tuple
<1>0. Len(evs) \in Nat /\ t \in Tuples
  BY DEF EventsOK
<1> HIDE DEF t
<1>1. /\ RoomOK(evs, r1)
      /\ r1.made = room.made /\ r1.timeline = room.timeline
      /\ r1.depth = room.depth /\ r1.extremity = room.extremity
      /\ r1.state[t] = e
      /\ \A k \in Tuples : k # t => r1.state[k] = room.state[k]
  BY <1>0, ReplaceCurrentStateFact DEF t
<1> HIDE DEF r1
<1>2. /\ RoomOK(evs, r2)
      /\ r2.made = r1.made /\ r2.state = r1.state
      /\ r2.depth = r1.depth /\ r2.extremity = r1.extremity
      /\ ToSet(r2.timeline) = ToSet(r1.timeline) \cup {e}
  BY <1>0, <1>1, AppendTimelineFact
<1> HIDE DEF r2
<1>3. /\ RoomOK(evs, r3)
      /\ r3.made = r2.made /\ r3.state = r2.state /\ r3.timeline = r2.timeline
      /\ r3.extremity = e
      /\ r3.depth = IF evs[e].depth > r2.depth THEN evs[e].depth ELSE r2.depth
  BY <1>2, SetHeadsFact
<1>4. AddEvent(room, evs, e) = r3
  BY DEF AddEvent, r1, r2
<1> HIDE DEF r3
<1>5. QED
  BY <1>1, <1>2, <1>3, <1>4 DEF t

\* A room of NewServerRoom is empty.
LEMMA NewServerRoomFact ==
  ASSUME NEW evs, Len(evs) \in Nat, NEW made \in BOOLEAN
  PROVE  LET room == NewServerRoom(made)
         IN /\ RoomOK(evs, room) /\ room.made = made /\ ToSet(room.timeline) = {} /\ room.depth = 0
            /\ \A k \in Tuples : room.state[k] = 0
<1> DEFINE room == NewServerRoom(made)
<1>1. /\ room \in RoomRecords /\ room.made = made /\ room.timeline = <<>> /\ room.depth = 0 /\ room.extremity = 0
      /\ \A k \in Tuples : room.state[k] = 0
  BY DEF NewServerRoom, RoomRecords
<1>2. ToSet(<<>>) = {}
  BY DEF ToSet
<1> HIDE DEF room
<1>3. RoomOK(evs, room)
  BY <1>1, <1>2 DEF RoomOK
<1>4. QED
  BY <1>1, <1>2, <1>3 DEF room

\* A room keeps the events of its timeline.
RoomLonger(room, new) == ToSet(room.timeline) \subseteq ToSet(new.timeline)

\* rms2 is rms with the room new in the place r.
RoomWritten(evs, rms, r, new, rms2) ==
  /\ RoomsOK(evs, rms2) /\ RoomsGrow(rms, rms2) /\ Len(rms2) = Len(rms)
  /\ rms2[r] = new /\ \A x \in 1 .. Len(rms) : x # r => rms2[x] = rms[x]

\* A room is written.
LEMMA WriteRoom ==
  ASSUME NEW evs, NEW rms, NEW r, NEW new, NEW rms2, RoomsOK(evs, rms), r \in 1 .. Len(rms), RoomOK(evs, new),
         RoomLonger(rms[r], new), rms2 = [rms EXCEPT ![r] = new]
  PROVE  RoomWritten(evs, rms, r, new, rms2)
<1>1. rms \in Seq(RoomRecords) /\ new \in RoomRecords /\ Len(rms) \in Nat
  BY DEF RoomsOK, RoomOK
<1>2. rms2 \in Seq(RoomRecords) /\ Len(rms2) = Len(rms)
  BY <1>1, ExceptSeq
<1>3. rms2[r] = new /\ \A x \in 1 .. Len(rms) : x # r => rms2[x] = rms[x]
  BY <1>1
<1>4. \A x \in 1 .. Len(rms2) : RoomOK(evs, rms2[x])
  BY <1>2, <1>3 DEF RoomsOK
<1>5. \A x \in 1 .. Len(rms) : ToSet(rms[x].timeline) \subseteq ToSet(rms2[x].timeline)
  BY <1>3 DEF RoomLonger
<1>6. RoomsOK(evs, rms2)
  BY <1>2, <1>4 DEF RoomsOK
<1>7. RoomsGrow(rms, rms2)
  BY <1>1, <1>2, <1>5 DEF RoomsGrow
<1>8. QED
  BY <1>2, <1>3, <1>6, <1>7 DEF RoomWritten

\* A room is made.
LEMMA RoomAppended ==
  ASSUME NEW evs, NEW rms, RoomsOK(evs, rms), NEW new, RoomOK(evs, new)
  PROVE  LET rms2 == Append(rms, new)
         IN /\ RoomsOK(evs, rms2) /\ RoomsGrow(rms, rms2) /\ Len(rms) \in Nat /\ Len(rms2) = Len(rms) + 1
            /\ rms2[Len(rms) + 1] = new /\ \A x \in 1 .. Len(rms) : rms2[x] = rms[x]
<1> DEFINE rms2 == Append(rms, new)
<1>1. rms \in Seq(RoomRecords) /\ new \in RoomRecords /\ Len(rms) \in Nat
  BY DEF RoomsOK, RoomOK
<1>2. /\ rms2 \in Seq(RoomRecords) /\ Len(rms2) = Len(rms) + 1
      /\ rms2[Len(rms) + 1] = new /\ \A x \in 1 .. Len(rms) : rms2[x] = rms[x]
  BY <1>1
<1> HIDE DEF rms2
<1>3. \A x \in 1 .. Len(rms2) : x \in 1 .. Len(rms) \/ x = Len(rms) + 1
  BY <1>1, <1>2
<1>4. \A x \in 1 .. Len(rms2) : RoomOK(evs, rms2[x])
  BY <1>2, <1>3 DEF RoomsOK
<1>5. \A x \in 1 .. Len(rms) : ToSet(rms[x].timeline) \subseteq ToSet(rms2[x].timeline)
  BY <1>2
<1>6. RoomsOK(evs, rms2) /\ RoomsGrow(rms, rms2)
  BY <1>1, <1>2, <1>4, <1>5 DEF RoomsOK, RoomsGrow
<1>7. QED
  BY <1>1, <1>2, <1>6 DEF rms2

-----------------------------------------------------------------------------
(* The room that MustMakeRoom makes *)

\* A made room has its state in its timeline.
MadeOK(made) ==
  /\ EventsOK(made.events) /\ RoomOK(made.events, made.room)
  /\ made.room.made = TRUE
  /\ \A k \in Tuples : made.room.state[k] # 0 => made.room.state[k] \in ToSet(made.room.timeline)

\* One more of the InitialRoomEvents.
LEMMA InitialRoomEventFact ==
  ASSUME NEW made, MadeOK(made), NEW domainless, NEW tuple \in Tuples
  PROVE  MadeOK(InitialRoomEvent(made, domainless, tuple))
<1> DEFINE membership == IF IsMember(tuple) THEN "join" ELSE "none"
           x == ProtoEventCreator(made.room, domainless, tuple, Creator, membership)
           evs == Append(made.events, x)
           e == Len(evs)
           new == AddEvent(made.room, evs, e)
           made2 == InitialRoomEvent(made, domainless, tuple)
<1>1. made2 = [events |-> evs, room |-> new]
  BY DEF InitialRoomEvent
<1>2. made2.events = evs /\ made2.room = new
  BY <1>1
<1>3. EventsOK(made.events) /\ RoomOK(made.events, made.room)
  BY DEF MadeOK
<1>4. Creator \in Users /\ membership \in Memberships
  BY DEF Users, Memberships
<1>4a. tuple \in Tuples \cup {Message}
  OBVIOUS
<1> HIDE DEF made2, membership
<1>5. x \in EventRecords /\ x.prev \in 0 .. Len(made.events) /\ x.auth \subseteq 1 .. Len(made.events) /\ x.tuple = tuple
  <2> DEFINE evs0 == made.events
             room0 == made.room
             y == ProtoEventCreator(room0, domainless, tuple, Creator, membership)
  <2>1. EventsOK(evs0) /\ RoomOK(evs0, room0)
    BY <1>3
  <2>2. x = y
    OBVIOUS
  <2> HIDE DEF evs0, room0
  <2>3. y \in EventRecords /\ y.prev \in 0 .. Len(evs0) /\ y.auth \subseteq 1 .. Len(evs0) /\ y.tuple = tuple
    BY <1>4, <1>4a, <2>1, ProtoOK
  <2> HIDE DEF x, y
  <2>4. QED
    BY <2>2, <2>3 DEF evs0
<1> HIDE DEF x
<1>6. /\ EventsOK(evs) /\ EventsGrow(made.events, evs) /\ Len(made.events) \in Nat
      /\ e = Len(made.events) + 1 /\ evs[e] = x
  BY <1>3, <1>5, AppendEvent
<1> HIDE DEF evs, e
<1>7. RoomOK(evs, made.room)
  BY <1>3, <1>6, RoomOKGrows
<1>8. e \in 1 .. Len(evs) /\ evs[e].tuple = tuple
  BY <1>5, <1>6 DEF e
<1>9. /\ RoomOK(evs, new) /\ new.made = made.room.made
      /\ new.state[tuple] = e
      /\ \A k \in Tuples : k # tuple => new.state[k] = made.room.state[k]
      /\ ToSet(new.timeline) = ToSet(made.room.timeline) \cup {e}
  <2>1. evs[e].tuple \in Tuples /\ EventsOK(evs)
    BY <1>6, <1>8
  <2>2. /\ RoomOK(evs, new) /\ new.made = made.room.made
        /\ new.state[evs[e].tuple] = e
        /\ \A k \in Tuples : k # evs[e].tuple => new.state[k] = made.room.state[k]
        /\ ToSet(new.timeline) = ToSet(made.room.timeline) \cup {e}
    BY <1>7, <1>8, <2>1, AddEventFact
  <2>3. QED
    BY <1>8, <2>2
<1> HIDE DEF new
<1>10. \A k \in Tuples : new.state[k] # 0 => new.state[k] \in ToSet(new.timeline)
  BY <1>9 DEF MadeOK
<1>11. MadeOK(made2)
  BY <1>2, <1>6, <1>9, <1>10 DEF MadeOK
<1>12. QED
  BY <1>11 DEF made2

\* The room of MustMakeRoom.
LEMMA MustMakeRoomFact == ASSUME NEW domainless PROVE MadeOK(MustMakeRoom(domainless))
<1> DEFINE add(made, tuple) == InitialRoomEvent(made, domainless, tuple)
           m0 == [events |-> <<>>, room |-> NewServerRoom(TRUE)]
           m1 == add(m0, Create)
           m2 == add(m1, Member(Creator))
           m3 == add(m2, PowerLevels)
           m4 == add(m3, JoinRules)
<1>1. MadeOK(m0)
  <2>1. m0.events = <<>> /\ m0.room = NewServerRoom(TRUE)
    OBVIOUS
  <2>2. Len(<<>>) = 0 /\ Len(<<>>) \in Nat /\ <<>> \in Seq(EventRecords) /\ \A e \in 1 .. 0 : FALSE
    OBVIOUS
  <2>3. EventsOK(<<>>)
    BY <2>2 DEF EventsOK
  <2>4. RoomOK(<<>>, NewServerRoom(TRUE)) /\ NewServerRoom(TRUE).made = TRUE
        /\ \A k \in Tuples : NewServerRoom(TRUE).state[k] = 0
    BY <2>2, NewServerRoomFact
  <2> HIDE DEF m0
  <2>5. QED
    BY <2>1, <2>3, <2>4 DEF MadeOK
<1> HIDE DEF m0
<1>2. Create \in Tuples /\ Member(Creator) \in Tuples /\ PowerLevels \in Tuples /\ JoinRules \in Tuples
  BY TupleFacts DEF Users
<1>3. MadeOK(m1)
  BY <1>1, <1>2, InitialRoomEventFact
<1> HIDE DEF m1
<1>4. MadeOK(m2)
  BY <1>2, <1>3, InitialRoomEventFact
<1> HIDE DEF m2
<1>5. MadeOK(m3)
  BY <1>2, <1>4, InitialRoomEventFact
<1> HIDE DEF m3
<1>6. MadeOK(m4)
  BY <1>2, <1>5, InitialRoomEventFact
<1>7. MustMakeRoom(domainless) = m4
  BY DEF MustMakeRoom, m0, m1, m2, m3
<1>8. QED
  BY <1>6, <1>7

-----------------------------------------------------------------------------
(* CoreInv *)

\* Between calls the local variables are empty.
LEMMA IdleFact ==
  /\ Idle \in CallRecords
  /\ Idle.op = "none" /\ Idle.snap = {} /\ Idle.pdus = <<>>
<1>1. Resident \in ServerNames /\ Creator \in Users
  BY JoinAssumption DEF ServerNames, Users
<1>2. QED
  BY <1>1 DEF Idle, CallRecords

\* They satisfy CallOK.
LEMMA IdleOK ==
  ASSUME NEW evs, NEW rms, Len(evs) \in Nat
  PROVE  CallOK(evs, rms, "idle", Idle)
<1>1. Idle.op = "none" /\ Idle.snap = {} /\ ToSet(Idle.pdus) = {}
  BY IdleFact DEF ToSet
<1>2. QED
  BY <1>1 DEF CallOK

\* The types of the local variables.
LEMMA CallFields ==
  ASSUME NEW l \in CallRecords
  PROVE  /\ l.op \in {"none", "create", "join", "leave", "transaction", "eventAuth"}
         /\ l.srv \in ServerNames /\ l.user \in Users /\ l.partial \in BOOLEAN /\ l.ev \in Nat /\ l.room \in Nat
         /\ l.snap \subseteq Nat /\ l.known \subseteq Nat /\ l.chain \in Seq(Nat) /\ l.servers \subseteq ServerNames
         /\ l.pdus \in Seq(Nat)
  BY DEF CallRecords

\* Nothing happens to events and rooms.
LEMMA NoGrowth ==
  ASSUME CoreInv
  PROVE  EventsGrow(events, events) /\ RoomsGrow(rooms, rooms) /\ Len(events) \in Nat /\ Len(rooms) \in Nat
<1>1. Len(events) \in Nat /\ Len(rooms) \in Nat
  BY DEF CoreInv, EventsOK, RoomsOK
<1>2. QED
  BY <1>1 DEF EventsGrow, RoomsGrow

\* The initial state.
LEMMA InitCore == Init => CoreInv
<1> SUFFICES ASSUME Init PROVE CoreInv
  OBVIOUS
<1> DEFINE made == MustMakeRoom(config.domainless)
<1>1. events = made.events /\ rooms = <<made.room>> /\ MadeOK(made)
  BY MustMakeRoomFact DEF Init
<1> HIDE DEF made
<1>2. EventsOK(events) /\ Len(events) \in Nat
  BY <1>1 DEF MadeOK, EventsOK
<1>3. RoomsOK(events, rooms) /\ Len(rooms) = 1
  <2>1. RoomOK(events, made.room) /\ made.room \in RoomRecords
    BY <1>1 DEF MadeOK, RoomOK
  <2>2. rooms \in Seq(RoomRecords) /\ Len(rooms) = 1 /\ rooms[1] = made.room
    BY <1>1, <2>1
  <2>3. QED
    BY <2>1, <2>2 DEF RoomsOK
<1>4. roomOf \in [ServerNames -> 0 .. Len(rooms)] /\ roomOf[Resident] # 0
  <2>1. Resident \in ServerNames
    BY JoinAssumption DEF ServerNames, Users
  <2>2. QED
    BY <1>3, <2>1 DEF Init
<1>5. pc \in [Procs -> PCs] /\ loc \in [Procs -> CallRecords]
  BY IdleFact DEF Init, PCs
<1>6. \A p \in Procs : CallOK(events, rooms, pc[p], loc[p])
  BY <1>2, IdleOK DEF Init
<1>7. ops \in [Kinds -> Nat] /\ config \in Configs /\ results = {} /\ answers = {}
  BY DEF Init
<1>8. QED
  BY <1>2, <1>3, <1>4, <1>5, <1>6, <1>7 DEF CoreInv

\* A step that reaches neither events nor rooms.
LEMMA LocalStep ==
  ASSUME CoreInv, NEW p \in Procs, NEW c \in PCs, NEW l \in CallRecords,
         UNCHANGED <<config, events, rooms, roomOf, results>>,
         pc' = [pc EXCEPT ![p] = c], loc' = [loc EXCEPT ![p] = l], CallOK(events, rooms, c, l),
         ops' \in [Kinds -> Nat],
         \A a \in answers' : a \in answers \/ Closed(events, a.state, a.chain)
  PROVE  CoreInv'
<1>1. config' = config /\ events' = events /\ rooms' = rooms /\ roomOf' = roomOf /\ results' = results
  OBVIOUS
<1>2. EventsOK(events) /\ RoomsOK(events, rooms) /\ roomOf \in [ServerNames -> 0 .. Len(rooms)] /\ roomOf[Resident] # 0
  BY DEF CoreInv
<1>3. EventsGrow(events, events) /\ RoomsGrow(rooms, rooms)
  BY NoGrowth
<1>4. EventsOK(events') /\ EventsGrow(events, events') /\ RoomsOK(events', rooms') /\ RoomsGrow(rooms, rooms')
  BY <1>1, <1>2, <1>3
<1>5. roomOf' \in [ServerNames -> 0 .. Len(rooms')] /\ roomOf'[Resident] # 0
  BY <1>1, <1>2
<1>6. CallOK(events', rooms', c, l)
  BY <1>1
<1>7. \A x \in results' : x \in results \/ ResultOK(rooms', x)
  BY <1>1
<1>8. \A a \in answers' : a \in answers \/ Closed(events', a.state, a.chain)
  BY <1>1
<1>9. QED
  BY <1>1, <1>4, <1>5, <1>6, <1>7, <1>8, CoreStep

\* A call returns.
LEMMA ReturnStep ==
  ASSUME CoreInv, NEW p \in Procs, Return(p), UNCHANGED <<config, events, rooms, roomOf, results, ops>>,
         \A a \in answers' : a \in answers \/ Closed(events, a.state, a.chain)
  PROVE  CoreInv'
<1>1. pc' = [pc EXCEPT ![p] = "idle"] /\ loc' = [loc EXCEPT ![p] = Idle] /\ "idle" \in PCs
  BY DEF Return, Goto, PCs
<1>2. CallOK(events, rooms, "idle", Idle) /\ Idle \in CallRecords
  BY NoGrowth, IdleFact, IdleOK
<1>3. ops' \in [Kinds -> Nat]
  BY DEF CoreInv
<1>4. QED
  BY <1>1, <1>2, <1>3, LocalStep

\* A call begins.
LEMMA BeginFact ==
  ASSUME CoreInv, NEW p \in Procs, NEW kind \in Kinds, Begin(p, kind)
  PROVE  ops' \in [Kinds -> Nat] /\ ops' # ops /\ pc[p] = "idle"
<1>1. ops \in [Kinds -> Nat] /\ ops' = [ops EXCEPT ![kind] = @ + 1]
  BY DEF CoreInv, Begin
<1>2. ops[kind] \in Nat /\ ops'[kind] = ops[kind] + 1
  BY <1>1
<1>3. ops' \in [Kinds -> Nat]
  BY <1>1, <1>2
<1>4. ops' # ops
  BY <1>2
<1>5. QED
  BY <1>3, <1>4 DEF Begin

\* A call of the state.
LEMMA TheCall ==
  ASSUME CoreInv, NEW p \in Procs
  PROVE  loc[p] \in CallRecords /\ pc[p] \in PCs /\ CallOK(events, rooms, pc[p], loc[p])
  BY DEF CoreInv

\* A call that leaves its own local variables or position.
LEMMA SameCall ==
  ASSUME CoreInv, NEW p \in Procs
  PROVE  loc = [loc EXCEPT ![p] = loc[p]] /\ pc = [pc EXCEPT ![p] = pc[p]]
  BY DEF CoreInv

-----------------------------------------------------------------------------
(* CoreInv, action by action *)

\* A step that writes one room and moves one call on.
LEMMA WriteStep ==
  ASSUME CoreInv, NEW p \in Procs, NEW c \in PCs, NEW new, RoomOK(events, new), loc[p].room \in 1 .. Len(rooms),
         RoomLonger(rooms[loc[p].room], new),
         rooms' = [rooms EXCEPT ![loc[p].room] = new],
         pc' = [pc EXCEPT ![p] = c],
         CallOK(events, rooms', c, loc[p]),
         UNCHANGED <<config, events, loc, ops>>,
         roomOf' \in [ServerNames -> 0 .. Len(rooms)], roomOf'[Resident] # 0,
         \A x \in results' : x \in results \/ ResultOK(rooms', x),
         \A a \in answers' : a \in answers \/ Closed(events, a.state, a.chain)
  PROVE  CoreInv'
<1>1. config' = config /\ events' = events /\ loc' = loc /\ ops' = ops
  OBVIOUS
<1>2. EventsOK(events) /\ RoomsOK(events, rooms) /\ ops \in [Kinds -> Nat]
  BY DEF CoreInv
<1>3. RoomsOK(events, rooms') /\ RoomsGrow(rooms, rooms') /\ Len(rooms') = Len(rooms)
  <2>1. RoomWritten(events, rooms, loc[p].room, new, rooms')
    BY <1>2, WriteRoom
  <2>2. QED
    BY <2>1 DEF RoomWritten
<1>4. EventsGrow(events, events') /\ EventsOK(events') /\ RoomsOK(events', rooms')
  BY <1>1, <1>2, <1>3, NoGrowth
<1>5. roomOf' \in [ServerNames -> 0 .. Len(rooms')] /\ ops' \in [Kinds -> Nat]
  BY <1>1, <1>2, <1>3
<1>6. loc' = [loc EXCEPT ![p] = loc[p]] /\ loc[p] \in CallRecords
  BY <1>1, SameCall, TheCall
<1>7. CallOK(events', rooms', c, loc[p]) /\ \A a \in answers' : a \in answers \/ Closed(events', a.state, a.chain)
  BY <1>1
<1>8. QED
  BY <1>1, <1>3, <1>4, <1>5, <1>6, <1>7, CoreStep

\* The state is written.
LEMMA WriteStateCore ==
  ASSUME CoreInv, NEW p \in Procs, WriteState(p) PROVE CoreInv'
<1> DEFINE l == loc[p]
           new == ReplaceCurrentState(rooms[l.room], events, l.ev)
<1>1. /\ pc[p] = "state" /\ rooms' = [rooms EXCEPT ![l.room] = new] /\ pc' = [pc EXCEPT ![p] = "append"]
      /\ UNCHANGED <<config, events, roomOf, loc, ops, answers, results, panics>>
  BY DEF WriteState, Goto
<1>2. CallOK(events, rooms, "state", l) /\ l \in CallRecords
  BY <1>1, TheCall
<1>3. l.ev \in 1 .. Len(events) /\ l.room \in 1 .. Len(rooms) /\ events[l.ev].tuple # Message
  BY <1>2 DEF CallOK
<1>4. EventsOK(events) /\ RoomsOK(events, rooms) /\ Len(events) \in Nat
  BY DEF CoreInv, EventsOK
<1>5. events[l.ev].tuple \in Tuples
  <2>1. events[l.ev] \in EventRecords
    BY <1>3, <1>4 DEF EventsOK
  <2>2. QED
    BY <1>3, <2>1 DEF EventRecords
<1>6. RoomOK(events, rooms[l.room])
  BY <1>3, <1>4 DEF RoomsOK
<1>7. RoomOK(events, new) /\ new.timeline = rooms[l.room].timeline
  <2> DEFINE room == rooms[l.room]
  <2> HIDE DEF room, l
  <2>1. RoomOK(events, room)
    BY <1>6 DEF room
  <2>2. /\ RoomOK(events, ReplaceCurrentState(room, events, l.ev))
        /\ ReplaceCurrentState(room, events, l.ev).timeline = room.timeline
    BY <1>3, <1>4, <1>5, <2>1, ReplaceCurrentStateFact
  <2>3. QED
    BY <2>2 DEF room
<1> HIDE DEF new
<1>8. RoomLonger(rooms[l.room], new) /\ RoomsGrow(rooms, rooms')
  <2>1. RoomLonger(rooms[l.room], new)
    BY <1>7 DEF RoomLonger
  <2>2. RoomWritten(events, rooms, l.room, new, rooms')
    BY <1>1, <1>3, <1>4, <1>7, <2>1, WriteRoom
  <2>3. QED
    BY <2>1, <2>2 DEF RoomWritten
<1>9. CallOK(events, rooms', "append", l)
  <2>1. CallOK(events, rooms', "state", l)
    BY <1>2, <1>8, NoGrowth, CallOKGrows
  <2>2. QED
    BY <2>1 DEF CallOK
<1>10. roomOf' \in [ServerNames -> 0 .. Len(rooms)] /\ roomOf'[Resident] # 0 /\ "append" \in PCs
  BY <1>1 DEF CoreInv, PCs
<1>11. QED
  BY <1>1, <1>3, <1>7, <1>8, <1>9, <1>10, WriteStep

\* The timeline is written.
LEMMA WriteTimelineCore ==
  ASSUME CoreInv, NEW p \in Procs, WriteTimeline(p) PROVE CoreInv'
<1> DEFINE l == loc[p]
           new == AppendTimeline(rooms[l.room], l.ev)
<1>1. /\ pc[p] = "append" /\ rooms' = [rooms EXCEPT ![l.room] = new] /\ pc' = [pc EXCEPT ![p] = "heads"]
      /\ UNCHANGED <<config, events, roomOf, loc, ops, answers, results, panics>>
  BY DEF WriteTimeline, Goto
<1>2. CallOK(events, rooms, "append", l) /\ l \in CallRecords
  BY <1>1, TheCall
<1>3. l.ev \in 1 .. Len(events) /\ l.room \in 1 .. Len(rooms)
  BY <1>2 DEF CallOK
<1>4. EventsOK(events) /\ RoomsOK(events, rooms) /\ Len(events) \in Nat
  BY DEF CoreInv, EventsOK
<1>6. RoomOK(events, rooms[l.room])
  BY <1>3, <1>4 DEF RoomsOK
<1>7. RoomOK(events, new) /\ ToSet(new.timeline) = ToSet(rooms[l.room].timeline) \cup {l.ev}
  <2> DEFINE room == rooms[l.room]
  <2> HIDE DEF room, l
  <2>1. RoomOK(events, room)
    BY <1>6 DEF room
  <2> DEFINE e == l.ev
  <2> HIDE DEF e
  <2>4. e \in 1 .. Len(events)
    BY <1>3 DEF e
  <2>2. /\ RoomOK(events, AppendTimeline(room, e))
        /\ ToSet(AppendTimeline(room, e).timeline) = ToSet(room.timeline) \cup {e}
    BY <1>4, <2>1, <2>4, AppendTimelineFact
  <2>3. QED
    BY <2>2 DEF room, e
<1> HIDE DEF new
<1>8. RoomLonger(rooms[l.room], new) /\ RoomsGrow(rooms, rooms') /\ rooms'[l.room] = new
  <2>1. RoomLonger(rooms[l.room], new)
    BY <1>7 DEF RoomLonger
  <2>2. RoomWritten(events, rooms, l.room, new, rooms')
    BY <1>1, <1>3, <1>4, <1>7, <2>1, WriteRoom
  <2>3. QED
    BY <2>1, <2>2 DEF RoomWritten
<1>9. CallOK(events, rooms', "heads", l)
  <2>1. CallOK(events, rooms', "append", l)
    <3>1. EventsGrow(events, events)
      BY NoGrowth
    <3>2. QED
      BY <1>2, <1>8, <3>1, CallOKGrows
  <2>2. l.ev \in ToSet(rooms'[l.room].timeline)
    BY <1>7, <1>8
  <2>3. QED
    BY <2>1, <2>2 DEF CallOK
<1>10. roomOf' \in [ServerNames -> 0 .. Len(rooms)] /\ roomOf'[Resident] # 0 /\ "heads" \in PCs
  BY <1>1 DEF CoreInv, PCs
<1>11. QED
  BY <1>1, <1>3, <1>7, <1>8, <1>9, <1>10, WriteStep

\* AddEvent is over, and its caller goes on.
LEMMA WriteHeadsCore ==
  ASSUME CoreInv, NEW p \in Procs, WriteHeads(p) PROVE CoreInv'
<1> DEFINE l == loc[p]
           r == l.room
           new == SetHeads(rooms[r], events, l.ev)
<1>1. /\ pc[p] = "heads" /\ rooms' = [rooms EXCEPT ![r] = new]
      /\ UNCHANGED <<config, events, ops, panics>>
  BY DEF WriteHeads
<1>2. CallOK(events, rooms, "heads", l) /\ l \in CallRecords
  BY <1>1, TheCall
<1>3. l.ev \in 1 .. Len(events) /\ r \in 1 .. Len(rooms) /\ l.ev \in ToSet(rooms[r].timeline)
  BY <1>2 DEF CallOK
<1>4. EventsOK(events) /\ RoomsOK(events, rooms) /\ Len(rooms) \in Nat
  BY DEF CoreInv, RoomsOK
<1>5. RoomOK(events, new) /\ new.timeline = rooms[r].timeline
  <2> DEFINE room == rooms[r]
             e == l.ev
  <2>1. RoomOK(events, room) /\ e \in 1 .. Len(events)
    BY <1>3, <1>4 DEF RoomsOK
  <2> HIDE DEF room, e
  <2>2. RoomOK(events, SetHeads(room, events, e)) /\ SetHeads(room, events, e).timeline = room.timeline
    BY <1>4, <2>1, SetHeadsFact
  <2>3. QED
    BY <2>2 DEF room, e
<1> HIDE DEF new, r
<1>6. RoomLonger(rooms[r], new)
  BY <1>5 DEF RoomLonger
<1>7. RoomWritten(events, rooms, r, new, rooms')
  BY <1>1, <1>3, <1>4, <1>5, <1>6, WriteRoom
<1>8. RoomsOK(events, rooms') /\ RoomsGrow(rooms, rooms') /\ Len(rooms') = Len(rooms) /\ rooms'[r] = new
  BY <1>7 DEF RoomWritten
<1>9. CallOK(events, rooms', "heads", l)
  <2>1. EventsGrow(events, events)
    BY NoGrowth
  <2>2. QED
    BY <1>2, <1>8, <2>1, CallOKGrows
<1>10. roomOf \in [ServerNames -> 0 .. Len(rooms)] /\ roomOf[Resident] # 0
       /\ "idle" \in PCs /\ "answered" \in PCs /\ "pdus" \in PCs
  BY DEF CoreInv, PCs
<1>11. ASSUME Return(p), roomOf' \in [ServerNames -> 0 .. Len(rooms)], roomOf'[Resident] # 0, UNCHANGED <<results, answers>>
       PROVE  CoreInv'
  <2>1. pc' = [pc EXCEPT ![p] = "idle"] /\ loc' = [loc EXCEPT ![p] = Idle]
    BY <1>11 DEF Return, Goto
  <2>2. CallOK(events, rooms', "idle", Idle) /\ Idle \in CallRecords
    BY NoGrowth, IdleFact, IdleOK
  <2>3. events' = events /\ config' = config /\ ops' = ops /\ results' = results /\ answers' = answers
    BY <1>1, <1>11
  <2>4. EventsOK(events') /\ EventsGrow(events, events') /\ RoomsOK(events', rooms') /\ CallOK(events', rooms', "idle", Idle)
    BY <1>4, <1>8, <2>2, <2>3, NoGrowth
  <2>5. ops' \in [Kinds -> Nat] /\ roomOf' \in [ServerNames -> 0 .. Len(rooms')]
    BY <1>8, <1>11, <2>3 DEF CoreInv
  <2>6. \A x \in results' : x \in results \/ ResultOK(rooms', x)
    BY <2>3
  <2>7. \A a \in answers' : a \in answers \/ Closed(events', a.state, a.chain)
    BY <2>3
  <2>8. QED
    BY <1>8, <1>10, <1>11, <2>1, <2>2, <2>3, <2>4, <2>5, <2>6, <2>7, CoreStep
<1>12. CASE l.op = "create" /\ Return(p) /\ UNCHANGED <<roomOf, results, answers>>
  BY <1>10, <1>11, <1>12
<1>13. CASE /\ l.op = "join" /\ Goto(p, "answered") /\ UNCHANGED <<roomOf, results, loc>>
            /\ answers' = answers \cup {[state |-> l.snap, chain |-> l.chain]}
  <2>1. CallOK(events, rooms', "answered", l)
    BY <1>9, <1>13 DEF CallOK
  <2>2. Closed(events, l.snap, l.chain)
    BY <1>2, <1>13 DEF CallOK
  <2>3. \A a \in answers' : a \in answers \/ Closed(events, a.state, a.chain)
    BY <1>13, <2>2
  <2>4. pc' = [pc EXCEPT ![p] = "answered"]
    BY <1>13 DEF Goto
  <2>5. roomOf' = roomOf /\ results' = results
    BY <1>13
  <2>6. QED
    BY <1>1, <1>3, <1>5, <1>6, <1>10, <1>13, <2>1, <2>3, <2>4, <2>5, WriteStep DEF r
<1>14. CASE /\ l.op = "transaction" /\ Goto(p, "pdus") /\ UNCHANGED <<roomOf, answers, loc>>
            /\ results' = results \cup {[ev |-> l.ev, room |-> r]}
  <2>1. CallOK(events, rooms', "pdus", l)
    BY <1>9, <1>14 DEF CallOK
  <2>2. l.ev \in ToSet(rooms'[r].timeline) /\ r \in 1 .. Len(rooms')
    BY <1>3, <1>5, <1>8
  <2>3. \A x \in results' : x \in results \/ ResultOK(rooms', x)
    BY <1>14, <2>2 DEF ResultOK
  <2>4. pc' = [pc EXCEPT ![p] = "pdus"]
    BY <1>14 DEF Goto
  <2>5. roomOf' = roomOf /\ answers' = answers
    BY <1>14
  <2>6. QED
    BY <1>1, <1>3, <1>5, <1>6, <1>10, <1>14, <2>1, <2>3, <2>4, <2>5, WriteStep DEF r
<1>15. CASE /\ l.op = "leave" /\ roomOf' = [roomOf EXCEPT ![l.srv] = r] /\ Return(p)
            /\ UNCHANGED <<results, answers>>
  <2>1. r \in 0 .. Len(rooms) /\ r # 0
    BY <1>3, <1>4
  <2>2. roomOf' \in [ServerNames -> 0 .. Len(rooms)]
    BY <1>10, <1>15, <2>1
  <2>3. roomOf'[Resident] # 0
    <3>1. Resident \in ServerNames
      BY JoinAssumption DEF ServerNames, Users
    <3>2. QED
      BY <1>10, <1>15, <2>1, <3>1
  <2>4. QED
    BY <1>11, <1>15, <2>2, <2>3
<1>16. QED
  BY <1>12, <1>13, <1>14, <1>15 DEF WriteHeads, r

\* What is known of the events evs2 after one was made of room r.
NewEventFact(evs2, r, tuple, membership) ==
  /\ EventsOK(evs2) /\ EventsGrow(events, evs2)
  /\ Len(events) \in Nat /\ Len(evs2) = Len(events) + 1 /\ Len(evs2) \in 1 .. Len(evs2)
  /\ evs2[Len(evs2)].tuple = tuple /\ evs2[Len(evs2)].membership = membership
  /\ evs2[Len(evs2)].depth = rooms[r].depth + 1

\* MustCreateEvent.
LEMMA NewEvent ==
  ASSUME CoreInv, NEW r, r \in 1 .. Len(rooms), NEW domainless, NEW tuple \in Tuples \cup {Message},
         NEW sender \in Users, NEW membership \in Memberships,
         NEW evs2, evs2 = Append(events, ProtoEventCreator(rooms[r], domainless, tuple, sender, membership))
  PROVE  NewEventFact(evs2, r, tuple, membership)
<1> DEFINE room == rooms[r]
           x == ProtoEventCreator(room, domainless, tuple, sender, membership)
<1>1. EventsOK(events) /\ RoomOK(events, room)
  BY DEF CoreInv, RoomsOK
<1>2. evs2 = Append(events, x)
  OBVIOUS
<1> HIDE DEF room
<1>3. /\ x \in EventRecords /\ x.prev \in 0 .. Len(events) /\ x.auth \subseteq 1 .. Len(events)
      /\ x.tuple = tuple /\ x.membership = membership /\ x.depth = room.depth + 1
  BY <1>1, ProtoOK
<1> HIDE DEF x
<1>4. /\ EventsOK(evs2) /\ EventsGrow(events, evs2)
      /\ Len(events) \in Nat /\ Len(evs2) = Len(events) + 1 /\ evs2[Len(events) + 1] = x
  BY <1>1, <1>2, <1>3, AppendEvent
<1>5. Len(evs2) \in 1 .. Len(evs2)
  BY <1>4
<1>6. QED
  BY <1>3, <1>4, <1>5 DEF NewEventFact, room

\* A call begins with a new event.
LEMMA NewEventStep ==
  ASSUME CoreInv, NEW p \in Procs, NEW r, NEW tuple, NEW membership, NewEventFact(events', r, tuple, membership),
         NEW c \in PCs, NEW l \in CallRecords,
         pc' = [pc EXCEPT ![p] = c], loc' = [loc EXCEPT ![p] = l], CallOK(events', rooms, c, l),
         ops' \in [Kinds -> Nat],
         UNCHANGED <<config, rooms, roomOf, answers, results>>
  PROVE  CoreInv'
<1>1. config' = config /\ rooms' = rooms /\ roomOf' = roomOf /\ answers' = answers /\ results' = results
  OBVIOUS
<1>2. EventsOK(events') /\ EventsGrow(events, events')
  BY DEF NewEventFact
<1>3. RoomsOK(events', rooms') /\ RoomsGrow(rooms, rooms')
  <2>1. RoomsOK(events, rooms)
    BY DEF CoreInv
  <2>2. RoomsOK(events', rooms)
    BY <1>2, <2>1, RoomsOKGrow
  <2>3. QED
    BY <1>1, <2>2, NoGrowth
<1>4. roomOf' \in [ServerNames -> 0 .. Len(rooms')] /\ roomOf'[Resident] # 0
  BY <1>1 DEF CoreInv
<1>5. CallOK(events', rooms', c, l)
  BY <1>1
<1>6. (\A x \in results' : x \in results \/ ResultOK(rooms', x))
      /\ (\A a \in answers' : a \in answers \/ Closed(events', a.state, a.chain))
  BY <1>1
<1>7. QED
  BY <1>1, <1>2, <1>3, <1>4, <1>5, <1>6, CoreStep

\* AddEvent begins: the local variables, and where the call goes on.
AddCall(l, e, r) == [l EXCEPT !.ev = e, !.room = r]
AddAt(evs, e) == IF evs[e].tuple = Message THEN "append" ELSE "state"

\* The fields of AddCall.
LEMMA AddCallFields ==
  ASSUME NEW l \in CallRecords, NEW e \in Nat, NEW r \in Nat
  PROVE  LET l2 == AddCall(l, e, r)
         IN /\ l2 \in CallRecords /\ l2.ev = e /\ l2.room = r
            /\ l2.op = l.op /\ l2.srv = l.srv /\ l2.snap = l.snap /\ l2.pdus = l.pdus
  BY DEF AddCall, CallRecords

\* AddEvent of a call that is not a join.
LEMMA AddCallOK ==
  ASSUME NEW evs, NEW rms, NEW l \in CallRecords, NEW e, NEW r, Len(evs) \in Nat, Len(rms) \in Nat,
         e \in 1 .. Len(evs), r \in 1 .. Len(rms), l.op # "join",
         l.snap \subseteq 1 .. Len(evs), ToSet(l.pdus) \subseteq 0 .. Len(evs)
  PROVE  /\ CallOK(evs, rms, AddAt(evs, e), AddCall(l, e, r))
         /\ AddCall(l, e, r) \in CallRecords /\ AddAt(evs, e) \in PCs
<1> DEFINE l2 == AddCall(l, e, r)
           c == AddAt(evs, e)
<1>1. e \in Nat /\ r \in Nat
  OBVIOUS
<1>2. /\ l2 \in CallRecords /\ l2.ev = e /\ l2.room = r
      /\ l2.op = l.op /\ l2.snap = l.snap /\ l2.pdus = l.pdus
  BY <1>1, AddCallFields
<1>3. c \in {"append", "state"} /\ (c = "state" => evs[e].tuple # Message)
  BY DEF AddAt
<1> HIDE DEF l2, c
<1>4. CallOK(evs, rms, c, l2)
  BY <1>2, <1>3 DEF CallOK
<1>5. c \in PCs
  BY <1>3 DEF PCs
<1>6. QED
  BY <1>2, <1>4, <1>5 DEF l2, c

\* The test creates an event.
LEMMA CreateEventCore ==
  ASSUME CoreInv, NEW p \in Procs, NEW s \in ServerNames, NEW tuple \in Changes, CreateEvent(p, s, tuple)
  PROVE  CoreInv'
<1> DEFINE r == roomOf[s]
           u == CHOOSE v \in Users : ServerOf[v] = s
           membership == CASE tuple = Member(u) -> "join"
                           [] IsMember(tuple) /\ tuple # Member(u) -> "invite"
                           [] OTHER -> "none"
           l == [Idle EXCEPT !.op = "create", !.srv = s]
<1>1. /\ Begin(p, "create") /\ r # 0
      /\ events' = Append(events, ProtoEventCreator(rooms[r], config.domainless, tuple, u, membership))
      /\ StartAdd(p, l, events', Len(events'), r)
      /\ UNCHANGED <<config, rooms, roomOf, answers, results, panics>>
  BY DEF CreateEvent
<1>2. u \in Users
  BY DEF ServerNames
<1>3. membership \in Memberships
  BY DEF Memberships
<1> HIDE DEF u, membership
<1>4. tuple \in Tuples \cup {Message}
  BY JoinAssumption
<1>5. r \in 1 .. Len(rooms) /\ Len(rooms) \in Nat
  BY <1>1, NoGrowth DEF CoreInv
<1> HIDE DEF r
<1>6. NewEventFact(events', r, tuple, membership)
  BY <1>1, <1>2, <1>3, <1>4, <1>5, NewEvent
<1>7. l \in CallRecords /\ l.op = "create" /\ l.snap = {} /\ l.pdus = <<>>
  BY IdleFact DEF CallRecords
<1> HIDE DEF l
<1> DEFINE e == Len(events')
<1>8. Len(events') \in Nat /\ e \in 1 .. Len(events')
  BY <1>6 DEF NewEventFact
<1> HIDE DEF e
<1>9. pc' = [pc EXCEPT ![p] = AddAt(events', e)] /\ loc' = [loc EXCEPT ![p] = AddCall(l, e, r)]
  BY <1>1 DEF StartAdd, Goto, AddAt, AddCall, e
<1>10. l.op # "join" /\ l.snap \subseteq 1 .. Len(events') /\ ToSet(l.pdus) \subseteq 0 .. Len(events')
  BY <1>7 DEF ToSet
<1>11. CallOK(events', rooms, AddAt(events', e), AddCall(l, e, r)) /\ AddCall(l, e, r) \in CallRecords
       /\ AddAt(events', e) \in PCs
  BY <1>5, <1>7, <1>8, <1>10, AddCallOK
<1>12. ops' \in [Kinds -> Nat]
  BY <1>1, BeginFact DEF Kinds
<1>13. QED
  BY <1>1, <1>6, <1>9, <1>11, <1>12, NewEventStep

\* The room of the resident server.
LEMMA ResidentRoom ==
  ASSUME CoreInv PROVE roomOf[Resident] \in 1 .. Len(rooms) /\ Resident \in ServerNames
<1>1. Resident \in ServerNames
  BY JoinAssumption DEF ServerNames, Users
<1>2. QED
  BY <1>1, NoGrowth DEF CoreInv

\* The joining server has an event to send.
LEMMA MakeJoinCore ==
  ASSUME CoreInv, NEW p \in Procs, NEW u \in Guests, NEW partial \in BOOLEAN, MakeJoin(p, u, partial)
  PROVE  CoreInv'
<1> DEFINE r == roomOf[Resident]
           e == Len(events')
           l == [Idle EXCEPT !.op = "join", !.srv = ServerOf[u], !.user = u, !.partial = partial, !.ev = e]
<1>1. /\ Begin(p, "join")
      /\ events' = Append(events, ProtoEventCreator(rooms[r], config.domainless, Member(u), u, "join"))
      /\ loc' = [loc EXCEPT ![p] = l] /\ pc' = [pc EXCEPT ![p] = "send"]
      /\ UNCHANGED <<config, rooms, roomOf, answers, results, panics>>
  BY DEF MakeJoin, Goto
<1>2. u \in Users /\ ServerOf[u] \in ServerNames
  BY DEF Users, ServerNames
<1>3. "join" \in Memberships /\ Member(u) \in Tuples \cup {Message}
  BY <1>2, TupleFacts DEF Memberships
<1>4. r \in 1 .. Len(rooms)
  BY ResidentRoom
<1> HIDE DEF r
<1>5. NewEventFact(events', r, Member(u), "join")
  BY <1>1, <1>2, <1>3, <1>4, NewEvent
<1>6. e \in 1 .. Len(events') /\ e \in Nat /\ events'[e].tuple = Member(u)
  BY <1>5 DEF NewEventFact
<1> HIDE DEF e
<1>7. /\ l \in CallRecords /\ l.op = "join" /\ l.srv = ServerOf[u] /\ l.user = u /\ l.ev = e
      /\ l.snap = {} /\ l.pdus = <<>>
  BY <1>2, <1>6, IdleFact DEF CallRecords
<1> HIDE DEF l
<1>8. ToSet(l.pdus) = {}
  BY <1>7 DEF ToSet
<1>9. CallOK(events', rooms, "send", l)
  BY <1>6, <1>7, <1>8 DEF CallOK
<1>10. ops' \in [Kinds -> Nat] /\ "send" \in PCs
  BY <1>1, BeginFact DEF Kinds, PCs
<1>11. QED
  BY <1>1, <1>5, <1>7, <1>9, <1>10, NewEventStep

\* The events of a room's state are events.
LEMMA StateEventsFact ==
  ASSUME NEW evs, NEW room, RoomOK(evs, room), NEW partial
  PROVE  StateEvents(room, partial) \subseteq 1 .. Len(evs)
  BY DEF StateEvents, RoomOK

\* The state list is made.
LEMMA SendJoinCore ==
  ASSUME CoreInv, NEW p \in Procs, SendJoin(p) PROVE CoreInv'
<1> DEFINE r == roomOf[Resident]
           snap == StateEvents(rooms[r], config.partial)
           l == [loc[p] EXCEPT !.room = r, !.snap = snap]
<1>1. /\ pc[p] = "send" /\ loc' = [loc EXCEPT ![p] = l] /\ pc' = [pc EXCEPT ![p] = "copy"]
      /\ UNCHANGED <<config, events, rooms, roomOf, ops, answers, results, panics>>
  BY DEF SendJoin, Goto
<1>2. loc[p] \in CallRecords /\ CallOK(events, rooms, "send", loc[p])
  BY <1>1, TheCall
<1>3. r \in 1 .. Len(rooms) /\ Len(rooms) \in Nat /\ Len(events) \in Nat
  BY ResidentRoom, NoGrowth
<1>4. snap \subseteq 1 .. Len(events)
  <2>1. RoomOK(events, rooms[r])
    BY <1>3 DEF CoreInv, RoomsOK
  <2>2. QED
    BY <2>1, StateEventsFact
<1> HIDE DEF r, snap
<1>5. r \in Nat /\ snap \in SUBSET Nat
  BY <1>3, <1>4
<1>6. /\ l \in CallRecords /\ l.room = r /\ l.snap = snap /\ l.op = loc[p].op /\ l.srv = loc[p].srv
      /\ l.user = loc[p].user /\ l.ev = loc[p].ev /\ l.pdus = loc[p].pdus
  BY <1>2, <1>5 DEF CallRecords
<1> HIDE DEF l
<1>7. CallOK(events, rooms, "copy", l)
  BY <1>2, <1>3, <1>4, <1>6 DEF CallOK
<1>8. ops' \in [Kinds -> Nat] /\ "copy" \in PCs
  BY <1>1 DEF CoreInv, PCs
<1>9. QED
  BY <1>1, <1>6, <1>7, <1>8, LocalStep

\* The timeline is copied.
LEMMA CopyTimelineCore ==
  ASSUME CoreInv, NEW p \in Procs, CopyTimeline(p) PROVE CoreInv'
<1> DEFINE known == ToSet(RoomOf(p).timeline)
           l == [loc[p] EXCEPT !.known = known]
<1>1. /\ pc[p] = "copy" /\ loc' = [loc EXCEPT ![p] = l] /\ pc' = [pc EXCEPT ![p] = "chain"]
      /\ UNCHANGED <<config, events, rooms, roomOf, ops, answers, results, panics>>
  BY DEF CopyTimeline, Goto
<1>2. loc[p] \in CallRecords /\ CallOK(events, rooms, "copy", loc[p])
  BY <1>1, TheCall
<1>3. known \subseteq Nat
  <2>1. loc[p].room \in 1 .. Len(rooms)
    BY <1>2 DEF CallOK
  <2>2. RoomOK(events, RoomOf(p)) /\ Len(events) \in Nat
    BY <2>1 DEF CoreInv, RoomsOK, RoomOf, EventsOK
  <2>3. QED
    BY <2>2 DEF RoomOK
<1> HIDE DEF known
<1>4. /\ l \in CallRecords /\ l.room = loc[p].room /\ l.snap = loc[p].snap /\ l.op = loc[p].op /\ l.srv = loc[p].srv
      /\ l.user = loc[p].user /\ l.ev = loc[p].ev /\ l.pdus = loc[p].pdus
  BY <1>2, <1>3 DEF CallRecords
<1> HIDE DEF l
<1>5. CallOK(events, rooms, "chain", l)
  BY <1>2, <1>4 DEF CallOK
<1>6. ops' \in [Kinds -> Nat] /\ "chain" \in PCs
  BY <1>1 DEF CoreInv, PCs
<1>7. QED
  BY <1>1, <1>4, <1>5, <1>6, LocalStep

\* Events refer to events.
LEMMA ChainInputFact ==
  ASSUME NEW evs, EventsOK(evs), NEW ids, ids \subseteq 1 .. Len(evs) PROVE ChainInput(evs, ids)
<1>1. Len(evs) \in Nat
  BY DEF EventsOK
<1>2. \A e \in 1 .. Len(evs) : 1 .. e - 1 \subseteq 1 .. Len(evs)
  BY <1>1
<1>3. QED
  BY <1>1, <1>2 DEF EventsOK, ChainInput

\* The walk.
LEMMA AuthChainCore ==
  ASSUME CoreInv, NEW p \in Procs, AuthChain(p) PROVE CoreInv'
<1> DEFINE known == EventsById(p)
           snap == loc[p].snap
           b == AuthChainForEvents(events, snap, known)
           l == [loc[p] EXCEPT !.chain = b.chain]
<1>1. pc[p] = "chain" /\ UNCHANGED <<config, events, rooms, roomOf, ops, results>>
  BY DEF AuthChain
<1>2. \/ b.panic /\ Return(p) /\ UNCHANGED answers
      \/ /\ ~b.panic /\ loc[p].op = "join" /\ UNCHANGED answers
         /\ loc' = [loc EXCEPT ![p] = l] /\ pc' = [pc EXCEPT ![p] = "servers"]
      \/ /\ ~b.panic /\ Return(p)
         /\ answers' = answers \cup {[state |-> snap, chain |-> b.chain]}
  BY DEF AuthChain, Goto
<1>3. loc[p] \in CallRecords /\ CallOK(events, rooms, "chain", loc[p])
  BY <1>1, TheCall
<1>4. EventsOK(events) /\ snap \subseteq 1 .. Len(events)
  BY <1>3 DEF CoreInv, CallOK
<1>5. ChainInput(events, snap)
  BY <1>4, ChainInputFact
<1> HIDE DEF known, snap
<1>6. /\ b.panic \in BOOLEAN
      /\ b.panic = FALSE =>
           /\ b.chain \in Seq(Nat) /\ ToSet(b.chain) \subseteq 1 .. Len(events)
           /\ Cardinality(ToSet(b.chain)) = Len(b.chain)
           /\ ToSet(b.chain) = UNION {events[e].auth : e \in snap \cup ToSet(b.chain)}
  BY <1>5, ChainCorrect
<1> HIDE DEF b
<1>7. b.panic = FALSE => b.chain \in Seq(Nat) /\ Closed(events, snap, b.chain)
  BY <1>4, <1>6 DEF Closed
<1>8. CASE b.panic /\ Return(p) /\ UNCHANGED answers
  BY <1>1, <1>8, ReturnStep
<1>9. CASE /\ ~b.panic /\ Return(p)
           /\ answers' = answers \cup {[state |-> snap, chain |-> b.chain]}
  <2>1. Closed(events, snap, b.chain)
    BY <1>6, <1>7, <1>9
  <2>2. \A a \in answers' : a \in answers \/ Closed(events, a.state, a.chain)
    BY <1>9, <2>1
  <2>3. QED
    BY <1>1, <1>9, <2>2, ReturnStep
<1>10. CASE /\ ~b.panic /\ loc[p].op = "join" /\ UNCHANGED answers
            /\ loc' = [loc EXCEPT ![p] = l] /\ pc' = [pc EXCEPT ![p] = "servers"]
  <2>1. Closed(events, snap, b.chain) /\ b.chain \in Seq(Nat)
    BY <1>6, <1>7, <1>10
  <2>2. /\ l \in CallRecords /\ l.room = loc[p].room /\ l.snap = snap /\ l.op = "join" /\ l.srv = loc[p].srv
        /\ l.user = loc[p].user /\ l.ev = loc[p].ev /\ l.pdus = loc[p].pdus /\ l.chain = b.chain
    BY <1>3, <1>10, <2>1 DEF CallRecords, snap
  <2> HIDE DEF l
  <2>3. CallOK(events, rooms, "servers", l)
    BY <1>3, <1>4, <1>10, <2>1, <2>2 DEF CallOK
  <2>4. ops' \in [Kinds -> Nat] /\ "servers" \in PCs
    BY <1>1 DEF CoreInv, PCs
  <2>5. QED
    BY <1>1, <1>10, <2>2, <2>3, <2>4, LocalStep
<1>11. QED
  BY <1>2, <1>8, <1>9, <1>10

\* The servers in the room are servers.
LEMMA FindServersCore ==
  ASSUME CoreInv, NEW p \in Procs, FindServers(p) PROVE CoreInv'
<1> DEFINE found == IF config.omitServers THEN {Resident} ELSE ServersInRoom(RoomOf(p).state, events)
           l == [loc[p] EXCEPT !.servers = found]
<1>1. /\ pc[p] = "servers" /\ loc' = [loc EXCEPT ![p] = l] /\ pc' = [pc EXCEPT ![p] = "state"]
      /\ UNCHANGED <<config, events, rooms, roomOf, ops, answers, results, panics>>
  BY DEF FindServers, Goto
<1>2. loc[p] \in CallRecords /\ CallOK(events, rooms, "servers", loc[p])
  BY <1>1, TheCall
<1>3. found \subseteq ServerNames
  BY ResidentRoom DEF ServersInRoom, ServerNames
<1> HIDE DEF found
<1>4. /\ l \in CallRecords /\ l.room = loc[p].room /\ l.snap = loc[p].snap /\ l.op = loc[p].op /\ l.srv = loc[p].srv
      /\ l.user = loc[p].user /\ l.ev = loc[p].ev /\ l.pdus = loc[p].pdus /\ l.chain = loc[p].chain
  BY <1>2, <1>3 DEF CallRecords
<1> HIDE DEF l
<1>5. events[l.ev].tuple # Message
  <2>1. loc[p].op = "join" /\ loc[p].user \in Users /\ events[l.ev].tuple = Member(loc[p].user)
    BY <1>2, <1>4 DEF CallOK, Users
  <2>2. QED
    BY <2>1, TupleFacts
<1>6. CallOK(events, rooms, "state", l)
  BY <1>2, <1>4, <1>5 DEF CallOK
<1>7. ops' \in [Kinds -> Nat] /\ "state" \in PCs
  BY <1>1 DEF CoreInv, PCs
<1>8. QED
  BY <1>1, <1>4, <1>6, <1>7, LocalStep

\* What ReplaceStates changes in a room, and what it leaves.
ReplacedFact(room, ids, new) ==
  /\ RoomOK(events, new)
  /\ new.made = room.made /\ new.timeline = room.timeline
  /\ new.depth = room.depth /\ new.extremity = room.extremity
  /\ \A k \in Tuples :
       \/ new.state[k] \in ids /\ events[new.state[k]].tuple = k
       \/ (\A x \in ids : events[x].tuple # k) /\ new.state[k] = room.state[k]

\* ReplaceStates of events.
LEMMA ReplaceStatesFact ==
  ASSUME EventsOK(events), NEW room, RoomOK(events, room), NEW ids, ids \subseteq 1 .. Len(events)
  PROVE  ReplacedFact(room, ids, ReplaceStates(room, ids))
<1> DEFINE st == [k \in Tuples |-> IF \E x \in ids : events[x].tuple = k
                                     THEN CHOOSE x \in ids : events[x].tuple = k ELSE room.state[k]]
           new == ReplaceStates(room, ids)
<1>1. room \in RoomRecords /\ room.state \in [Tuples -> Nat] /\ Len(events) \in Nat
  BY DEF RoomOK, EventsOK, RoomRecords
<1>2. new = [room EXCEPT !.state = st]
  BY DEF ReplaceStates
<1>3. ASSUME NEW k \in Tuples
      PROVE  \/ st[k] \in ids /\ events[st[k]].tuple = k
             \/ (\A x \in ids : events[x].tuple # k) /\ st[k] = room.state[k]
  <2>1. CASE \E x \in ids : events[x].tuple = k
    BY <2>1
  <2>2. CASE ~\E x \in ids : events[x].tuple = k
    BY <2>2
  <2>3. QED
    BY <2>1, <2>2
<1>4. st = [k \in Tuples |-> st[k]]
  OBVIOUS
<1> HIDE DEF st
<1>5. ASSUME NEW k \in Tuples PROVE st[k] \in Nat
  <2>1. ids \subseteq Nat
    BY <1>1
  <2>2. room.state[k] \in Nat
    BY <1>1
  <2>3. QED
    BY <1>3, <2>1, <2>2
<1>6. st \in [Tuples -> Nat]
  BY <1>4, <1>5
<1> HIDE DEF new
<1>7. /\ new.made = room.made /\ new.timeline = room.timeline /\ new.depth = room.depth
      /\ new.extremity = room.extremity /\ new.state = st
  BY <1>1, <1>2 DEF RoomRecords
<1>8. new \in RoomRecords
  BY <1>1, <1>2, <1>6 DEF RoomRecords
<1>9. \A k \in Tuples : st[k] # 0 => st[k] \in 1 .. Len(events) /\ events[st[k]].tuple = k
  BY <1>3 DEF RoomOK
<1>10. RoomOK(events, new)
  BY <1>7, <1>8, <1>9 DEF RoomOK
<1>11. QED
  BY <1>3, <1>7, <1>10 DEF ReplacedFact, new

\* The room that a joining server makes of a response.
PopulatedFact(ids, e, t, new) ==
  /\ RoomOK(events, new) /\ new.made = FALSE
  /\ new.state[t] = e
  /\ \A k \in Tuples : k # t =>
       \/ new.state[k] \in ids /\ events[new.state[k]].tuple = k
       \/ (\A x \in ids : events[x].tuple # k) /\ new.state[k] = 0
  /\ new.extremity = e /\ new.depth = events[e].depth

\* PopulateFromSendJoinResponse.
LEMMA PopulateFact ==
  ASSUME EventsOK(events), NEW ids, ids \subseteq 1 .. Len(events), NEW e, e \in 1 .. Len(events),
         NEW t, t \in Tuples, events[e].tuple = t
  PROVE  PopulatedFact(ids, e, t, PopulateFromSendJoinResponse(ids, e))
<1> DEFINE r0 == NewServerRoom(FALSE)
           r1 == ReplaceStates(r0, ids)
           r2 == AddEvent(r1, events, e)
<1>1. Len(events) \in Nat /\ events[e] \in EventRecords
  BY DEF EventsOK
<1>2. events[e].depth \in Nat
  BY <1>1 DEF EventRecords
<1>3. RoomOK(events, r0) /\ r0.made = FALSE /\ r0.depth = 0 /\ \A k \in Tuples : r0.state[k] = 0
  BY <1>1, NewServerRoomFact
<1> HIDE DEF r0
<1>4. /\ RoomOK(events, r1) /\ r1.made = r0.made /\ r1.depth = r0.depth
      /\ \A k \in Tuples :
           \/ r1.state[k] \in ids /\ events[r1.state[k]].tuple = k
           \/ (\A x \in ids : events[x].tuple # k) /\ r1.state[k] = r0.state[k]
  <2>1. RoomOK(events, r0)
    BY <1>3
  <2>2. ReplacedFact(r0, ids, r1)
    BY <2>1, ReplaceStatesFact
  <2>3. QED
    BY <2>2 DEF ReplacedFact
<1> HIDE DEF r1
<1>5. /\ RoomOK(events, r2) /\ r2.made = r1.made
      /\ r2.state[events[e].tuple] = e
      /\ \A k \in Tuples : k # events[e].tuple => r2.state[k] = r1.state[k]
      /\ r2.extremity = e
      /\ r2.depth = IF events[e].depth > r1.depth THEN events[e].depth ELSE r1.depth
  <2>1. events[e].tuple \in Tuples
    OBVIOUS
  <2>2. QED
    BY <1>4, <2>1, AddEventFact
<1>6. PopulateFromSendJoinResponse(ids, e) = r2
  BY DEF PopulateFromSendJoinResponse, r1, r0
<1> HIDE DEF r2
<1>7. r2.depth = events[e].depth
  BY <1>2, <1>3, <1>4, <1>5
<1>8. PopulatedFact(ids, e, t, r2)
  BY <1>3, <1>4, <1>5, <1>7 DEF PopulatedFact
<1>9. QED
  BY <1>6, <1>8

\* A room is made, and a server has it from now on.
LEMMA AddRoomStep ==
  ASSUME CoreInv, NEW p \in Procs, NEW s \in ServerNames, NEW new, RoomOK(events, new), NEW c \in PCs,
         rooms' = Append(rooms, new), roomOf' = [roomOf EXCEPT ![s] = Len(rooms')],
         pc' = [pc EXCEPT ![p] = c], CallOK(events, rooms', c, loc[p]), ops' \in [Kinds -> Nat],
         UNCHANGED <<config, events, loc, answers, results>>
  PROVE  CoreInv'
<1>1. config' = config /\ events' = events /\ loc' = loc /\ answers' = answers /\ results' = results
  OBVIOUS
<1>2. EventsOK(events) /\ RoomsOK(events, rooms) /\ roomOf \in [ServerNames -> 0 .. Len(rooms)] /\ roomOf[Resident] # 0
  BY DEF CoreInv
<1>3. RoomsOK(events, rooms') /\ RoomsGrow(rooms, rooms') /\ Len(rooms) \in Nat /\ Len(rooms') = Len(rooms) + 1
  BY <1>2, RoomAppended
<1>4. roomOf' \in [ServerNames -> 0 .. Len(rooms')] /\ roomOf'[Resident] # 0
  <2>1. Len(rooms') \in 0 .. Len(rooms') /\ Len(rooms') # 0 /\ 0 .. Len(rooms) \subseteq 0 .. Len(rooms')
    BY <1>3
  <2>2. roomOf \in [ServerNames -> 0 .. Len(rooms')]
    BY <1>2, <2>1
  <2>3. QED
    BY <1>2, <2>1, <2>2, ResidentRoom
<1>5. EventsGrow(events, events') /\ EventsOK(events') /\ RoomsOK(events', rooms') /\ CallOK(events', rooms', c, loc[p])
  BY <1>1, <1>2, <1>3, NoGrowth
<1>6. loc' = [loc EXCEPT ![p] = loc[p]] /\ loc[p] \in CallRecords
  BY <1>1, SameCall, TheCall
<1>7. (\A x \in results' : x \in results \/ ResultOK(rooms', x))
      /\ (\A a \in answers' : a \in answers \/ Closed(events', a.state, a.chain))
  BY <1>1
<1>8. QED
  BY <1>1, <1>3, <1>4, <1>5, <1>6, <1>7, CoreStep

\* The joining server stores its room.
LEMMA PopulateCore ==
  ASSUME CoreInv, NEW p \in Procs, Populate(p) PROVE CoreInv'
<1> DEFINE l == loc[p]
           new == PopulateFromSendJoinResponse(l.snap, l.ev)
<1>1. /\ pc[p] = "answered" /\ rooms' = Append(rooms, new)
      /\ roomOf' = [roomOf EXCEPT ![l.srv] = Len(rooms')]
      /\ pc' = [pc EXCEPT ![p] = "returned"]
      /\ UNCHANGED <<config, events, loc, ops, answers, results, panics>>
  BY DEF Populate, Goto
<1>2. l \in CallRecords /\ CallOK(events, rooms, "answered", l)
  BY <1>1, TheCall
<1>3. /\ EventsOK(events) /\ RoomsOK(events, rooms) /\ l.snap \subseteq 1 .. Len(events) /\ l.ev \in 1 .. Len(events)
      /\ l.user \in Guests /\ events[l.ev].tuple = Member(l.user)
  BY <1>2 DEF CallOK, CoreInv
<1>4. events[l.ev].tuple \in Tuples
  BY <1>3, TupleFacts DEF Users
<1>5. RoomOK(events, new)
  <2> DEFINE e == l.ev
             ids == l.snap
             t == events[e].tuple
  <2>1. ids \subseteq 1 .. Len(events) /\ e \in 1 .. Len(events) /\ t \in Tuples
    BY <1>3, <1>4
  <2> HIDE DEF e, ids
  <2>2. PopulatedFact(ids, e, t, PopulateFromSendJoinResponse(ids, e))
    BY <1>3, <2>1, PopulateFact
  <2>3. QED
    BY <2>2 DEF PopulatedFact, e, ids
<1> HIDE DEF new
<1>6. RoomsGrow(rooms, rooms')
  BY <1>1, <1>3, <1>5, RoomAppended
<1>7. CallOK(events, rooms', "returned", l)
  <2>1. EventsGrow(events, events)
    BY NoGrowth
  <2>2. CallOK(events, rooms', "answered", l)
    BY <1>2, <1>6, <2>1, CallOKGrows
  <2>3. QED
    BY <2>2 DEF CallOK
<1>8. l.srv \in ServerNames /\ ops' \in [Kinds -> Nat] /\ "returned" \in PCs
  BY <1>1, <1>2 DEF CoreInv, CallRecords, PCs
<1>9. QED
  BY <1>1, <1>5, <1>7, <1>8, AddRoomStep

\* A server knocks and has a room without events.
LEMMA KnockCore ==
  ASSUME CoreInv, NEW p \in Procs, NEW u \in Guests, MustKnockRoom(p, u) PROVE CoreInv'
<1> DEFINE new == NewServerRoom(FALSE)
<1>1. /\ Begin(p, "knock") /\ rooms' = Append(rooms, new)
      /\ roomOf' = [roomOf EXCEPT ![ServerOf[u]] = Len(rooms')]
      /\ UNCHANGED <<config, events, pc, loc, answers, results, panics>>
  BY DEF MustKnockRoom
<1>2. EventsOK(events) /\ RoomsOK(events, rooms) /\ Len(events) \in Nat
  BY NoGrowth DEF CoreInv
<1>3. RoomOK(events, new)
  BY <1>2, NewServerRoomFact
<1> HIDE DEF new
<1>4. RoomsGrow(rooms, rooms')
  BY <1>1, <1>2, <1>3, RoomAppended
<1>5. CallOK(events, rooms', pc[p], loc[p]) /\ pc[p] \in PCs
  <2>1. EventsGrow(events, events)
    BY NoGrowth
  <2>2. CallOK(events, rooms, pc[p], loc[p]) /\ pc[p] \in PCs
    BY TheCall
  <2>3. QED
    BY <1>4, <2>1, <2>2, CallOKGrows
<1>6. ServerOf[u] \in ServerNames /\ ops' \in [Kinds -> Nat]
  BY <1>1, BeginFact DEF ServerNames, Users, Kinds
<1>7. pc' = [pc EXCEPT ![p] = pc[p]]
  BY <1>1, SameCall
<1>8. QED
  BY <1>1, <1>3, <1>5, <1>6, <1>7, AddRoomStep

\* A server makes its leave event.
LEMMA LeaveBeginCore ==
  ASSUME CoreInv, NEW p \in Procs, NEW u \in Guests, LeaveBegin(p, u) PROVE CoreInv'
<1> DEFINE s == ServerOf[u]
           r == roomOf[s]
           e == Len(events')
           l == [Idle EXCEPT !.op = "leave", !.srv = s, !.user = u, !.ev = e, !.room = r]
<1>1. /\ Begin(p, "leave") /\ r # 0
      /\ events' = Append(events, ProtoEventCreator(rooms[r], config.domainless, Member(u), u, "leave"))
      /\ loc' = [loc EXCEPT ![p] = l] /\ pc' = [pc EXCEPT ![p] = "leaving"]
      /\ UNCHANGED <<config, rooms, roomOf, answers, results, panics>>
  BY DEF LeaveBegin, Goto
<1>2. u \in Users /\ s \in ServerNames
  BY DEF Users, ServerNames
<1> HIDE DEF s
<1>3. "leave" \in Memberships /\ Member(u) \in Tuples \cup {Message}
  BY <1>2, TupleFacts DEF Memberships
<1>4. r \in 1 .. Len(rooms) /\ r \in Nat
  BY <1>1, <1>2, NoGrowth DEF CoreInv
<1> HIDE DEF r
<1>5. NewEventFact(events', r, Member(u), "leave")
  BY <1>1, <1>2, <1>3, <1>4, NewEvent
<1>6. e \in 1 .. Len(events') /\ e \in Nat
  BY <1>5 DEF NewEventFact
<1> HIDE DEF e
<1>7. /\ l \in CallRecords /\ l.op = "leave" /\ l.ev = e /\ l.room = r /\ l.snap = {} /\ l.pdus = <<>>
  BY <1>2, <1>4, <1>6, IdleFact DEF CallRecords
<1> HIDE DEF l
<1>8. ToSet(l.pdus) = {}
  BY <1>7 DEF ToSet
<1>9. CallOK(events', rooms, "leaving", l)
  BY <1>4, <1>6, <1>7, <1>8 DEF CallOK
<1>10. ops' \in [Kinds -> Nat] /\ "leaving" \in PCs
  BY <1>1, BeginFact DEF Kinds, PCs
<1>11. QED
  BY <1>1, <1>5, <1>7, <1>9, <1>10, NewEventStep

\* A server adds its leave event.
LEMMA SendLeaveCore ==
  ASSUME CoreInv, NEW p \in Procs, SendLeave(p) PROVE CoreInv'
<1> DEFINE l == loc[p]
           e == l.ev
           r == l.room
<1>1. pc[p] = "leaving" /\ UNCHANGED <<config, events, rooms, roomOf, ops, answers, results, panics>>
  BY DEF SendLeave
<1>2. pc' = [pc EXCEPT ![p] = AddAt(events, e)] /\ loc' = [loc EXCEPT ![p] = AddCall(l, e, r)]
  BY DEF SendLeave, StartAdd, Goto, AddAt, AddCall
<1>3. l \in CallRecords /\ CallOK(events, rooms, "leaving", l) /\ Len(events) \in Nat /\ Len(rooms) \in Nat
  BY <1>1, TheCall, NoGrowth
<1>4. /\ e \in 1 .. Len(events) /\ r \in 1 .. Len(rooms) /\ l.op = "leave"
      /\ l.snap \subseteq 1 .. Len(events) /\ ToSet(l.pdus) \subseteq 0 .. Len(events)
  BY <1>3 DEF CallOK
<1> HIDE DEF l, e, r
<1>5. CallOK(events, rooms, AddAt(events, e), AddCall(l, e, r)) /\ AddCall(l, e, r) \in CallRecords
      /\ AddAt(events, e) \in PCs
  BY <1>3, <1>4, AddCallOK
<1>6. ops' \in [Kinds -> Nat]
  BY <1>1 DEF CoreInv
<1>7. QED
  BY <1>1, <1>2, <1>5, <1>6, LocalStep

\* A step of a call that begins and ends at once.
LEMMA RejectInviteCore ==
  ASSUME CoreInv, NEW p \in Procs, NEW u \in Guests, RejectInvite(p, u) PROVE CoreInv'
<1>1. ops' \in [Kinds -> Nat]
  BY BeginFact DEF RejectInvite, Kinds
<1>2. UNCHANGED <<config, events, rooms, roomOf, pc, loc, answers, results>>
  BY DEF RejectInvite
<1>3. pc' = [pc EXCEPT ![p] = pc[p]] /\ loc' = [loc EXCEPT ![p] = loc[p]]
  BY <1>2, SameCall
<1>4. QED
  BY <1>1, <1>2, <1>3, TheCall, LocalStep

\* A transaction arrives.
LEMMA TransactionBeginCore ==
  ASSUME CoreInv, NEW p \in Procs, NEW s \in ServerNames, NEW batch \in Batches, TransactionBegin(p, s, batch)
  PROVE  CoreInv'
<1> DEFINE l == [Idle EXCEPT !.op = "transaction", !.srv = s, !.pdus = batch]
<1>1. /\ Begin(p, "transaction") /\ ToSet(batch) \subseteq 0 .. Len(events)
      /\ UNCHANGED <<config, events, rooms, roomOf, answers, results, panics>>
  BY DEF TransactionBegin
<1>2. ops' \in [Kinds -> Nat] /\ "pdus" \in PCs
  BY <1>1, BeginFact DEF Kinds, PCs
<1>3. CASE UNCHANGED <<pc, loc>>
  <2>1. pc' = [pc EXCEPT ![p] = pc[p]] /\ loc' = [loc EXCEPT ![p] = loc[p]]
    BY <1>3, SameCall
  <2>2. QED
    BY <1>1, <1>2, <2>1, TheCall, LocalStep
<1>4. CASE loc' = [loc EXCEPT ![p] = l] /\ pc' = [pc EXCEPT ![p] = "pdus"]
  <2>1. batch \in Seq(Nat)
    BY JoinAssumption
  <2>2. l \in CallRecords /\ l.op = "transaction" /\ l.snap = {} /\ l.pdus = batch
    BY <2>1, IdleFact DEF CallRecords
  <2> HIDE DEF l
  <2>3. CallOK(events, rooms, "pdus", l)
    BY <1>1, <2>2 DEF CallOK
  <2>4. QED
    BY <1>1, <1>2, <1>4, <2>2, <2>3, LocalStep
<1>5. QED
  BY <1>3, <1>4 DEF TransactionBegin, Goto

\* The next PDU.
LEMMA NextPDUCore ==
  ASSUME CoreInv, NEW p \in Procs, NextPDU(p) PROVE CoreInv'
<1> DEFINE l == loc[p]
           e == Head(l.pdus)
           r == roomOf[l.srv]
           local == [l EXCEPT !.pdus = Tail(@)]
<1>1. /\ pc[p] = "pdus" /\ l.pdus # <<>>
      /\ UNCHANGED <<config, events, rooms, roomOf, ops, answers, results, panics>>
  BY DEF NextPDU
<1>2. \/ loc' = [loc EXCEPT ![p] = local] /\ UNCHANGED pc
      \/ /\ e # 0 /\ r # 0
         /\ pc' = [pc EXCEPT ![p] = AddAt(events, e)] /\ loc' = [loc EXCEPT ![p] = AddCall(local, e, r)]
  BY DEF NextPDU, StartAdd, Goto, AddAt, AddCall
<1>3. l \in CallRecords /\ CallOK(events, rooms, "pdus", l) /\ Len(events) \in Nat /\ Len(rooms) \in Nat
  BY <1>1, TheCall, NoGrowth
<1>4. l.op = "transaction" /\ l.snap \subseteq 1 .. Len(events) /\ ToSet(l.pdus) \subseteq 0 .. Len(events)
  BY <1>3 DEF CallOK
<1>5. l.pdus \in Seq(Nat) /\ l.srv \in ServerNames
  BY <1>3, CallFields
<1>6. Tail(l.pdus) \in Seq(Nat) /\ ToSet(Tail(l.pdus)) \subseteq ToSet(l.pdus) /\ e \in ToSet(l.pdus)
  <2> DEFINE s == l.pdus
  <2> HIDE DEF s
  <2>1. s \in Seq(Nat) /\ s # <<>>
    BY <1>1, <1>5 DEF s
  <2>2. /\ Tail(s) \in Seq(Nat) /\ Len(s) \in Nat \ {0} /\ DOMAIN s = 1 .. Len(s) /\ Head(s) = s[1]
        /\ DOMAIN Tail(s) = 1 .. Len(s) - 1 /\ \A k \in 1 .. Len(s) - 1 : Tail(s)[k] = s[k + 1]
    BY <2>1
  <2>3. 1 \in 1 .. Len(s) /\ \A k \in 1 .. Len(s) - 1 : k + 1 \in 1 .. Len(s)
    BY <2>2
  <2>4. QED
    BY <2>2, <2>3 DEF ToSet, s
<1>7. local \in CallRecords /\ local.op = l.op /\ local.snap = l.snap /\ local.pdus = Tail(l.pdus)
  BY <1>3, <1>6 DEF CallRecords
<1>8. local.op # "join" /\ local.op = "transaction" /\ local.snap \subseteq 1 .. Len(events)
      /\ ToSet(local.pdus) \subseteq 0 .. Len(events)
  BY <1>4, <1>6, <1>7
<1>9. e \in 0 .. Len(events) /\ r \in 0 .. Len(rooms)
  BY <1>4, <1>5, <1>6 DEF CoreInv
<1> HIDE DEF e, r, local
<1>10. ops' \in [Kinds -> Nat] /\ "pdus" \in PCs
  BY <1>1 DEF CoreInv, PCs
<1>11. CASE loc' = [loc EXCEPT ![p] = local] /\ UNCHANGED pc
  <2>1. CallOK(events, rooms, "pdus", local)
    BY <1>8 DEF CallOK
  <2>2. pc' = [pc EXCEPT ![p] = "pdus"]
    BY <1>1, <1>11, SameCall
  <2>3. QED
    BY <1>1, <1>7, <1>10, <1>11, <2>1, <2>2, LocalStep
<1>12. CASE /\ e # 0 /\ r # 0
            /\ pc' = [pc EXCEPT ![p] = AddAt(events, e)] /\ loc' = [loc EXCEPT ![p] = AddCall(local, e, r)]
  <2>1. e \in 1 .. Len(events) /\ r \in 1 .. Len(rooms)
    BY <1>9, <1>12
  <2>2. CallOK(events, rooms, AddAt(events, e), AddCall(local, e, r)) /\ AddCall(local, e, r) \in CallRecords
        /\ AddAt(events, e) \in PCs
    BY <1>3, <1>7, <1>8, <2>1, AddCallOK
  <2>3. QED
    BY <1>1, <1>10, <1>12, <2>2, LocalStep
<1>13. QED
  BY <1>2, <1>11, <1>12

\* A request for the auth chain of one event.
LEMMA EventAuthCore ==
  ASSUME CoreInv, NEW p \in Procs, NEW s \in ServerNames, NEW e \in EventIds, EventAuth(p, s, e) PROVE CoreInv'
<1> DEFINE r == roomOf[s]
           l == [Idle EXCEPT !.op = "eventAuth", !.srv = s, !.room = r, !.snap = {e}]
<1>1. /\ Begin(p, "eventAuth") /\ r # 0
      /\ loc' = [loc EXCEPT ![p] = l] /\ pc' = [pc EXCEPT ![p] = "copy"]
      /\ UNCHANGED <<config, events, rooms, roomOf, answers, results, panics>>
  BY DEF EventAuth, Goto
<1>2. r \in 1 .. Len(rooms) /\ r \in Nat
  BY <1>1, NoGrowth DEF CoreInv
<1> HIDE DEF r
<1>3. {e} \subseteq 1 .. Len(events) /\ {e} \in SUBSET Nat
  BY NoGrowth DEF EventIds
<1>4. l \in CallRecords /\ l.op = "eventAuth" /\ l.room = r /\ l.snap = {e} /\ l.pdus = <<>>
  BY <1>2, <1>3, IdleFact DEF CallRecords
<1> HIDE DEF l
<1>5. ToSet(l.pdus) = {}
  BY <1>4 DEF ToSet
<1>6. CallOK(events, rooms, "copy", l)
  BY <1>2, <1>3, <1>4, <1>5 DEF CallOK
<1>7. ops' \in [Kinds -> Nat] /\ "copy" \in PCs
  BY <1>1, BeginFact DEF Kinds, PCs
<1>8. QED
  BY <1>1, <1>4, <1>6, <1>7, LocalStep

\* Steps that only return.
LEMMA ReturnsCore ==
  ASSUME CoreInv, NEW p \in Procs,
         SendJoinFails(p) \/ LoseResponse(p) \/ Returned(p) \/ SendLeaveFails(p) \/ NilEventPanic(p) \/ TransactionEnd(p)
  PROVE  CoreInv'
<1>1. Return(p) /\ UNCHANGED <<config, events, rooms, roomOf, ops, answers, results>>
  BY DEF SendJoinFails, LoseResponse, Returned, SendLeaveFails, NilEventPanic, TransactionEnd
<1>2. QED
  BY <1>1, ReturnStep

\* Every step preserves CoreInv.
LEMMA StepCore ==
  ASSUME CoreInv, NEW p \in Procs, Step(p) PROVE CoreInv'
<1>1. CASE WriteState(p) \/ WriteTimeline(p) \/ WriteHeads(p)
  BY <1>1, WriteStateCore, WriteTimelineCore, WriteHeadsCore
<1>2. CASE \E s \in ServerNames, tuple \in Changes : CreateEvent(p, s, tuple)
  BY <1>2, CreateEventCore
<1>3. CASE \E u \in Guests, partial \in BOOLEAN : MakeJoin(p, u, partial)
  BY <1>3, MakeJoinCore
<1>4. CASE SendJoin(p) \/ CopyTimeline(p) \/ AuthChain(p) \/ FindServers(p) \/ Populate(p)
  BY <1>4, SendJoinCore, CopyTimelineCore, AuthChainCore, FindServersCore, PopulateCore
<1>5. CASE SendJoinFails(p) \/ LoseResponse(p) \/ Returned(p) \/ SendLeaveFails(p) \/ NilEventPanic(p) \/ TransactionEnd(p)
  BY <1>5, ReturnsCore
<1>6. CASE \E u \in Guests : MustKnockRoom(p, u) \/ LeaveBegin(p, u) \/ RejectInvite(p, u)
  BY <1>6, KnockCore, LeaveBeginCore, RejectInviteCore
<1>7. CASE SendLeave(p) \/ NextPDU(p)
  BY <1>7, SendLeaveCore, NextPDUCore
<1>8. CASE \E s \in ServerNames, batch \in Batches : TransactionBegin(p, s, batch)
  BY <1>8, TransactionBeginCore
<1>9. CASE \E s \in ServerNames, e \in EventIds : EventAuth(p, s, e)
  BY <1>9, EventAuthCore
<1>10. QED
  BY <1>1, <1>2, <1>3, <1>4, <1>5, <1>6, <1>7, <1>8, <1>9 DEF Step

-----------------------------------------------------------------------------
(* Calls that overlap, and calls that do not *)

\* A step is one of p.
OnlyP(p) ==
  /\ \A q \in Procs : q # p => pc'[q] = pc[q] /\ loc'[q] = loc[q]
  /\ pc[p] # "idle" \/ ops' # ops

\* A step moves one call, which runs or begins.
LEMMA OneMoves ==
  ASSUME CoreInv, NEW p \in Procs, Step(p) PROVE OnlyP(p)
<1>1. pc \in [Procs -> PCs] /\ loc \in [Procs -> CallRecords]
  BY DEF CoreInv
<1>2. CASE WriteState(p) \/ WriteTimeline(p)
  BY <1>1, <1>2 DEF WriteState, WriteTimeline, Goto, OnlyP
<1>3. CASE WriteHeads(p)
  BY <1>1, <1>3 DEF WriteHeads, Goto, Return, OnlyP
<1>4. ASSUME NEW s \in ServerNames, NEW tuple \in Changes, CreateEvent(p, s, tuple) PROVE OnlyP(p)
  <2>1. ops' # ops
    BY <1>4, BeginFact DEF CreateEvent, Kinds
  <2>2. \A q \in Procs : q # p => pc'[q] = pc[q] /\ loc'[q] = loc[q]
    BY <1>1, <1>4 DEF CreateEvent, StartAdd, Goto
  <2>3. QED
    BY <2>1, <2>2 DEF OnlyP
<1>5. ASSUME NEW u \in Guests, NEW partial \in BOOLEAN, MakeJoin(p, u, partial) PROVE OnlyP(p)
  <2>1. ops' # ops
    BY <1>5, BeginFact DEF MakeJoin, Kinds
  <2>2. QED
    BY <1>1, <1>5, <2>1 DEF MakeJoin, Goto, OnlyP
<1>6. CASE SendJoin(p) \/ CopyTimeline(p) \/ FindServers(p)
  BY <1>1, <1>6 DEF SendJoin, CopyTimeline, FindServers, Goto, OnlyP
<1>7. CASE AuthChain(p)
  BY <1>1, <1>7 DEF AuthChain, Goto, Return, OnlyP
<1>8. CASE Populate(p)
  BY <1>1, <1>8 DEF Populate, Goto, OnlyP
<1>9. CASE SendJoinFails(p) \/ LoseResponse(p) \/ Returned(p) \/ SendLeaveFails(p) \/ NilEventPanic(p) \/ TransactionEnd(p)
  BY <1>1, <1>9 DEF SendJoinFails, LoseResponse, Returned, SendLeaveFails, NilEventPanic, TransactionEnd,
     Goto, Return, OnlyP
<1>10. ASSUME NEW u \in Guests, MustKnockRoom(p, u) \/ LeaveBegin(p, u) \/ RejectInvite(p, u) PROVE OnlyP(p)
  <2>1. ops' # ops
    BY <1>10, BeginFact DEF MustKnockRoom, LeaveBegin, RejectInvite, Kinds
  <2>2. QED
    BY <1>1, <1>10, <2>1 DEF MustKnockRoom, LeaveBegin, RejectInvite, Goto, OnlyP
<1>11. CASE SendLeave(p)
  BY <1>1, <1>11 DEF SendLeave, StartAdd, Goto, OnlyP
<1>12. CASE NextPDU(p)
  BY <1>1, <1>12 DEF NextPDU, StartAdd, Goto, OnlyP
<1>13. ASSUME NEW s \in ServerNames, NEW batch \in Batches, TransactionBegin(p, s, batch) PROVE OnlyP(p)
  <2>1. ops' # ops
    BY <1>13, BeginFact DEF TransactionBegin, Kinds
  <2>2. QED
    BY <1>1, <1>13, <2>1 DEF TransactionBegin, Goto, OnlyP
<1>14. ASSUME NEW s \in ServerNames, NEW e \in EventIds, EventAuth(p, s, e) PROVE OnlyP(p)
  <2>1. ops' # ops
    BY <1>14, BeginFact DEF EventAuth, Kinds
  <2>2. QED
    BY <1>1, <1>14, <2>1 DEF EventAuth, Goto, OnlyP
<1>15. QED
  BY <1>2, <1>3, <1>4, <1>5, <1>6, <1>7, <1>8, <1>9, <1>10, <1>11, <1>12, <1>13, <1>14 DEF Step

\* What Observe records.
LEMMA Observed ==
  ASSUME NEW p \in Procs, NEW q \in Procs, Observe(q), alone'[p], pc'[p] # "idle"
  PROVE  /\ \A x \in Procs : pc'[x] # "idle" => x = p
         /\ ops' # ops => q = p
         /\ alone[p]
  BY DEF Observe

\* While nothing overlaps with p's call, the steps are p's.
LEMMA AloneMoves ==
  ASSUME CoreInv, AloneInv, NEW q \in Procs, OnlyP(q), Observe(q), NEW p \in Procs, alone'[p], pc'[p] # "idle"
  PROVE  q = p /\ alone[p] /\ \A x \in Procs : x # p => pc[x] = "idle" /\ pc'[x] = "idle"
<1>1. /\ \A x \in Procs : pc'[x] # "idle" => x = p
      /\ ops' # ops => q = p
      /\ alone[p]
  BY Observed
<1>2. q = p
  <2>1. SUFFICES ASSUME q # p PROVE FALSE
    OBVIOUS
  <2>2. ops' = ops /\ pc[q] # "idle" /\ pc'[p] = pc[p]
    BY <1>1, <2>1 DEF OnlyP
  <2>3. pc[q] = "idle"
    BY <1>1, <2>1, <2>2 DEF AloneInv
  <2>4. QED
    BY <2>2, <2>3
<1>3. \A x \in Procs : x # p => pc[x] = "idle" /\ pc'[x] = "idle"
  BY <1>1, <1>2 DEF OnlyP
<1>4. QED
  BY <1>1, <1>2, <1>3

\* AloneInv holds after every step.
LEMMA AloneStep ==
  ASSUME NEW q \in Procs, Observe(q) PROVE AloneInv'
<1>1. alone' \in [Procs -> BOOLEAN]
  BY DEF Observe
<1>2. ASSUME NEW p \in Procs, alone'[p], pc'[p] # "idle", NEW x \in Procs, x # p PROVE pc'[x] = "idle"
  BY <1>2, Observed
<1>3. QED
  BY <1>1, <1>2 DEF AloneInv

\* The facts about calls that nothing overlaps with need to be shown for the
\* call that steps only.
LEMMA AloneParts ==
  ASSUME CoreInv, AloneInv, NEW p \in Procs, OnlyP(p), Observe(p),
         alone'[p] /\ pc'[p] # "idle" /\ alone[p] /\ (\A x \in Procs : x # p => pc[x] = "idle") =>
           /\ Copied(rooms'[loc'[p].room], pc'[p], loc'[p])
           /\ Staged(config', events', rooms', roomOf'[Resident], pc'[p], loc'[p])
           /\ pc'[p] = "returned" =>
                Viewed(config', events', rooms'[roomOf'[loc'[p].srv]], rooms'[roomOf'[Resident]], loc'[p])
  PROVE  CopyInv' /\ StageInv' /\ JoinedView'
<1>1. ASSUME NEW q \in Procs, alone'[q], pc'[q] # "idle"
      PROVE  /\ Copied(rooms'[loc'[q].room], pc'[q], loc'[q])
             /\ Staged(config', events', rooms', roomOf'[Resident], pc'[q], loc'[q])
             /\ pc'[q] = "returned" =>
                  Viewed(config', events', rooms'[roomOf'[loc'[q].srv]], rooms'[roomOf'[Resident]], loc'[q])
  <2>1. p = q /\ alone[q] /\ \A x \in Procs : x # q => pc[x] = "idle"
    BY <1>1, AloneMoves
  <2>2. QED
    BY <1>1, <2>1
<1>2. ASSUME NEW q \in Procs, pc'[q] = "idle"
      PROVE  /\ Copied(rooms'[loc'[q].room], pc'[q], loc'[q])
             /\ Staged(config', events', rooms', roomOf'[Resident], pc'[q], loc'[q])
  BY <1>2 DEF Copied, Staged
<1>3. CopyInv'
  BY <1>1, <1>2 DEF CopyInv
<1>4. StageInv'
  BY <1>1, <1>2 DEF StageInv
<1>5. JoinedView'
  <2>1. SUFFICES ASSUME NEW q \in Procs, pc'[q] = "returned", alone'[q],
                        Viewed(config', events', rooms'[roomOf'[loc'[q].srv]], rooms'[roomOf'[Resident]], loc'[q])
                 PROVE  LET here == rooms'[roomOf'[loc'[q].srv]]
                            there == rooms'[roomOf'[Resident]]
                            sent(u) == \E e \in loc'[q].snap : events'[e].tuple = Member(u) /\ events'[e].membership = "join"
                        IN /\ \A k \in Tuples :
                                here.state[k] = IF config'.partial /\ IsMember(k) /\ k # Member(loc'[q].user)
                                                  THEN 0 ELSE there.state[k]
                           /\ here.extremity = there.extremity /\ here.depth = there.depth
                           /\ loc'[q].ev \notin loc'[q].snap
                           /\ loc'[q].servers = IF config'.omitServers THEN {Resident}
                                                ELSE IF config'.partial THEN loc'[q].servers
                                                ELSE {ServerOf[u] : u \in {v \in Users : sent(v)}}
    BY <1>1 DEF JoinedView
  <2>2. QED
    BY <2>1 DEF Viewed, ListedServers, SentServers
<1>6. QED
  BY <1>3, <1>4, <1>5

-----------------------------------------------------------------------------
(* The rest of the invariant, action by action *)

\* The state of made rooms stays, and nobody is past the write of the timeline.
LEMMA MadeKept ==
  ASSUME MadeStored, NEW p \in Procs, OnlyP(p), pc[p] # "append",
         \A r \in 1 .. Len(rooms') : rooms'[r].made =>
           /\ r \in 1 .. Len(rooms) /\ rooms[r].made
           /\ rooms'[r].state = rooms[r].state /\ rooms'[r].timeline = rooms[r].timeline
  PROVE  MadeStored'
<1>1. ASSUME NEW r \in 1 .. Len(rooms'), rooms'[r].made, NEW k \in Tuples, rooms'[r].state[k] # 0
      PROVE  \/ rooms'[r].state[k] \in ToSet(rooms'[r].timeline)
             \/ \E q \in Procs : pc'[q] = "append" /\ loc'[q].room = r /\ loc'[q].ev = rooms'[r].state[k]
  <2>1. /\ r \in 1 .. Len(rooms) /\ rooms[r].made
        /\ rooms'[r].state = rooms[r].state /\ rooms'[r].timeline = rooms[r].timeline
    BY <1>1
  <2>2. \/ rooms[r].state[k] \in ToSet(rooms[r].timeline)
        \/ \E q \in Procs : pc[q] = "append" /\ loc[q].room = r /\ loc[q].ev = rooms[r].state[k]
    BY <1>1, <2>1 DEF MadeStored
  <2>3. CASE \E q \in Procs : pc[q] = "append" /\ loc[q].room = r /\ loc[q].ev = rooms[r].state[k]
    <3>1. PICK q \in Procs : pc[q] = "append" /\ loc[q].room = r /\ loc[q].ev = rooms[r].state[k]
      BY <2>3
    <3>2. pc'[q] = pc[q] /\ loc'[q] = loc[q]
      BY <3>1 DEF OnlyP
    <3>3. QED
      BY <2>1, <3>1, <3>2
  <2>4. QED
    BY <2>1, <2>2, <2>3
<1>2. QED
  BY <1>1 DEF MadeStored

\* A step that leaves rooms, and joins that nothing overlaps with, alone.
Quiet(p) ==
  /\ rooms' = rooms /\ pc[p] # "append"
  /\ \A x \in panics' : x \in panics \/ x.op \notin {"join", "eventAuth"}
  /\ pc'[p] = "idle" \/ (loc'[p].op # "join" /\ pc'[p] \notin {"copy", "chain", "returned"})

\* What FederationInv says beyond CoreInv and AloneInv.
Rest == MadeStored /\ CopyInv /\ StageInv /\ PanicsExplained /\ JoinedView

\* Such a step preserves the rest of the invariant.
LEMMA QuietRest ==
  ASSUME FederationInv, NEW p \in Procs, OnlyP(p), Observe(p), Quiet(p) PROVE Rest'
<1>1. MadeStored'
  <2>1. rooms' = rooms /\ pc[p] # "append" /\ MadeStored
    BY DEF Quiet, FederationInv
  <2>2. QED
    BY <2>1, MadeKept
<1>2. PanicsExplained'
  BY DEF Quiet, FederationInv, PanicsExplained
<1>3. ASSUME pc'[p] # "idle"
      PROVE  /\ Copied(rooms'[loc'[p].room], pc'[p], loc'[p])
             /\ Staged(config', events', rooms', roomOf'[Resident], pc'[p], loc'[p])
             /\ pc'[p] # "returned"
  BY <1>3 DEF Quiet, Copied, Staged
<1>4. CopyInv' /\ StageInv' /\ JoinedView'
  BY <1>3, AloneParts DEF FederationInv
<1>5. QED
  BY <1>1, <1>2, <1>4 DEF Rest

\* A call that returns is quiet.
LEMMA ReturnQuiet ==
  ASSUME CoreInv, NEW p \in Procs, Return(p), rooms' = rooms, pc[p] # "append",
         \A x \in panics' : x \in panics \/ x.op \notin {"join", "eventAuth"}
  PROVE  Quiet(p)
<1>1. pc'[p] = "idle"
  BY DEF Return, Goto, CoreInv
<1>2. QED
  BY <1>1 DEF Quiet

\* AddEvent of a call that is not a join.
LEMMA StartAddQuiet ==
  ASSUME CoreInv, NEW p \in Procs, NEW l \in CallRecords, NEW evs, NEW e \in Nat, NEW r \in Nat, l.op # "join",
         StartAdd(p, l, evs, e, r), rooms' = rooms, pc[p] # "append", panics' = panics
  PROVE  Quiet(p)
<1>1. pc'[p] = AddAt(evs, e) /\ loc'[p] = AddCall(l, e, r)
  BY DEF StartAdd, Goto, AddAt, AddCall, CoreInv
<1>2. AddCall(l, e, r).op = l.op
  BY AddCallFields
<1>3. AddAt(evs, e) \in {"append", "state"}
  BY DEF AddAt
<1>4. pc'[p] \notin {"copy", "chain", "returned"} /\ loc'[p].op # "join"
  BY <1>1, <1>2, <1>3
<1>5. QED
  BY <1>4 DEF Quiet

\* The quiet steps.
LEMMA QuietSteps ==
  ASSUME CoreInv, NEW p \in Procs,
         \/ \E s \in ServerNames, tuple \in Changes : CreateEvent(p, s, tuple)
         \/ SendJoinFails(p) \/ LoseResponse(p) \/ Returned(p) \/ SendLeaveFails(p) \/ NilEventPanic(p)
         \/ TransactionEnd(p)
         \/ \E u \in Guests : LeaveBegin(p, u) \/ RejectInvite(p, u)
         \/ SendLeave(p) \/ NextPDU(p)
         \/ \E s \in ServerNames, batch \in Batches : TransactionBegin(p, s, batch)
  PROVE  Quiet(p)
<1>0. pc \in [Procs -> PCs] /\ loc \in [Procs -> CallRecords] /\ loc[p] \in CallRecords /\ Len(rooms) \in Nat
      /\ Len(events) \in Nat
  BY NoGrowth DEF CoreInv
<1>1. ASSUME NEW s \in ServerNames, NEW tuple \in Changes, CreateEvent(p, s, tuple) PROVE Quiet(p)
  <2> DEFINE l == [Idle EXCEPT !.op = "create", !.srv = s]
             r == roomOf[s]
             e == Len(events')
  <2>1. StartAdd(p, l, events', e, r) /\ rooms' = rooms /\ panics' = panics
    BY <1>1 DEF CreateEvent
  <2>2. pc[p] # "append"
    BY <1>1 DEF CreateEvent, Begin
  <2>3. l \in CallRecords /\ l.op # "join"
    BY IdleFact DEF CallRecords
  <2> HIDE DEF l
  <2>4. e \in Nat /\ r \in Nat
    <3>1. Len(events') \in Nat
      BY <1>1, CreateEventCore DEF CoreInv, EventsOK
    <3>2. QED
      BY <1>0, <3>1 DEF CoreInv
  <2> HIDE DEF e, r
  <2>5. QED
    BY <2>1, <2>2, <2>3, <2>4, StartAddQuiet
<1>2. CASE SendJoinFails(p) \/ LoseResponse(p) \/ Returned(p) \/ SendLeaveFails(p) \/ TransactionEnd(p)
  BY <1>2, ReturnQuiet DEF SendJoinFails, LoseResponse, Returned, SendLeaveFails, TransactionEnd
<1>3. CASE NilEventPanic(p)
  BY <1>3, ReturnQuiet DEF NilEventPanic
<1>4. ASSUME NEW u \in Guests, LeaveBegin(p, u) PROVE Quiet(p)
  <2>1. pc'[p] = "leaving" /\ rooms' = rooms /\ panics' = panics /\ pc[p] # "append"
    BY <1>0, <1>4 DEF LeaveBegin, Goto, Begin
  <2>2. loc'[p].op = "leave"
    BY <1>0, <1>4, IdleFact DEF LeaveBegin, CallRecords
  <2>3. QED
    BY <2>1, <2>2 DEF Quiet
<1>5. ASSUME NEW u \in Guests, RejectInvite(p, u) PROVE Quiet(p)
  BY <1>0, <1>5 DEF RejectInvite, Begin, Quiet
<1>6. CASE SendLeave(p)
  <2>1. StartAdd(p, loc[p], events, loc[p].ev, loc[p].room) /\ rooms' = rooms /\ panics' = panics /\ pc[p] = "leaving"
    BY <1>6 DEF SendLeave
  <2>2. loc[p].op # "join"
    BY <2>1, TheCall DEF CallOK
  <2>3. loc[p].ev \in Nat /\ loc[p].room \in Nat
    BY <1>0, CallFields
  <2>4. QED
    BY <1>0, <2>1, <2>2, <2>3, StartAddQuiet
<1>7. CASE NextPDU(p)
  <2> DEFINE l == loc[p]
             e == Head(l.pdus)
             r == roomOf[l.srv]
             local == [l EXCEPT !.pdus = Tail(@)]
  <2>1. pc[p] = "pdus" /\ rooms' = rooms /\ panics' = panics /\ l.pdus # <<>>
    BY <1>7 DEF NextPDU
  <2>2. \/ loc' = [loc EXCEPT ![p] = local] /\ UNCHANGED pc
        \/ StartAdd(p, local, events, e, r)
    BY <1>7 DEF NextPDU
  <2>3. l.op = "transaction"
    BY <2>1, TheCall DEF CallOK
  <2>4. l.pdus \in Seq(Nat) /\ l.srv \in ServerNames
    BY <1>0, CallFields
  <2>5. Tail(l.pdus) \in Seq(Nat) /\ e \in Nat
    <3> DEFINE s == l.pdus
    <3> HIDE DEF s
    <3>1. s \in Seq(Nat) /\ s # <<>>
      BY <2>1, <2>4 DEF s
    <3>2. Tail(s) \in Seq(Nat) /\ Head(s) \in Nat
      BY <3>1
    <3>3. QED
      BY <3>2 DEF s
  <2>6. local \in CallRecords /\ local.op = "transaction"
    BY <1>0, <2>3, <2>5 DEF CallRecords
  <2>7. r \in Nat
    BY <1>0, <2>4 DEF CoreInv
  <2> HIDE DEF e, r, local
  <2>8. CASE loc' = [loc EXCEPT ![p] = local] /\ UNCHANGED pc
    <3>1. loc'[p].op = "transaction" /\ pc'[p] = "pdus"
      BY <1>0, <2>1, <2>6, <2>8
    <3>2. QED
      BY <2>1, <3>1 DEF Quiet
  <2>9. CASE StartAdd(p, local, events, e, r)
    <3>1. local.op # "join" /\ pc[p] # "append" /\ e \in Nat
      BY <2>1, <2>5, <2>6 DEF e
    <3>2. QED
      BY <2>1, <2>6, <2>7, <2>9, <3>1, StartAddQuiet
  <2>10. QED
    BY <2>2, <2>8, <2>9
<1>8. ASSUME NEW s \in ServerNames, NEW batch \in Batches, TransactionBegin(p, s, batch) PROVE Quiet(p)
  <2> DEFINE l == [Idle EXCEPT !.op = "transaction", !.srv = s, !.pdus = batch]
  <2>1. pc[p] = "idle" /\ rooms' = rooms /\ panics' = panics
    BY <1>8 DEF TransactionBegin, Begin
  <2>2. \/ UNCHANGED <<pc, loc>>
        \/ loc' = [loc EXCEPT ![p] = l] /\ pc' = [pc EXCEPT ![p] = "pdus"]
    BY <1>8 DEF TransactionBegin, Goto
  <2>3. l.op = "transaction"
    BY IdleFact DEF CallRecords
  <2> HIDE DEF l
  <2>4. pc'[p] = "idle" \/ (loc'[p].op = "transaction" /\ pc'[p] = "pdus")
    BY <1>0, <2>1, <2>2, <2>3
  <2>5. QED
    BY <2>1, <2>4 DEF Quiet
<1>9. QED
  BY <1>1, <1>2, <1>3, <1>4, <1>5, <1>6, <1>7, <1>8

\* The state list, in terms of the state.
LEMMA StateListFact ==
  ASSUME NEW cfg, NEW evs, NEW there, RoomOK(evs, there), NEW ids, ids = StateEvents(there, cfg.partial)
  PROVE  /\ \A k \in Tuples : there.state[k] # 0 /\ Sends(cfg, k) => there.state[k] \in ids
         /\ \A x \in ids : /\ x # 0 /\ evs[x].tuple \in Tuples /\ Sends(cfg, evs[x].tuple)
                           /\ there.state[evs[x].tuple] = x
  BY DEF StateEvents, RoomOK, Sends

\* The join event enters the state that was sent.
LEMMA WrittenFact ==
  ASSUME NEW cfg, NEW evs, NEW there, RoomOK(evs, there), NEW l, BeforeWrite(cfg, evs, there, l),
         NEW new, new.state[Member(l.user)] = l.ev, new.depth = there.depth,
         \A k \in Tuples : k # Member(l.user) => new.state[k] = there.state[k]
  PROVE  AfterWrite(cfg, evs, new, l)
<1>1. /\ \A k \in Tuples : there.state[k] # 0 /\ Sends(cfg, k) => there.state[k] \in l.snap
      /\ \A x \in l.snap : /\ x # 0 /\ evs[x].tuple \in Tuples /\ Sends(cfg, evs[x].tuple)
                           /\ there.state[evs[x].tuple] = x
  BY StateListFact DEF BeforeWrite
<1>2. QED
  BY <1>1 DEF AfterWrite

\* AfterWrite is about the state only.
LEMMA AfterWriteKept ==
  ASSUME NEW cfg, NEW evs, NEW there, NEW l, AfterWrite(cfg, evs, there, l), NEW new, new.state = there.state
  PROVE  AfterWrite(cfg, evs, new, l)
  BY DEF AfterWrite

\* A call that writes a room r: what rooms are afterwards.
LEMMA RoomAfterWrite ==
  ASSUME CoreInv, NEW r \in 1 .. Len(rooms), NEW new, RoomOK(events, new), RoomLonger(rooms[r], new),
         rooms' = [rooms EXCEPT ![r] = new]
  PROVE  /\ Len(rooms') = Len(rooms) /\ rooms'[r] = new
         /\ \A x \in 1 .. Len(rooms) : x # r => rooms'[x] = rooms[x]
<1>1. RoomsOK(events, rooms)
  BY DEF CoreInv
<1>2. RoomWritten(events, rooms, r, new, rooms')
  BY <1>1, WriteRoom
<1>3. QED
  BY <1>2 DEF RoomWritten

\* The state is written: the event is in the state and about to be in the timeline.
LEMMA WriteStateRest ==
  ASSUME FederationInv, NEW p \in Procs, OnlyP(p), Observe(p), WriteState(p) PROVE Rest'
<1> DEFINE l == loc[p]
           r == l.room
           e == l.ev
           t == events[e].tuple
           room == rooms[r]
           new == ReplaceCurrentState(room, events, e)
<1>0. CoreInv /\ MadeStored /\ StageInv
  BY DEF FederationInv
<1>1. /\ pc[p] = "state" /\ rooms' = [rooms EXCEPT ![r] = new] /\ pc' = [pc EXCEPT ![p] = "append"]
      /\ UNCHANGED <<config, events, roomOf, loc, ops, answers, results, panics>>
  BY DEF WriteState, Goto
<1>2. CallOK(events, rooms, "state", l) /\ l \in CallRecords
  BY <1>0, <1>1, TheCall
<1>3. e \in 1 .. Len(events) /\ r \in 1 .. Len(rooms) /\ t # Message
  BY <1>2 DEF CallOK
<1>4. EventsOK(events) /\ RoomsOK(events, rooms) /\ Len(events) \in Nat
  BY <1>0 DEF CoreInv, EventsOK
<1>5. t \in Tuples
  <2>1. events[e] \in EventRecords
    BY <1>3, <1>4 DEF EventsOK
  <2>2. QED
    BY <1>3, <2>1 DEF EventRecords
<1>6. RoomOK(events, room)
  BY <1>3, <1>4 DEF RoomsOK
<1>7. t = events[e].tuple /\ room = rooms[r] /\ r = l.room /\ e = l.ev
  OBVIOUS
<1> HIDE DEF l, r, e, t, room
<1>8. /\ RoomOK(events, new)
      /\ new.made = room.made /\ new.timeline = room.timeline
      /\ new.depth = room.depth /\ new.extremity = room.extremity
      /\ new.state[t] = e
      /\ \A k \in Tuples : k # t => new.state[k] = room.state[k]
  BY <1>3, <1>4, <1>5, <1>6, <1>7, ReplaceCurrentStateFact
<1> HIDE DEF new
<1>9. /\ Len(rooms') = Len(rooms) /\ rooms'[r] = new
      /\ \A x \in 1 .. Len(rooms) : x # r => rooms'[x] = rooms[x]
  <2>1. RoomLonger(rooms[r], new)
    BY <1>7, <1>8 DEF RoomLonger
  <2>2. QED
    BY <1>0, <1>1, <1>3, <1>8, <2>1, RoomAfterWrite
<1>10. pc'[p] = "append" /\ loc'[p] = l /\ pc[p] = "state"
  BY <1>0, <1>1 DEF CoreInv, l
<1>11. MadeStored'
  <2>1. SUFFICES ASSUME NEW x \in 1 .. Len(rooms'), rooms'[x].made, NEW k \in Tuples, rooms'[x].state[k] # 0
                 PROVE  \/ rooms'[x].state[k] \in ToSet(rooms'[x].timeline)
                        \/ \E q \in Procs : pc'[q] = "append" /\ loc'[q].room = x /\ loc'[q].ev = rooms'[x].state[k]
    BY DEF MadeStored
  <2>2. CASE x = r /\ k = t
    BY <1>7, <1>8, <1>9, <1>10, <2>2
  <2>3. CASE ~(x = r /\ k = t)
    <3>1. rooms'[x].state[k] = rooms[x].state[k] /\ rooms'[x].timeline = rooms[x].timeline /\ rooms[x].made
      BY <1>7, <1>8, <1>9, <2>1, <2>3
    <3>2. \/ rooms[x].state[k] \in ToSet(rooms[x].timeline)
          \/ \E q \in Procs : pc[q] = "append" /\ loc[q].room = x /\ loc[q].ev = rooms[x].state[k]
      BY <1>0, <1>9, <2>1, <3>1 DEF MadeStored
    <3>3. CASE \E q \in Procs : pc[q] = "append" /\ loc[q].room = x /\ loc[q].ev = rooms[x].state[k]
      <4>1. PICK q \in Procs : pc[q] = "append" /\ loc[q].room = x /\ loc[q].ev = rooms[x].state[k]
        BY <3>3
      <4>2. q # p
        BY <1>10, <4>1
      <4>3. pc'[q] = pc[q] /\ loc'[q] = loc[q]
        BY <4>2 DEF OnlyP
      <4>4. QED
        BY <3>1, <4>1, <4>3
    <3>4. QED
      BY <3>1, <3>2, <3>3
  <2>4. QED
    BY <2>2, <2>3
<1>12. PanicsExplained'
  BY <1>1 DEF FederationInv, PanicsExplained
<1>13. ASSUME alone[p]
       PROVE  Staged(config', events', rooms', roomOf'[Resident], pc'[p], loc'[p])
  <2>1. SUFFICES ASSUME l.op = "join" PROVE Staged(config, events, rooms', roomOf[Resident], "append", l)
    BY <1>1, <1>10 DEF Staged
  <2>2. Staged(config, events, rooms, roomOf[Resident], "state", l)
    BY <1>0, <1>10, <1>13 DEF StageInv, l
  <2>3. r = roomOf[Resident] /\ JoinStage(config, events, room, "state", l)
    BY <1>7, <2>1, <2>2 DEF Staged
  <2>4. BeforeWrite(config, events, room, l) /\ ListedServers(config, events, l) /\ l.ev \notin l.snap
    BY <2>3 DEF JoinStage
  <2>5. t = Member(l.user)
    BY <1>2, <1>7, <2>1 DEF CallOK
  <2>6. AfterWrite(config, events, new, l)
    BY <1>6, <1>7, <1>8, <2>4, <2>5, WrittenFact
  <2>7. events[l.ev].depth = new.depth + 1
    BY <1>8, <2>4 DEF BeforeWrite
  <2>8. JoinStage(config, events, new, "append", l)
    BY <2>4, <2>6, <2>7 DEF JoinStage
  <2>9. QED
    BY <1>7, <1>9, <2>3, <2>8 DEF Staged
<1>14. Copied(rooms'[loc'[p].room], pc'[p], loc'[p])
  BY <1>10 DEF Copied
<1>15. CopyInv' /\ StageInv' /\ JoinedView'
  BY <1>10, <1>13, <1>14, AloneParts DEF FederationInv
<1>16. QED
  BY <1>11, <1>12, <1>15 DEF Rest

\* The timeline is written: the event of the state is in it.
LEMMA WriteTimelineRest ==
  ASSUME FederationInv, NEW p \in Procs, OnlyP(p), Observe(p), WriteTimeline(p) PROVE Rest'
<1> DEFINE l == loc[p]
           r == l.room
           e == l.ev
           room == rooms[r]
           new == AppendTimeline(room, e)
<1>0. CoreInv /\ MadeStored /\ StageInv
  BY DEF FederationInv
<1>1. /\ pc[p] = "append" /\ rooms' = [rooms EXCEPT ![r] = new] /\ pc' = [pc EXCEPT ![p] = "heads"]
      /\ UNCHANGED <<config, events, roomOf, loc, ops, answers, results, panics>>
  BY DEF WriteTimeline, Goto
<1>2. CallOK(events, rooms, "append", l) /\ l \in CallRecords
  BY <1>0, <1>1, TheCall
<1>3. e \in 1 .. Len(events) /\ r \in 1 .. Len(rooms)
  BY <1>2 DEF CallOK
<1>4. EventsOK(events) /\ RoomsOK(events, rooms) /\ Len(events) \in Nat
  BY <1>0 DEF CoreInv, EventsOK
<1>6. RoomOK(events, room)
  BY <1>3, <1>4 DEF RoomsOK
<1>7. room = rooms[r] /\ r = l.room /\ e = l.ev
  OBVIOUS
<1> HIDE DEF l, r, e, room
<1>8. /\ RoomOK(events, new)
      /\ new.made = room.made /\ new.state = room.state
      /\ new.depth = room.depth /\ new.extremity = room.extremity
      /\ ToSet(new.timeline) = ToSet(room.timeline) \cup {e}
  BY <1>3, <1>4, <1>6, AppendTimelineFact
<1> HIDE DEF new
<1>9. /\ Len(rooms') = Len(rooms) /\ rooms'[r] = new
      /\ \A x \in 1 .. Len(rooms) : x # r => rooms'[x] = rooms[x]
  <2>1. RoomLonger(rooms[r], new)
    BY <1>7, <1>8 DEF RoomLonger
  <2>2. QED
    BY <1>0, <1>1, <1>3, <1>8, <2>1, RoomAfterWrite
<1>10. pc'[p] = "heads" /\ loc'[p] = l /\ pc[p] = "append"
  BY <1>0, <1>1 DEF CoreInv, l
<1>11. MadeStored'
  <2>1. SUFFICES ASSUME NEW x \in 1 .. Len(rooms'), rooms'[x].made, NEW k \in Tuples, rooms'[x].state[k] # 0
                 PROVE  \/ rooms'[x].state[k] \in ToSet(rooms'[x].timeline)
                        \/ \E q \in Procs : pc'[q] = "append" /\ loc'[q].room = x /\ loc'[q].ev = rooms'[x].state[k]
    BY DEF MadeStored
  <2>2. /\ rooms'[x].state[k] = rooms[x].state[k] /\ rooms[x].made
        /\ \A d \in ToSet(rooms[x].timeline) : d \in ToSet(rooms'[x].timeline)
        /\ x = r => e \in ToSet(rooms'[x].timeline)
    BY <1>7, <1>8, <1>9, <2>1
  <2>3. \/ rooms[x].state[k] \in ToSet(rooms[x].timeline)
        \/ \E q \in Procs : pc[q] = "append" /\ loc[q].room = x /\ loc[q].ev = rooms[x].state[k]
    BY <1>0, <1>9, <2>1, <2>2 DEF MadeStored
  <2>4. CASE \E q \in Procs : pc[q] = "append" /\ loc[q].room = x /\ loc[q].ev = rooms[x].state[k]
    <3>1. PICK q \in Procs : pc[q] = "append" /\ loc[q].room = x /\ loc[q].ev = rooms[x].state[k]
      BY <2>4
    <3>2. CASE q = p
      BY <1>7, <2>2, <3>1, <3>2 DEF l
    <3>3. CASE q # p
      <4>1. pc'[q] = pc[q] /\ loc'[q] = loc[q]
        BY <3>3 DEF OnlyP
      <4>2. QED
        BY <2>2, <3>1, <4>1
    <3>4. QED
      BY <3>2, <3>3
  <2>5. QED
    BY <2>2, <2>3, <2>4
<1>12. PanicsExplained'
  BY <1>1 DEF FederationInv, PanicsExplained
<1>13. ASSUME alone[p]
       PROVE  Staged(config', events', rooms', roomOf'[Resident], pc'[p], loc'[p])
  <2>1. SUFFICES ASSUME l.op = "join" PROVE Staged(config, events, rooms', roomOf[Resident], "heads", l)
    BY <1>1, <1>10 DEF Staged
  <2>2. Staged(config, events, rooms, roomOf[Resident], "append", l)
    BY <1>0, <1>10, <1>13 DEF StageInv, l
  <2>3. r = roomOf[Resident] /\ JoinStage(config, events, room, "append", l)
    BY <1>7, <2>1, <2>2 DEF Staged
  <2>4. /\ AfterWrite(config, events, room, l) /\ ListedServers(config, events, l)
        /\ events[l.ev].depth = room.depth + 1 /\ l.ev \notin l.snap
    BY <2>3 DEF JoinStage
  <2>5. AfterWrite(config, events, new, l)
    BY <1>8, <2>4, AfterWriteKept
  <2>6. JoinStage(config, events, new, "heads", l)
    BY <1>8, <2>4, <2>5 DEF JoinStage
  <2>7. QED
    BY <1>7, <1>9, <2>3, <2>6 DEF Staged
<1>14. Copied(rooms'[loc'[p].room], pc'[p], loc'[p])
  BY <1>10 DEF Copied
<1>15. CopyInv' /\ StageInv' /\ JoinedView'
  BY <1>10, <1>13, <1>14, AloneParts DEF FederationInv
<1>16. QED
  BY <1>11, <1>12, <1>15 DEF Rest

\* The end of AddEvent: a join has its answer.
LEMMA WriteHeadsRest ==
  ASSUME FederationInv, NEW p \in Procs, OnlyP(p), Observe(p), WriteHeads(p) PROVE Rest'
<1> DEFINE l == loc[p]
           r == l.room
           e == l.ev
           room == rooms[r]
           new == SetHeads(room, events, e)
<1>0. CoreInv /\ MadeStored /\ StageInv
  BY DEF FederationInv
<1>1. /\ pc[p] = "heads" /\ rooms' = [rooms EXCEPT ![r] = new]
      /\ UNCHANGED <<config, events, ops, panics>>
  BY DEF WriteHeads
<1>2. CallOK(events, rooms, "heads", l) /\ l \in CallRecords
  BY <1>0, <1>1, TheCall
<1>3. e \in 1 .. Len(events) /\ r \in 1 .. Len(rooms)
  BY <1>2 DEF CallOK
<1>4. EventsOK(events) /\ RoomsOK(events, rooms) /\ Len(events) \in Nat
  BY <1>0 DEF CoreInv, EventsOK
<1>5. \/ pc'[p] = "idle"
      \/ pc'[p] = "pdus" /\ loc'[p] = l /\ l.op = "transaction"
      \/ pc'[p] = "answered" /\ loc'[p] = l /\ l.op = "join" /\ roomOf' = roomOf
  BY <1>0 DEF WriteHeads, Goto, Return, CoreInv
<1>6. RoomOK(events, room)
  BY <1>3, <1>4 DEF RoomsOK
<1>7. room = rooms[r] /\ r = l.room /\ e = l.ev
  OBVIOUS
<1> HIDE DEF l, r, e, room
<1>8. /\ RoomOK(events, new)
      /\ new.made = room.made /\ new.state = room.state /\ new.timeline = room.timeline
      /\ new.extremity = e
      /\ new.depth = IF events[e].depth > room.depth THEN events[e].depth ELSE room.depth
  BY <1>3, <1>4, <1>6, SetHeadsFact
<1> HIDE DEF new
<1>9. /\ Len(rooms') = Len(rooms) /\ rooms'[r] = new
      /\ \A x \in 1 .. Len(rooms) : x # r => rooms'[x] = rooms[x]
  <2>1. RoomLonger(rooms[r], new)
    BY <1>7, <1>8 DEF RoomLonger
  <2>2. QED
    BY <1>0, <1>1, <1>3, <1>8, <2>1, RoomAfterWrite
<1>11. MadeStored'
  <2>1. pc[p] # "append"
    BY <1>1
  <2>2. \A x \in 1 .. Len(rooms') : rooms'[x].made =>
           /\ x \in 1 .. Len(rooms) /\ rooms[x].made
           /\ rooms'[x].state = rooms[x].state /\ rooms'[x].timeline = rooms[x].timeline
    BY <1>7, <1>8, <1>9
  <2>3. QED
    BY <1>0, <2>1, <2>2, MadeKept
<1>12. PanicsExplained'
  BY <1>1 DEF FederationInv, PanicsExplained
<1>13. ASSUME alone[p]
       PROVE  Staged(config', events', rooms', roomOf'[Resident], pc'[p], loc'[p])
  <2>1. CASE pc'[p] = "idle"
    BY <2>1 DEF Staged
  <2>2. CASE pc'[p] = "pdus" /\ loc'[p] = l /\ l.op = "transaction"
    BY <2>2 DEF Staged
  <2>3. CASE pc'[p] = "answered" /\ loc'[p] = l /\ l.op = "join" /\ roomOf' = roomOf
    <3>1. SUFFICES Staged(config, events, rooms', roomOf[Resident], "answered", l)
      BY <1>1, <2>3
    <3>2. Staged(config, events, rooms, roomOf[Resident], "heads", l)
      BY <1>0, <1>1, <1>13 DEF StageInv, l
    <3>3. r = roomOf[Resident] /\ JoinStage(config, events, room, "heads", l)
      BY <1>7, <2>3, <3>2 DEF Staged
    <3>4. /\ AfterWrite(config, events, room, l) /\ ListedServers(config, events, l)
          /\ events[l.ev].depth = room.depth + 1 /\ l.ev \notin l.snap
      BY <3>3 DEF JoinStage
    <3>5. AfterWrite(config, events, new, l)
      BY <1>8, <3>4, AfterWriteKept
    <3>6. new.depth = events[l.ev].depth
      <4>1. room.depth \in Nat
        BY <1>6, RoomFields DEF RoomOK
      <4>2. QED
        BY <1>7, <1>8, <3>4, <4>1
    <3>7. JoinStage(config, events, new, "answered", l)
      BY <1>7, <1>8, <3>4, <3>5, <3>6 DEF JoinStage
    <3>8. QED
      BY <1>7, <1>9, <3>3, <3>7 DEF Staged
  <2>4. QED
    BY <1>5, <2>1, <2>2, <2>3
<1>14. Copied(rooms'[loc'[p].room], pc'[p], loc'[p]) /\ pc'[p] # "returned"
  BY <1>5 DEF Copied
<1>15. CopyInv' /\ StageInv' /\ JoinedView'
  BY <1>13, <1>14, AloneParts DEF FederationInv
<1>16. QED
  BY <1>11, <1>12, <1>15 DEF Rest

\* What a step that leaves rooms and panics alone leaves of the invariant.
LEMMA SameRooms ==
  ASSUME FederationInv, NEW p \in Procs, OnlyP(p), pc[p] # "append", rooms' = rooms, panics' = panics
  PROVE  MadeStored' /\ PanicsExplained'
<1>1. MadeStored'
  BY MadeKept DEF FederationInv
<1>2. PanicsExplained'
  BY DEF FederationInv, PanicsExplained
<1>3. QED
  BY <1>1, <1>2

\* The join event of make_join is one deeper than the room.
LEMMA MakeJoinRest ==
  ASSUME FederationInv, NEW p \in Procs, OnlyP(p), Observe(p), NEW u \in Guests, NEW partial \in BOOLEAN,
         MakeJoin(p, u, partial)
  PROVE  Rest'
<1> DEFINE r == roomOf[Resident]
           e == Len(events')
           l == [Idle EXCEPT !.op = "join", !.srv = ServerOf[u], !.user = u, !.partial = partial, !.ev = e]
<1>0. CoreInv
  BY DEF FederationInv
<1>1. /\ Begin(p, "join")
      /\ events' = Append(events, ProtoEventCreator(rooms[r], config.domainless, Member(u), u, "join"))
      /\ loc' = [loc EXCEPT ![p] = l] /\ pc' = [pc EXCEPT ![p] = "send"]
      /\ UNCHANGED <<config, rooms, roomOf, answers, results, panics>>
  BY DEF MakeJoin, Goto
<1>2. u \in Users /\ ServerOf[u] \in ServerNames
  BY DEF Users, ServerNames
<1>3. "join" \in Memberships /\ Member(u) \in Tuples \cup {Message}
  BY <1>2, TupleFacts DEF Memberships
<1>4. r \in 1 .. Len(rooms)
  BY <1>0, ResidentRoom
<1> HIDE DEF r
<1>5. NewEventFact(events', r, Member(u), "join")
  BY <1>0, <1>1, <1>2, <1>3, <1>4, NewEvent
<1>6. events'[e].depth = rooms[r].depth + 1 /\ e \in Nat
  BY <1>5 DEF NewEventFact
<1>6a. \A k \in Tuples : rooms[r].state[k] # e
  <2>1. RoomOK(events, rooms[r])
    BY <1>0, <1>4 DEF CoreInv, RoomsOK
  <2>2. Len(events) \in Nat /\ e = Len(events) + 1
    BY <1>0, <1>1 DEF CoreInv
  <2>3. QED
    BY <2>1, <2>2 DEF RoomOK
<1> HIDE DEF e
<1>7. l.ev = e
  BY <1>2, <1>6, IdleFact DEF CallRecords
<1> HIDE DEF l
<1>8. pc'[p] = "send" /\ loc'[p] = l /\ pc[p] # "append"
  BY <1>0, <1>1 DEF CoreInv, Begin
<1>9. Staged(config', events', rooms', roomOf'[Resident], pc'[p], loc'[p])
  <2>1. JoinStage(config, events', rooms[r], "send", l)
    BY <1>6, <1>6a, <1>7 DEF JoinStage
  <2>2. QED
    BY <1>1, <1>8, <2>1 DEF Staged, r
<1>10. Copied(rooms'[loc'[p].room], pc'[p], loc'[p])
  BY <1>8 DEF Copied
<1>11. CopyInv' /\ StageInv' /\ JoinedView'
  BY <1>8, <1>9, <1>10, AloneParts DEF FederationInv
<1>12. QED
  BY <1>1, <1>8, <1>11, SameRooms DEF Rest

\* The state list is that of the room, and of the timeline if nothing overlaps.
LEMMA SendJoinRest ==
  ASSUME FederationInv, NEW p \in Procs, OnlyP(p), Observe(p), SendJoin(p) PROVE Rest'
<1> DEFINE r == roomOf[Resident]
           room == rooms[r]
           snap == StateEvents(room, config.partial)
           k == loc[p]
           l == [k EXCEPT !.room = r, !.snap = snap]
<1>0. CoreInv /\ MadeStored /\ StageInv
  BY DEF FederationInv
<1>1. /\ pc[p] = "send" /\ loc' = [loc EXCEPT ![p] = l] /\ pc' = [pc EXCEPT ![p] = "copy"]
      /\ UNCHANGED <<config, events, rooms, roomOf, ops, answers, results, panics>>
  BY DEF SendJoin, Goto
<1>2. k \in CallRecords /\ CallOK(events, rooms, "send", k)
  BY <1>0, <1>1, TheCall
<1>3. r \in 1 .. Len(rooms)
  BY <1>0, ResidentRoom
<1>4. RoomOK(events, room)
  BY <1>0, <1>3 DEF CoreInv, RoomsOK
<1>5. l.room = r /\ l.snap = snap /\ l.op = k.op /\ l.ev = k.ev
  BY <1>2 DEF CallRecords
<1>6. k.op = "join"
  BY <1>2 DEF CallOK
<1>7. pc'[p] = "copy" /\ loc'[p] = l /\ pc[p] # "append"
  BY <1>0, <1>1 DEF CoreInv
<1> HIDE DEF l
<1>8. ASSUME alone[p]
      PROVE  Staged(config', events', rooms', roomOf'[Resident], pc'[p], loc'[p])
  <2>1. Staged(config, events, rooms, r, "send", k)
    BY <1>0, <1>1, <1>8 DEF StageInv
  <2>2. events[k.ev].depth = room.depth + 1 /\ \A x \in Tuples : room.state[x] # k.ev
    BY <1>6, <2>1 DEF Staged, JoinStage
  <2>3. BeforeWrite(config, events, room, l)
    BY <1>5, <2>2 DEF BeforeWrite
  <2>4. l.ev \notin l.snap
    BY <1>5, <2>2 DEF StateEvents
  <2>5. JoinStage(config, events, room, "copy", l)
    BY <2>3, <2>4 DEF JoinStage
  <2>6. QED
    BY <1>1, <1>5, <1>7, <2>5 DEF Staged
<1>9. ASSUME \A x \in Procs : x # p => pc[x] = "idle"
      PROVE  Copied(rooms'[loc'[p].room], pc'[p], loc'[p])
  <2>1. SUFFICES ASSUME room.made PROVE snap \subseteq ToSet(room.timeline)
    BY <1>1, <1>5, <1>7 DEF Copied
  <2>2. \A q \in Procs : pc[q] # "append"
    BY <1>1, <1>9
  <2>3. \A t \in Tuples : room.state[t] # 0 => room.state[t] \in ToSet(room.timeline)
    BY <1>0, <1>3, <2>1, <2>2 DEF MadeStored
  <2>4. QED
    BY <2>3 DEF StateEvents
<1>10. CopyInv' /\ StageInv' /\ JoinedView'
  BY <1>7, <1>8, <1>9, AloneParts DEF FederationInv
<1>11. QED
  BY <1>1, <1>7, <1>10, SameRooms DEF Rest

\* The timeline is copied whole.
LEMMA CopyTimelineRest ==
  ASSUME FederationInv, NEW p \in Procs, OnlyP(p), Observe(p), CopyTimeline(p) PROVE Rest'
<1> DEFINE k == loc[p]
           room == rooms[k.room]
           l == [k EXCEPT !.known = ToSet(room.timeline)]
<1>0. CoreInv /\ CopyInv /\ StageInv
  BY DEF FederationInv
<1>1. /\ pc[p] = "copy" /\ loc' = [loc EXCEPT ![p] = l] /\ pc' = [pc EXCEPT ![p] = "chain"]
      /\ UNCHANGED <<config, events, rooms, roomOf, ops, answers, results, panics>>
  BY DEF CopyTimeline, Goto, RoomOf
<1>2. k \in CallRecords
  BY <1>0, <1>1, TheCall
<1>3. /\ l.room = k.room /\ l.snap = k.snap /\ l.op = k.op /\ l.ev = k.ev /\ l.known = ToSet(room.timeline)
      /\ l.user = k.user /\ l.servers = k.servers
  BY <1>2 DEF CallRecords
<1>4. pc'[p] = "chain" /\ loc'[p] = l /\ pc[p] # "append"
  BY <1>0, <1>1 DEF CoreInv
<1> HIDE DEF l
<1>5. ASSUME alone[p]
      PROVE  /\ Staged(config', events', rooms', roomOf'[Resident], pc'[p], loc'[p])
             /\ Copied(rooms'[loc'[p].room], pc'[p], loc'[p])
  <2>1. Staged(config, events, rooms, roomOf[Resident], "copy", k) /\ Copied(room, "copy", k)
    BY <1>0, <1>1, <1>5 DEF StageInv, CopyInv
  <2>2. Copied(room, "chain", l)
    BY <1>3, <2>1 DEF Copied
  <2>3. Staged(config, events, rooms, roomOf[Resident], "chain", l)
    BY <1>3, <2>1 DEF Staged, JoinStage, BeforeWrite
  <2>4. QED
    BY <1>1, <1>3, <1>4, <2>2, <2>3
<1>6. CopyInv' /\ StageInv' /\ JoinedView'
  BY <1>4, <1>5, AloneParts DEF FederationInv
<1>7. QED
  BY <1>1, <1>4, <1>6, SameRooms DEF Rest

\* The walk over a made room without gaps does not panic, if nothing overlaps.
LEMMA ChainWalks ==
  ASSUME FederationInv, NEW p \in Procs, pc[p] = "chain", alone[p], RoomOf(p).made, ~Gap(RoomOf(p))
  PROVE  AuthChainForEvents(events, loc[p].snap, EventsById(p)).panic = FALSE
<1> DEFINE room == RoomOf(p)
           C == ToSet(room.timeline)
           snap == loc[p].snap
           known == EventsById(p)
<1>0. CoreInv /\ CopyInv
  BY DEF FederationInv
<1>1. CallOK(events, rooms, "chain", loc[p])
  BY <1>0, TheCall
<1>2. EventsOK(events) /\ snap \subseteq 1 .. Len(events)
  BY <1>0, <1>1 DEF CoreInv, CallOK
<1>3. ChainInput(events, snap)
  BY <1>2, ChainInputFact
<1>4. snap \subseteq C /\ loc[p].known = C
  BY <1>0 DEF CopyInv, Copied, RoomOf
<1>5. C \subseteq known
  BY <1>4 DEF EventsById
<1>6. \A e \in C : events[e].auth \subseteq C
  BY DEF Gap, ToSet
<1> HIDE DEF C, snap, known, room
<1>7. AuthChainForEvents(events, snap, known).panic = FALSE
  BY <1>3, <1>4, <1>5, <1>6, NoPanic
<1>8. QED
  BY <1>7 DEF snap, known

\* The walk ends.
LEMMA AuthChainRest ==
  ASSUME FederationInv, NEW p \in Procs, OnlyP(p), Observe(p), AuthChain(p) PROVE Rest'
<1> DEFINE b == AuthChainForEvents(events, loc[p].snap, EventsById(p))
           k == loc[p]
           l == [k EXCEPT !.chain = b.chain]
           x == [op |-> k.op, made |-> RoomOf(p).made, gap |-> Gap(RoomOf(p)), alone |-> alone[p]]
<1>0. CoreInv /\ StageInv /\ MadeStored /\ PanicsExplained
  BY DEF FederationInv
<1>1. pc[p] = "chain" /\ UNCHANGED <<config, events, rooms, roomOf, ops, results>>
  BY DEF AuthChain
<1>2. \/ b.panic /\ Return(p) /\ panics' = panics \cup {x}
      \/ ~b.panic /\ Return(p) /\ panics' = panics
      \/ /\ ~b.panic /\ k.op = "join" /\ panics' = panics
         /\ loc' = [loc EXCEPT ![p] = l] /\ pc' = [pc EXCEPT ![p] = "servers"]
  BY DEF AuthChain, Goto
<1>3. k \in CallRecords
  BY <1>0, TheCall
<1> HIDE DEF b
<1>4. l.room = k.room /\ l.snap = k.snap /\ l.op = k.op /\ l.ev = k.ev /\ l.user = k.user /\ l.servers = k.servers
  BY <1>3 DEF CallRecords
<1> HIDE DEF l
<1>5. \/ pc'[p] = "idle"
      \/ pc'[p] = "servers" /\ loc'[p] = l
  BY <1>0, <1>2 DEF Return, Goto, CoreInv
<1>6. MadeStored'
  BY <1>0, <1>1, MadeKept
<1>7. PanicsExplained'
  <2>1. CASE b.panic /\ panics' = panics \cup {x}
    <3>1. ~(RoomOf(p).made /\ ~Gap(RoomOf(p)) /\ alone[p])
      BY <1>1, <2>1, ChainWalks DEF b
    <3>2. ~x.made \/ x.gap \/ ~x.alone
      BY <3>1
    <3> HIDE DEF x
    <3>3. QED
      BY <1>0, <2>1, <3>2 DEF PanicsExplained
  <2>2. CASE panics' = panics
    BY <1>0, <2>2 DEF PanicsExplained
  <2>3. QED
    BY <1>2, <2>1, <2>2
<1>8. ASSUME alone[p], pc'[p] # "idle"
      PROVE  Staged(config', events', rooms', roomOf'[Resident], pc'[p], loc'[p])
  <2>1. Staged(config, events, rooms, roomOf[Resident], "chain", k)
    BY <1>0, <1>1, <1>8 DEF StageInv
  <2>2. Staged(config, events, rooms, roomOf[Resident], "servers", l)
    BY <1>4, <2>1 DEF Staged, JoinStage, BeforeWrite
  <2>3. QED
    BY <1>1, <1>5, <1>8, <2>2
<1>9. Copied(rooms'[loc'[p].room], pc'[p], loc'[p]) /\ pc'[p] # "returned"
  BY <1>5 DEF Copied
<1>10. CopyInv' /\ StageInv' /\ JoinedView'
  BY <1>8, <1>9, AloneParts DEF FederationInv
<1>11. QED
  BY <1>6, <1>7, <1>10 DEF Rest

\* The joined servers of a state that is sent whole are those of what is sent.
LEMMA ServersSent ==
  ASSUME NEW cfg, NEW evs, NEW there, RoomOK(evs, there), ~cfg.partial, NEW ids, ids = StateEvents(there, cfg.partial)
  PROVE  ServersInRoom(there.state, evs) = SentServers(evs, ids)
<1>1. /\ \A k \in Tuples : there.state[k] # 0 /\ Sends(cfg, k) => there.state[k] \in ids
      /\ \A x \in ids : /\ x # 0 /\ evs[x].tuple \in Tuples /\ Sends(cfg, evs[x].tuple)
                        /\ there.state[evs[x].tuple] = x
  BY StateListFact
<1>2. ASSUME NEW v \in Users
      PROVE  (there.state[Member(v)] # 0 /\ evs[there.state[Member(v)]].membership = "join")
             <=> \E e \in ids : evs[e].tuple = Member(v) /\ evs[e].membership = "join"
  <2> DEFINE k == Member(v)
             e == there.state[k]
  <2>1. k \in Tuples
    BY TupleFacts
  <2> HIDE DEF k
  <2>2. ASSUME e # 0, evs[e].membership = "join"
        PROVE  \E x \in ids : evs[x].tuple = k /\ evs[x].membership = "join"
    <3>1. e \in ids
      BY <1>1, <2>1, <2>2 DEF Sends
    <3>2. evs[e].tuple = k
      BY <2>1, <2>2 DEF RoomOK
    <3>3. QED
      BY <2>2, <3>1, <3>2
  <2>3. ASSUME NEW x \in ids, evs[x].tuple = k, evs[x].membership = "join"
        PROVE  e # 0 /\ evs[e].membership = "join"
    BY <1>1, <2>3
  <2>4. QED
    BY <2>2, <2>3 DEF k
<1>3. QED
  BY <1>2 DEF ServersInRoom, SentServers

\* The servers are those of the state before the join event.
LEMMA FindServersRest ==
  ASSUME FederationInv, NEW p \in Procs, OnlyP(p), Observe(p), FindServers(p) PROVE Rest'
<1> DEFINE k == loc[p]
           room == rooms[k.room]
           srvs == IF config.omitServers THEN {Resident} ELSE ServersInRoom(room.state, events)
           l == [k EXCEPT !.servers = srvs]
<1>0. CoreInv /\ StageInv
  BY DEF FederationInv
<1>1. /\ pc[p] = "servers" /\ loc' = [loc EXCEPT ![p] = l] /\ pc' = [pc EXCEPT ![p] = "state"]
      /\ UNCHANGED <<config, events, rooms, roomOf, ops, answers, results, panics>>
  BY DEF FindServers, Goto, RoomOf
<1>2. k \in CallRecords /\ CallOK(events, rooms, "servers", k)
  BY <1>0, <1>1, TheCall
<1>3. k.op = "join" /\ k.room \in 1 .. Len(rooms)
  BY <1>2 DEF CallOK
<1>4. RoomOK(events, room)
  BY <1>0, <1>3 DEF CoreInv, RoomsOK
<1>5. /\ l.room = k.room /\ l.snap = k.snap /\ l.op = k.op /\ l.ev = k.ev /\ l.user = k.user
      /\ l.servers = srvs
  BY <1>2 DEF CallRecords
<1>6. pc'[p] = "state" /\ loc'[p] = l /\ pc[p] # "append"
  BY <1>0, <1>1 DEF CoreInv
<1> HIDE DEF l
<1>7. ASSUME alone[p]
      PROVE  Staged(config', events', rooms', roomOf'[Resident], pc'[p], loc'[p])
  <2>1. Staged(config, events, rooms, roomOf[Resident], "servers", k)
    BY <1>0, <1>1, <1>7 DEF StageInv
  <2>2. k.room = roomOf[Resident] /\ BeforeWrite(config, events, room, k) /\ k.ev \notin k.snap
    BY <1>3, <2>1 DEF Staged, JoinStage
  <2>3. BeforeWrite(config, events, room, l)
    BY <1>5, <2>2 DEF BeforeWrite
  <2>4. ListedServers(config, events, l)
    <3>1. ~config.partial => ServersInRoom(room.state, events) = SentServers(events, l.snap)
      BY <1>4, <2>3, ServersSent DEF BeforeWrite
    <3>2. QED
      BY <1>5, <3>1 DEF ListedServers
  <2>5. JoinStage(config, events, room, "state", l)
    BY <1>5, <2>2, <2>3, <2>4 DEF JoinStage
  <2>6. Staged(config, events, rooms, roomOf[Resident], "state", l)
    BY <1>5, <2>2, <2>5 DEF Staged
  <2>7. QED
    BY <1>1, <1>6, <2>6
<1>8. Copied(rooms'[loc'[p].room], pc'[p], loc'[p])
  BY <1>6 DEF Copied
<1>9. CopyInv' /\ StageInv' /\ JoinedView'
  BY <1>6, <1>7, <1>8, AloneParts DEF FederationInv
<1>10. QED
  BY <1>1, <1>6, <1>9, SameRooms DEF Rest

\* The room that is made of the response agrees with the one it is made from.
LEMMA PopulatedView ==
  ASSUME NEW cfg, NEW there, NEW l, NEW new, RoomOK(events, there), l.user \in Users,
         PopulatedFact(l.snap, l.ev, Member(l.user), new), AfterWrite(cfg, events, there, l),
         ListedServers(cfg, events, l), there.extremity = l.ev, there.depth = events[l.ev].depth,
         l.ev \notin l.snap
  PROVE  Viewed(cfg, events, new, there, l)
<1> DEFINE u == l.user
           t == Member(u)
<1>1. t \in Tuples
  BY TupleFacts
<1> HIDE DEF t
<1>2. /\ new.state[t] = l.ev /\ new.extremity = l.ev /\ new.depth = events[l.ev].depth
      /\ \A k \in Tuples : k # t =>
           \/ new.state[k] \in l.snap /\ events[new.state[k]].tuple = k
           \/ (\A x \in l.snap : events[x].tuple # k) /\ new.state[k] = 0
  BY DEF PopulatedFact, t
<1>3. /\ there.state[t] = l.ev
      /\ \A k \in Tuples : k # t /\ there.state[k] # 0 /\ Sends(cfg, k) => there.state[k] \in l.snap
      /\ \A x \in l.snap : /\ Sends(cfg, events[x].tuple)
                           /\ events[x].tuple # t => there.state[events[x].tuple] = x
  BY DEF AfterWrite, t
<1>4. \A k \in Tuples : there.state[k] # 0 => events[there.state[k]].tuple = k
  BY DEF RoomOK
<1>5. ASSUME NEW k \in Tuples
      PROVE  new.state[k] = IF cfg.partial /\ IsMember(k) /\ k # t THEN 0 ELSE there.state[k]
  <2>1. CASE k = t
    BY <1>2, <1>3, <2>1
  <2>2. CASE k # t /\ new.state[k] \in l.snap /\ events[new.state[k]].tuple = k
    BY <1>3, <2>2 DEF Sends
  <2>3. CASE k # t /\ (\A x \in l.snap : events[x].tuple # k) /\ new.state[k] = 0
    <3>1. CASE Sends(cfg, k)
      BY <1>3, <1>4, <2>3, <3>1 DEF Sends
    <3>2. CASE ~Sends(cfg, k)
      BY <2>3, <3>2 DEF Sends
    <3>3. QED
      BY <3>1, <3>2
  <2>4. QED
    BY <1>2, <2>1, <2>2, <2>3
<1>6. QED
  BY <1>2, <1>5 DEF Viewed, t

\* A room comes to be that MustMakeRoom did not make.
LEMMA AddedRoom ==
  ASSUME CoreInv, NEW new, RoomOK(events, new), rooms' = Append(rooms, new)
  PROVE  /\ Len(rooms') = Len(rooms) + 1 /\ Len(rooms) \in Nat /\ rooms'[Len(rooms')] = new
         /\ \A x \in 1 .. Len(rooms) : rooms'[x] = rooms[x]
<1>1. rooms \in Seq(RoomRecords) /\ new \in RoomRecords
  BY DEF CoreInv, RoomsOK, RoomOK
<1>2. QED
  BY <1>1

\* The state and the timelines of the made rooms are as they were.
LEMMA AddedMade ==
  ASSUME FederationInv, NEW p \in Procs, OnlyP(p), pc[p] # "append", panics' = panics,
         NEW new, RoomOK(events, new), new.made = FALSE, rooms' = Append(rooms, new)
  PROVE  MadeStored' /\ PanicsExplained'
<1>0. CoreInv /\ MadeStored
  BY DEF FederationInv
<1>1. /\ Len(rooms') = Len(rooms) + 1 /\ Len(rooms) \in Nat /\ rooms'[Len(rooms')] = new
      /\ \A x \in 1 .. Len(rooms) : rooms'[x] = rooms[x]
  BY <1>0, AddedRoom
<1>2. \A r \in 1 .. Len(rooms') : rooms'[r].made =>
           /\ r \in 1 .. Len(rooms) /\ rooms[r].made
           /\ rooms'[r].state = rooms[r].state /\ rooms'[r].timeline = rooms[r].timeline
  <2>1. \A r \in 1 .. Len(rooms') : r \in 1 .. Len(rooms) \/ r = Len(rooms')
    BY <1>1
  <2>2. QED
    BY <1>1, <2>1
<1>3. MadeStored'
  BY <1>0, <1>2, MadeKept
<1>4. PanicsExplained'
  BY DEF FederationInv, PanicsExplained
<1>5. QED
  BY <1>3, <1>4

\* MustJoinRoom stores its room.
LEMMA PopulateRest ==
  ASSUME FederationInv, NEW p \in Procs, OnlyP(p), Observe(p), Populate(p) PROVE Rest'
<1> DEFINE l == loc[p]
           e == l.ev
           ids == l.snap
           t == Member(l.user)
           home == roomOf[Resident]
           new == PopulateFromSendJoinResponse(ids, e)
<1>0. CoreInv /\ StageInv
  BY DEF FederationInv
<1>1. /\ pc[p] = "answered" /\ rooms' = Append(rooms, new)
      /\ roomOf' = [roomOf EXCEPT ![l.srv] = Len(rooms')]
      /\ pc' = [pc EXCEPT ![p] = "returned"]
      /\ UNCHANGED <<config, events, loc, ops, answers, results, panics>>
  BY DEF Populate, Goto
<1>2. l \in CallRecords /\ CallOK(events, rooms, "answered", l)
  BY <1>0, <1>1, TheCall
<1>3. /\ ids \subseteq 1 .. Len(events) /\ e \in 1 .. Len(events) /\ l.op = "join"
      /\ l.user \in Guests /\ l.srv = ServerOf[l.user] /\ events[e].tuple = t
  BY <1>2 DEF CallOK
<1>4. EventsOK(events) /\ RoomsOK(events, rooms)
  BY <1>0 DEF CoreInv
<1>5. t \in Tuples /\ l.user \in Users
  BY <1>3, TupleFacts DEF Users
<1>6. l.srv # Resident /\ l.srv \in ServerNames
  BY <1>2, <1>3, JoinAssumption, CallFields
<1>7. home \in 1 .. Len(rooms) /\ Resident \in ServerNames
  BY <1>0, ResidentRoom
<1> HIDE DEF e, ids, t
<1>8. PopulatedFact(ids, e, t, new)
  BY <1>3, <1>4, <1>5, PopulateFact
<1> HIDE DEF new
<1>9. RoomOK(events, new) /\ new.made = FALSE
  BY <1>8 DEF PopulatedFact
<1>10. /\ Len(rooms') = Len(rooms) + 1 /\ rooms'[Len(rooms')] = new
       /\ \A x \in 1 .. Len(rooms) : rooms'[x] = rooms[x]
  BY <1>0, <1>1, <1>9, AddedRoom
<1>11. roomOf'[l.srv] = Len(rooms') /\ roomOf'[Resident] = home
  <2>1. roomOf \in [ServerNames -> 0 .. Len(rooms)]
    BY <1>0 DEF CoreInv
  <2>2. QED
    BY <1>1, <1>6, <1>7, <2>1
<1>12. pc'[p] = "returned" /\ loc'[p] = l /\ pc[p] # "append"
  BY <1>0, <1>1 DEF CoreInv
<1>13. MadeStored' /\ PanicsExplained'
  BY <1>1, <1>9, <1>12, AddedMade
<1>14. ASSUME alone[p] PROVE Viewed(config, events, new, rooms[home], l)
  <2>1. Staged(config, events, rooms, home, "answered", l)
    BY <1>0, <1>1, <1>14 DEF StageInv
  <2>2. /\ AfterWrite(config, events, rooms[home], l) /\ ListedServers(config, events, l)
        /\ rooms[home].extremity = l.ev /\ rooms[home].depth = events[l.ev].depth
        /\ l.ev \notin l.snap
    BY <1>3, <2>1 DEF Staged, JoinStage
  <2>3. RoomOK(events, rooms[home])
    BY <1>4, <1>7 DEF RoomsOK
  <2>4. PopulatedFact(l.snap, l.ev, Member(l.user), new)
    BY <1>8 DEF ids, e, t
  <2> DEFINE there == rooms[home]
             k == l
  <2> HIDE DEF there, k
  <2>5. Viewed(config, events, new, there, k)
    BY <1>5, <2>2, <2>3, <2>4, PopulatedView DEF there, k
  <2>6. QED
    BY <2>5 DEF there, k
<1>15. ASSUME alone[p]
       PROVE  Viewed(config', events', rooms'[roomOf'[loc'[p].srv]], rooms'[roomOf'[Resident]], loc'[p])
  <2>1. rooms'[roomOf'[l.srv]] = new /\ rooms'[roomOf'[Resident]] = rooms[home]
    BY <1>7, <1>10, <1>11
  <2>2. QED
    BY <1>1, <1>12, <1>14, <1>15, <2>1
<1>16. /\ Copied(rooms'[loc'[p].room], pc'[p], loc'[p])
       /\ Staged(config', events', rooms', roomOf'[Resident], pc'[p], loc'[p])
  BY <1>12 DEF Copied, Staged, JoinStage
<1>17. CopyInv' /\ StageInv' /\ JoinedView'
  BY <1>0, <1>15, <1>16, AloneParts DEF FederationInv
<1>18. QED
  BY <1>13, <1>17 DEF Rest

\* MustKnockRoom stores a room without events.
LEMMA KnockRest ==
  ASSUME FederationInv, NEW p \in Procs, OnlyP(p), Observe(p), NEW u \in Guests, MustKnockRoom(p, u) PROVE Rest'
<1> DEFINE new == NewServerRoom(FALSE)
<1>0. CoreInv
  BY DEF FederationInv
<1>1. /\ pc[p] = "idle" /\ pc' = pc /\ rooms' = Append(rooms, new) /\ panics' = panics
  BY DEF MustKnockRoom, Begin
<1>2. Len(events) \in Nat
  BY <1>0, NoGrowth
<1>3. RoomOK(events, new) /\ new.made = FALSE
  BY <1>2, NewServerRoomFact
<1> HIDE DEF new
<1>4. MadeStored' /\ PanicsExplained'
  BY <1>1, <1>3, AddedMade
<1>5. pc'[p] = "idle"
  BY <1>1
<1>6. CopyInv' /\ StageInv' /\ JoinedView'
  BY <1>5, AloneParts DEF FederationInv
<1>7. QED
  BY <1>4, <1>6 DEF Rest

\* The event asked for is in the timeline.
LEMMA EventAuthRest ==
  ASSUME FederationInv, NEW p \in Procs, OnlyP(p), Observe(p), NEW s \in ServerNames, NEW e, e \in 1 .. Len(events),
         EventAuth(p, s, e)
  PROVE  Rest'
<1> DEFINE r == roomOf[s]
           l == [Idle EXCEPT !.op = "eventAuth", !.srv = s, !.room = r, !.snap = {e}]
<1>0. CoreInv
  BY DEF FederationInv
<1>1. /\ Begin(p, "eventAuth") /\ e \in ToSet(rooms[r].timeline)
      /\ loc' = [loc EXCEPT ![p] = l] /\ pc' = [pc EXCEPT ![p] = "copy"]
      /\ UNCHANGED <<config, events, rooms, roomOf, answers, results, panics>>
  BY DEF EventAuth, Goto
<1>2. l.op = "eventAuth" /\ l.room = r /\ l.snap = {e}
  BY IdleFact DEF CallRecords
<1> HIDE DEF l, r
<1>3. pc'[p] = "copy" /\ loc'[p] = l /\ pc[p] # "append"
  BY <1>0, <1>1 DEF CoreInv, Begin
<1>4. Copied(rooms'[loc'[p].room], pc'[p], loc'[p])
  BY <1>1, <1>2, <1>3 DEF Copied
<1>5. Staged(config', events', rooms', roomOf'[Resident], pc'[p], loc'[p])
  BY <1>2, <1>3 DEF Staged
<1>6. CopyInv' /\ StageInv' /\ JoinedView'
  BY <1>3, <1>4, <1>5, AloneParts DEF FederationInv
<1>7. QED
  BY <1>1, <1>3, <1>6, SameRooms DEF Rest

-----------------------------------------------------------------------------
(* The theorems about FederationJoin *)

\* The room of MustMakeRoom, before any call.
LEMMA InitFederation == Init => FederationInv
<1> SUFFICES ASSUME Init PROVE FederationInv
  OBVIOUS
<1>1. CoreInv
  BY InitCore
<1>2. /\ \A p \in Procs : pc[p] = "idle"
      /\ panics = {} /\ alone = [p \in Procs |-> TRUE]
  BY DEF Init
<1>3. AloneInv
  BY <1>2 DEF AloneInv
<1>4. MadeStored
  <2> DEFINE made == MustMakeRoom(config.domainless)
  <2>1. rooms = <<made.room>> /\ MadeOK(made)
    BY MustMakeRoomFact DEF Init
  <2> HIDE DEF made
  <2>2. Len(rooms) = 1 /\ rooms[1] = made.room
    BY <2>1
  <2>3. \A k \in Tuples : made.room.state[k] # 0 => made.room.state[k] \in ToSet(made.room.timeline)
    BY <2>1 DEF MadeOK
  <2>4. QED
    BY <2>2, <2>3 DEF MadeStored
<1>5. CopyInv /\ StageInv /\ JoinedView
  BY <1>2 DEF CopyInv, Copied, StageInv, Staged, JoinedView
<1>6. PanicsExplained
  BY <1>2 DEF PanicsExplained
<1>7. QED
  BY <1>1, <1>3, <1>4, <1>5, <1>6 DEF FederationInv

\* Every step of a call preserves the invariant.
LEMMA StepRest ==
  ASSUME FederationInv, NEW p \in Procs, Step(p), Observe(p) PROVE Rest'
<1>0. CoreInv
  BY DEF FederationInv
<1>1. OnlyP(p)
  BY <1>0, OneMoves
<1>2. ASSUME Quiet(p) PROVE Rest'
  BY <1>1, <1>2, QuietRest
<1>3. CASE WriteState(p)
  BY <1>1, <1>3, WriteStateRest
<1>4. CASE WriteTimeline(p)
  BY <1>1, <1>4, WriteTimelineRest
<1>5. CASE WriteHeads(p)
  BY <1>1, <1>5, WriteHeadsRest
<1>6. ASSUME NEW u \in Guests, NEW partial \in BOOLEAN, MakeJoin(p, u, partial) PROVE Rest'
  BY <1>1, <1>6, MakeJoinRest
<1>7. CASE SendJoin(p)
  BY <1>1, <1>7, SendJoinRest
<1>8. CASE CopyTimeline(p)
  BY <1>1, <1>8, CopyTimelineRest
<1>9. CASE AuthChain(p)
  BY <1>1, <1>9, AuthChainRest
<1>10. CASE FindServers(p)
  BY <1>1, <1>10, FindServersRest
<1>11. CASE Populate(p)
  BY <1>1, <1>11, PopulateRest
<1>12. ASSUME NEW u \in Guests, MustKnockRoom(p, u) PROVE Rest'
  BY <1>1, <1>12, KnockRest
<1>13. ASSUME NEW s \in ServerNames, NEW e \in EventIds, EventAuth(p, s, e) PROVE Rest'
  <2>1. e \in 1 .. Len(events)
    BY DEF EventIds
  <2>2. QED
    BY <1>1, <1>13, <2>1, EventAuthRest
<1>14. CASE \/ \E s \in ServerNames, tuple \in Changes : CreateEvent(p, s, tuple)
            \/ SendJoinFails(p) \/ LoseResponse(p) \/ Returned(p) \/ SendLeaveFails(p) \/ NilEventPanic(p)
            \/ TransactionEnd(p)
            \/ \E u \in Guests : LeaveBegin(p, u) \/ RejectInvite(p, u)
            \/ SendLeave(p) \/ NextPDU(p)
            \/ \E s \in ServerNames, batch \in Batches : TransactionBegin(p, s, batch)
  BY <1>0, <1>2, <1>14, QuietSteps
<1>15. QED
  BY <1>3, <1>4, <1>5, <1>6, <1>7, <1>8, <1>9, <1>10, <1>11, <1>12, <1>13, <1>14 DEF Step

\* Every step preserves the inductive invariant.
LEMMA NextFederation == FederationInv /\ [Next]_vars => FederationInv'
<1> SUFFICES ASSUME FederationInv, [Next]_vars PROVE FederationInv'
  OBVIOUS
<1>1. CASE Next
  <2>1. PICK p \in Procs : Step(p) /\ Observe(p)
    BY <1>1 DEF Next
  <2>2. CoreInv'
    BY <2>1, StepCore DEF FederationInv
  <2>3. AloneInv'
    BY <2>1, AloneStep
  <2>4. Rest'
    BY <2>1, StepRest
  <2>5. QED
    BY <2>2, <2>3, <2>4 DEF FederationInv, Rest
<1>2. CASE UNCHANGED vars
  <2>1. /\ config' = config /\ events' = events /\ rooms' = rooms /\ roomOf' = roomOf /\ pc' = pc
        /\ loc' = loc /\ ops' = ops /\ answers' = answers /\ results' = results /\ panics' = panics /\ alone' = alone
    BY <1>2 DEF vars, coreVars
  <2>2. CoreInv'
    BY <2>1 DEF FederationInv, CoreInv
  <2>3. AloneInv' /\ MadeStored' /\ CopyInv' /\ StageInv'
    BY <2>1 DEF FederationInv, AloneInv, MadeStored, CopyInv, StageInv
  <2>4. PanicsExplained'
    BY <2>1 DEF FederationInv, PanicsExplained
  <2>5. JoinedView'
    <3>1. \A q \in Procs : pc[q] = "returned" /\ alone[q] =>
            Viewed(config, events, rooms[roomOf[loc[q].srv]], rooms[roomOf[Resident]], loc[q])
      BY DEF FederationInv, JoinedView, Viewed, ListedServers, SentServers
    <3>2. \A q \in Procs : pc'[q] = "returned" /\ alone'[q] =>
            Viewed(config', events', rooms'[roomOf'[loc'[q].srv]], rooms'[roomOf'[Resident]], loc'[q])
      BY <2>1, <3>1
    <3>3. QED
      BY <3>2 DEF JoinedView, Viewed, ListedServers, SentServers
  <2>6. QED
    BY <2>2, <2>3, <2>4, <2>5 DEF FederationInv
<1>3. QED
  BY <1>1, <1>2

\* The inductive invariant of the federated room holds in every state.
THEOREM FederationInvariant == Spec => []FederationInv
<1>1. Init => FederationInv
  BY InitFederation
<1>2. FederationInv /\ [Next]_vars => FederationInv'
  BY NextFederation
<1>3. QED
  BY <1>1, <1>2, PTL DEF Spec

\* CoreInv contains the type invariant.
LEMMA CoreTypes == CoreInv => TypeOK
<1> SUFFICES ASSUME CoreInv PROVE TypeOK
  OBVIOUS
<1>1. EventsOK(events) /\ RoomsOK(events, rooms) /\ Len(events) \in Nat /\ Len(rooms) \in Nat
  BY NoGrowth DEF CoreInv
<1>2. ASSUME NEW e \in EventIds
      PROVE  /\ events[e].tuple \in Tuples \cup {Message}
             /\ events[e].prev \in 0 .. e - 1 /\ events[e].auth \subseteq 1 .. e - 1
  <2>1. e \in 1 .. Len(events)
    BY DEF EventIds
  <2>2. events[e] \in EventRecords
    BY <1>1, <2>1 DEF EventsOK
  <2>3. events[e].tuple \in Tuples \cup {Message}
    BY <2>2 DEF EventRecords
  <2>4. QED
    BY <1>1, <2>1, <2>3 DEF EventsOK
<1>3. ASSUME NEW r \in DOMAIN rooms
      PROVE  /\ rooms[r].state \in [Tuples -> 0 .. Len(events)]
             /\ ToSet(rooms[r].timeline) \subseteq EventIds
             /\ rooms[r].extremity \in 0 .. Len(events)
  <2> DEFINE room == rooms[r]
  <2>1. r \in 1 .. Len(rooms)
    BY <1>1 DEF RoomsOK
  <2>2. RoomOK(events, room)
    BY <1>1, <2>1 DEF RoomsOK
  <2> HIDE DEF room
  <2>3. room.state \in [Tuples -> Nat]
    BY <2>2 DEF RoomOK, RoomRecords
  <2>4. \A k \in Tuples : room.state[k] \in 0 .. Len(events)
    BY <1>1, <2>2, <2>3 DEF RoomOK
  <2>5. room.state \in [Tuples -> 0 .. Len(events)]
    BY <2>3, <2>4
  <2>6. QED
    BY <2>2, <2>5 DEF RoomOK, EventIds, room
<1>4. ASSUME NEW p \in Procs, pc[p] \in {"copy", "chain", "servers", "state", "append", "heads"}
      PROVE  loc[p].room \in DOMAIN rooms
  <2>1. loc[p].room \in 1 .. Len(rooms)
    BY <1>4, TheCall DEF CallOK
  <2>2. QED
    BY <1>1, <2>1 DEF RoomsOK
<1>5. QED
  BY <1>2, <1>3, <1>4 DEF TypeOK, CoreInv

\* Types, and HandleTransactionRequests (handle.go): a PDU that the response
\* reports as stored is in the timeline of a room of the server, however many
\* transactions, joins and leaves run at the same time.
THEOREM RoomsStayTyped == Spec => []JoinInv
<1>1. FederationInv => JoinInv
  <2> SUFFICES ASSUME FederationInv PROVE JoinInv
    OBVIOUS
  <2>1. TypeOK
    BY CoreTypes DEF FederationInv
  <2>2. Len(rooms) \in Nat
    BY NoGrowth DEF FederationInv
  <2>3. ResultsStored
    BY <2>2 DEF FederationInv, CoreInv, ResultOK, ResultsStored
  <2>4. QED
    BY <2>1, <2>3 DEF JoinInv
<1>2. QED
  BY <1>1, FederationInvariant, PTL

\* AuthChainForEvents (server_room.go): the chain of every /send_join and
\* /event_auth response is the whole auth chain of the events it is about, each
\* event once, for every room, whatever runs at the same time.
THEOREM ChainsAreComplete == Spec => []ChainsClosed
<1>1. FederationInv => ChainsClosed
  BY DEF FederationInv, CoreInv, Closed, ChainsClosed, AuthOf
<1>2. QED
  BY <1>1, FederationInvariant, PTL

\* The panic of AuthChainForEvents (server_room.go): in a room of MustMakeRoom
\* without gaps, only a call that overlaps with the request can cause it.
THEOREM PanicsHaveACause == Spec => []PanicsExplained
<1>1. FederationInv => PanicsExplained
  BY DEF FederationInv
<1>2. QED
  BY <1>1, FederationInvariant, PTL

\* MustJoinRoom and SendJoinRequestsHandler: a join that nothing overlaps with
\* ends with two servers that have the same view of the room.
THEOREM JoinsAgree == Spec => []JoinedView
<1>1. FederationInv => JoinedView
  BY DEF FederationInv
<1>2. QED
  BY <1>1, FederationInvariant, PTL

-----------------------------------------------------------------------------
(* FederationServer *)

USE PortAssumption

\* The port of a name of one port.
LEMMA PortOfOne == ASSUME NEW q PROVE PortOf(<<q>>) = q
  BY DEF PortOf

\* One-port names are equal exactly when their ports are.
LEMMA NameIsPort == ASSUME NEW q, NEW r, <<q>> = <<r>> PROVE q = r
  OBVIOUS

\* The types of the numbers one server's allocation depends on.
LEMMA PortTypes ==
  ASSUME ServerTypeOK, NEW r \in Servers
  PROVE  /\ ProcOf[r] \in Processes
         /\ attempts[r] \in Nat
         /\ lastUsedPort[ProcOf[r]] \in Nat
         /\ lastUsedPort[ProcOf[r]] <= LastPort
<1>1. ProcOf[r] \in Processes
  OBVIOUS
<1>2. attempts[r] \in 0 .. LastPort
  BY DEF ServerTypeOK, MaxAttempts
<1>3. lastUsedPort[ProcOf[r]] \in (FirstPort - 1) .. LastPort
  BY <1>1 DEF ServerTypeOK
<1>4. QED
  BY <1>1, <1>2, <1>3

\* The parts of ServerInv that speak of one server.
OneServer(s) ==
  /\ phase[s] = "probing" => portMu[ProcOf[s]] = s
  /\ IF phase[s] \in {"listening", "closed"}
       THEN \E q \in Ports : serverName[s] = <<q>> /\ q <= lastUsedPort[ProcOf[s]]
       ELSE serverName[s] = <<>> /\ handedOut[s] = {}
  /\ phase[s] = "listening" => PortOf(serverName[s]) \notin taken
  /\ attempts[s] + FirstPort <= lastUsedPort[ProcOf[s]] + 1

\* ServerInv in terms of OneServer.
LEMMA ServerInvParts ==
  ServerInv <=> /\ ServerTypeOK
                /\ \A s \in Servers : OneServer(s)
                /\ NamesNeverReused /\ HandedOutStable
  BY DEF ServerInv, OneServer

\* At the start no server has a name.
LEMMA InitServerInv == ServerInit => ServerInv
<1> SUFFICES ASSUME ServerInit PROVE ServerInv
  OBVIOUS
<1>1. ServerTypeOK
  BY DEF ServerInit, ServerTypeOK, Phases, MaxAttempts, Ports
<1>2. ASSUME NEW s \in Servers PROVE OneServer(s)
  BY DEF ServerInit, OneServer
<1>3. NamesNeverReused /\ HandedOutStable
  BY DEF ServerInit, NamesNeverReused, HandedOutStable
<1>4. QED
  BY <1>1, <1>2, <1>3, ServerInvParts

\* Listen takes the mutex of the process.
LEMMA ListenBeginStep ==
  ASSUME ServerInv, NEW s \in Servers, ListenBegin(s) PROVE ServerInv'
<1> USE ServerInvParts
<1>1. ServerTypeOK'
  BY DEF ListenBegin, ServerTypeOK, Phases
<1>2. ASSUME NEW r \in Servers PROVE OneServer(r)'
  BY DEF ListenBegin, ServerTypeOK, OneServer
<1>3. NamesNeverReused' /\ HandedOutStable'
  BY DEF ListenBegin, ServerTypeOK, NamesNeverReused, HandedOutStable
<1>4. QED
  BY <1>1, <1>2, <1>3 DEF ServerInv, OneServer

\* An iteration on a port that cannot be bound retires the port.
LEMMA ProbeBusyStep ==
  ASSUME ServerInv, NEW s \in Servers, ProbeBusy(s) PROVE ServerInv'
<1> DEFINE p == ProcOf[s]
           port == lastUsedPort[p] + 1
<1>1. ServerTypeOK /\ \A r \in Servers : OneServer(r)
  BY ServerInvParts
<1>2. p \in Processes /\ lastUsedPort[p] \in Nat /\ port \in FirstPort .. LastPort
  BY <1>1 DEF ProbeBusy, ServerTypeOK
<1>3. /\ lastUsedPort' = [lastUsedPort EXCEPT ![p] = port]
      /\ attempts' = [attempts EXCEPT ![s] = attempts[s] + 1]
      /\ phase[s] = "probing" /\ attempts[s] < MaxAttempts
      /\ UNCHANGED <<portMu, phase, serverName, handedOut, taken>>
  BY DEF ProbeBusy
<1> HIDE DEF p, port
<1>4. ServerTypeOK'
  BY <1>1, <1>2, <1>3 DEF ServerTypeOK, MaxAttempts
<1>5. \A x \in Processes : lastUsedPort'[x] = IF x = p THEN port ELSE lastUsedPort[x]
  BY <1>1, <1>2, <1>3 DEF ServerTypeOK
<1>6. \A r \in Servers : attempts'[r] = IF r = s THEN attempts[s] + 1 ELSE attempts[r]
  BY <1>1, <1>3 DEF ServerTypeOK
<1>7. ASSUME NEW r \in Servers PROVE OneServer(r)'
  <2>1. /\ ProcOf[r] \in Processes /\ attempts[r] \in Nat
        /\ lastUsedPort[ProcOf[r]] \in Nat
        /\ lastUsedPort[ProcOf[r]] <= lastUsedPort'[ProcOf[r]]
        /\ lastUsedPort'[ProcOf[r]] \in Nat
    <3>1. ProcOf[r] \in Processes /\ attempts[r] \in Nat /\ lastUsedPort[ProcOf[r]] \in Nat
      BY <1>1, PortTypes
    <3>2. CASE ProcOf[r] = p
      BY <1>2, <1>5, <3>1, <3>2 DEF port
    <3>3. CASE ProcOf[r] # p
      BY <1>5, <3>1, <3>3
    <3>4. QED
      BY <3>1, <3>2, <3>3
  <2>2. attempts'[r] + FirstPort <= lastUsedPort'[ProcOf[r]] + 1
    BY <1>1, <1>2, <1>5, <1>6, <2>1 DEF OneServer, port, p
  <2>3. \A q \in Ports : q <= lastUsedPort[ProcOf[r]] => q <= lastUsedPort'[ProcOf[r]]
    BY <2>1 DEF Ports
  <2>4. PortOf(serverName[r])' = PortOf(serverName[r])
    BY <1>3 DEF PortOf
  <2>5. QED
    BY <1>1, <1>3, <2>2, <2>3, <2>4 DEF OneServer
<1>8. NamesNeverReused' /\ HandedOutStable'
  BY <1>3, ServerInvParts DEF NamesNeverReused, HandedOutStable, PortOf
<1>9. QED
  BY <1>4, <1>7, <1>8 DEF ServerInv, OneServer

\* A server that finds no port fails its test and releases the mutex.
LEMMA PortsExhaustedStep ==
  ASSUME ServerInv, NEW s \in Servers, PortsExhausted(s) PROVE ServerInv'
<1>1. ServerTypeOK /\ \A r \in Servers : OneServer(r)
  BY ServerInvParts
<1>2. ServerTypeOK'
  BY <1>1 DEF PortsExhausted, ServerTypeOK, Phases
<1>3. ASSUME NEW r \in Servers PROVE OneServer(r)'
  <2>1. PortOf(serverName[r])' = PortOf(serverName[r])
    BY DEF PortsExhausted, PortOf
  <2>2. QED
    BY <1>1, <2>1 DEF PortsExhausted, ServerTypeOK, OneServer
<1>4. NamesNeverReused' /\ HandedOutStable'
  BY <1>1, ServerInvParts DEF PortsExhausted, ServerTypeOK, NamesNeverReused,
     HandedOutStable, PortOf
<1>5. QED
  BY <1>2, <1>3, <1>4 DEF ServerInv, OneServer

\* A free port is retired and becomes the name of the server.
LEMMA ProbeFreeStep ==
  ASSUME ServerInv, NEW s \in Servers, ProbeFree(s) PROVE ServerInv'
<1> DEFINE p == ProcOf[s]
           port == lastUsedPort[p] + 1
<1>1. ServerTypeOK /\ \A r \in Servers : OneServer(r)
  BY ServerInvParts
<1>2. p \in Processes /\ lastUsedPort[p] \in Nat /\ port \in Ports
  BY <1>1 DEF ProbeFree, ServerTypeOK, Ports
<1>3. /\ lastUsedPort' = [lastUsedPort EXCEPT ![p] = port]
      /\ attempts' = [attempts EXCEPT ![s] = attempts[s] + 1]
      /\ portMu' = [portMu EXCEPT ![p] = NoServer]
      /\ phase' = [phase EXCEPT ![s] = "listening"]
      /\ phase[s] = "probing" /\ attempts[s] < MaxAttempts
      /\ port \notin taken /\ port \notin Bound
      /\ UNCHANGED <<handedOut, taken>>
  BY DEF ProbeFree
<1>4. serverName' = [serverName EXCEPT ![s] = <<port>>]
  <2>1. serverName[s] = <<>> /\ serverName' = [serverName EXCEPT ![s] = Append(serverName[s], port)]
    BY <1>1, <1>3 DEF ProbeFree, OneServer
  <2>2. QED
    BY <2>1
<1> HIDE DEF p, port
<1>5. ServerTypeOK'
  <2>1. <<port>> \in Seq(Ports)
    BY <1>2
  <2>2. serverName' \in [Servers -> Seq(Ports)]
    BY <1>1, <1>4, <2>1 DEF ServerTypeOK
  <2>3. lastUsedPort' \in [Processes -> (FirstPort - 1) .. LastPort]
    BY <1>1, <1>2, <1>3 DEF ServerTypeOK, Ports
  <2>4. attempts' \in [Servers -> 0 .. MaxAttempts]
    BY <1>1, <1>3 DEF ServerTypeOK, MaxAttempts
  <2>5. QED
    BY <1>1, <1>3, <2>2, <2>3, <2>4 DEF ServerTypeOK, Phases
<1>6. /\ \A x \in Processes : lastUsedPort'[x] = IF x = p THEN port ELSE lastUsedPort[x]
      /\ \A r \in Servers : attempts'[r] = IF r = s THEN attempts[s] + 1 ELSE attempts[r]
      /\ \A r \in Servers : serverName'[r] = IF r = s THEN <<port>> ELSE serverName[r]
      /\ \A r \in Servers : phase'[r] = IF r = s THEN "listening" ELSE phase[r]
      /\ \A x \in Processes : portMu'[x] = IF x = p THEN NoServer ELSE portMu[x]
  BY <1>1, <1>2, <1>3, <1>4 DEF ServerTypeOK
<1>7. \A r \in Servers : PortOf(serverName[r])' = IF r = s THEN port ELSE PortOf(serverName[r])
  BY <1>6 DEF PortOf
<1>8. ASSUME NEW r \in Servers PROVE OneServer(r)'
  <2>1. /\ ProcOf[r] \in Processes /\ attempts[r] \in Nat
        /\ lastUsedPort[ProcOf[r]] \in Nat
        /\ lastUsedPort[ProcOf[r]] <= lastUsedPort'[ProcOf[r]]
        /\ lastUsedPort'[ProcOf[r]] \in Nat
    <3>1. ProcOf[r] \in Processes /\ attempts[r] \in Nat /\ lastUsedPort[ProcOf[r]] \in Nat
      BY <1>1, PortTypes
    <3>2. CASE ProcOf[r] = p
      BY <1>2, <1>6, <3>1, <3>2 DEF port
    <3>3. CASE ProcOf[r] # p
      BY <1>6, <3>1, <3>3
    <3>4. QED
      BY <3>1, <3>2, <3>3
  <2>2. attempts'[r] + FirstPort <= lastUsedPort'[ProcOf[r]] + 1
    BY <1>1, <1>2, <1>6, <2>1 DEF OneServer, port, p
  <2>3. \A q \in Ports : q <= lastUsedPort[ProcOf[r]] => q <= lastUsedPort'[ProcOf[r]]
    BY <2>1 DEF Ports
  <2>4. phase'[r] = "probing" => portMu'[ProcOf[r]] = r
    BY <1>1, <1>3, <1>6, <2>1 DEF OneServer, p
  <2>5. IF phase'[r] \in {"listening", "closed"}
          THEN \E q \in Ports : serverName'[r] = <<q>> /\ q <= lastUsedPort'[ProcOf[r]]
          ELSE serverName'[r] = <<>> /\ handedOut'[r] = {}
    <3>1. CASE r = s
      <4>1. lastUsedPort'[ProcOf[r]] = port /\ port <= port
        BY <1>2, <1>6, <3>1, <2>1 DEF p, Ports
      <4>2. QED
        BY <1>2, <1>6, <3>1, <4>1
    <3>2. CASE r # s
      BY <1>1, <1>3, <1>6, <2>3, <3>2 DEF OneServer
    <3>3. QED
      BY <3>1, <3>2
  <2>6. phase'[r] = "listening" => (PortOf(serverName[r]) \notin taken)'
    BY <1>1, <1>3, <1>6, <1>7 DEF OneServer
  <2>7. QED
    BY <2>2, <2>4, <2>5, <2>6 DEF OneServer
<1>9. NamesNeverReused'
  <2>1. ASSUME NEW r \in Servers, r # s, ProcOf[r] = ProcOf[s] PROVE serverName[r] # <<port>>
    <3>1. CASE phase[r] \in {"listening", "closed"}
      <4>1. PICK q \in Ports : serverName[r] = <<q>> /\ q <= lastUsedPort[ProcOf[r]]
        BY <1>1, <3>1 DEF OneServer
      <4>2. q # port
        BY <1>2, <2>1, <4>1 DEF port, p, Ports
      <4>3. QED
        BY <4>1, <4>2, NameIsPort
    <3>2. CASE phase[r] \notin {"listening", "closed"}
      <4>1. serverName[r] = <<>>
        BY <1>1, <3>2 DEF OneServer
      <4>2. QED
        BY <4>1
    <3>3. QED
      BY <3>1, <3>2
  <2>2. QED
    BY <1>6, <2>1, ServerInvParts DEF NamesNeverReused
<1>10. HandedOutStable'
  BY <1>1, <1>3, <1>6, ServerInvParts DEF HandedOutStable, OneServer
<1>11. QED
  BY <1>5, <1>8, <1>9, <1>10 DEF ServerInv, OneServer

\* Handing out a name records the name the server has for good.
LEMMA HandOutNameStep ==
  ASSUME ServerInv, NEW s \in Servers, HandOutName(s) PROVE ServerInv'
<1>1. ServerTypeOK /\ \A r \in Servers : OneServer(r)
  BY ServerInvParts
<1>2. \A r \in Servers :
        handedOut'[r] = IF r = s THEN handedOut[s] \cup {serverName[s]} ELSE handedOut[r]
  BY <1>1 DEF HandOutName, ServerTypeOK
<1>3. ServerTypeOK'
  <2>1. serverName[s] \in Seq(Ports) /\ handedOut[s] \in SUBSET Seq(Ports)
    BY <1>1 DEF ServerTypeOK
  <2>2. handedOut' \in [Servers -> SUBSET Seq(Ports)]
    BY <1>1, <2>1 DEF HandOutName, ServerTypeOK
  <2>3. QED
    BY <1>1, <2>2 DEF HandOutName, ServerTypeOK
<1>4. ASSUME NEW r \in Servers PROVE OneServer(r)'
  <2>1. PortOf(serverName[r])' = PortOf(serverName[r])
    BY DEF HandOutName, PortOf
  <2>2. QED
    BY <1>1, <1>2, <2>1 DEF HandOutName, OneServer
<1>5. NamesNeverReused'
  BY ServerInvParts DEF HandOutName, NamesNeverReused, PortOf
<1>6. HandedOutStable'
  BY <1>2, ServerInvParts DEF HandOutName, HandedOutStable
<1>7. QED
  BY <1>3, <1>4, <1>5, <1>6 DEF ServerInv, OneServer

\* A cancelled server keeps its name.
LEMMA CancelStep ==
  ASSUME ServerInv, NEW s \in Servers, Cancel(s) PROVE ServerInv'
<1>1. ServerTypeOK /\ \A r \in Servers : OneServer(r)
  BY ServerInvParts
<1>2. ServerTypeOK'
  BY <1>1 DEF Cancel, ServerTypeOK, Phases
<1>3. ASSUME NEW r \in Servers PROVE OneServer(r)'
  <2>1. PortOf(serverName[r])' = PortOf(serverName[r])
    BY DEF Cancel, PortOf
  <2>2. phase'[r] = IF r = s THEN "closed" ELSE phase[r]
    BY <1>1 DEF Cancel, ServerTypeOK
  <2>3. QED
    BY <1>1, <2>1, <2>2 DEF Cancel, OneServer
<1>4. NamesNeverReused' /\ HandedOutStable'
  BY <1>1, ServerInvParts DEF Cancel, ServerTypeOK, NamesNeverReused,
     HandedOutStable, PortOf
<1>5. QED
  BY <1>2, <1>3, <1>4 DEF ServerInv, OneServer

\* Other programs cannot take the port of a server that listens.
LEMMA EnvironmentStep == ASSUME ServerInv, Environment PROVE ServerInv'
<1>1. ServerTypeOK /\ \A r \in Servers : OneServer(r)
  BY ServerInvParts
<1>2. ServerTypeOK'
  BY <1>1 DEF Environment, OtherProgram, ServerTypeOK
<1>3. ASSUME NEW r \in Servers PROVE OneServer(r)'
  <2>1. PortOf(serverName[r])' = PortOf(serverName[r])
    BY DEF Environment, PortOf
  <2>2. phase[r] = "listening" => PortOf(serverName[r]) \in Bound
    BY DEF Bound
  <2>3. phase[r] = "listening" => PortOf(serverName[r]) \notin taken'
    BY <1>1, <2>2 DEF Environment, OtherProgram, OneServer
  <2>4. QED
    BY <1>1, <2>1, <2>3 DEF Environment, OneServer
<1>4. NamesNeverReused' /\ HandedOutStable'
  BY ServerInvParts DEF Environment, NamesNeverReused, HandedOutStable, PortOf
<1>5. QED
  BY <1>2, <1>3, <1>4 DEF ServerInv, OneServer

\* ServerInv holds in every state: one retired port per server, and an
\* attempt counter that lastUsedPort keeps below the range.
THEOREM ServerInvariant == ServerSpec => []ServerInv
<1>1. ServerInit => ServerInv
  BY InitServerInv
<1>2. ServerInv /\ [ServerNext]_serverVars => ServerInv'
  <2> SUFFICES ASSUME ServerInv, [ServerNext]_serverVars PROVE ServerInv'
    OBVIOUS
  <2>1. ASSUME NEW s \in Servers, ListenBegin(s) PROVE ServerInv'
    BY <2>1, ListenBeginStep
  <2>2. ASSUME NEW s \in Servers, ListenStep(s) PROVE ServerInv'
    BY <2>2, ProbeBusyStep, ProbeFreeStep, PortsExhaustedStep DEF ListenStep
  <2>3. ASSUME NEW s \in Servers, HandOutName(s) \/ Cancel(s) PROVE ServerInv'
    BY <2>3, HandOutNameStep, CancelStep
  <2>4. CASE Environment
    BY <2>4, EnvironmentStep
  <2>5. CASE UNCHANGED serverVars
    BY <2>5 DEF serverVars, ServerInv, ServerTypeOK, NamesNeverReused, HandedOutStable, PortOf
  <2>6. QED
    BY <2>1, <2>2, <2>3, <2>4, <2>5 DEF ServerNext
<1>3. QED
  BY <1>1, <1>2, PTL DEF ServerSpec

\* No two servers of a process ever have the same name (server.go:624-625),
\* whatever other programs do to the ports in between.
THEOREM NoNameIsReused == ServerSpec => []NamesNeverReused
<1>1. ServerInv => NamesNeverReused
  BY DEF ServerInv
<1>2. QED
  BY <1>1, ServerInvariant, PTL

\* listenOnUnusedPort never falls off the end of its loop: the range is used
\* up before the attempts are (server.go:699-700).
THEOREM AttemptsNeverRunOut == ServerSpec => []LoopNeverEnds
<1>1. ServerInv => LoopNeverEnds
  <2> SUFFICES ASSUME ServerInv, NEW s \in Servers PROVE attempts[s] < MaxAttempts
    BY DEF LoopNeverEnds
  <2>1. /\ attempts[s] \in Nat /\ lastUsedPort[ProcOf[s]] \in Nat
        /\ lastUsedPort[ProcOf[s]] <= LastPort
    BY PortTypes DEF ServerInv
  <2>2. attempts[s] + FirstPort <= lastUsedPort[ProcOf[s]] + 1
    BY DEF ServerInv
  <2>3. QED
    BY <2>1, <2>2 DEF MaxAttempts
<1>2. QED
  BY <1>1, ServerInvariant, PTL

\* A name that was handed out stays the name of its server (server.go:146).
THEOREM HandedOutNamesStay == ServerSpec => []HandedOutStable
<1>1. ServerInv => HandedOutStable
  BY DEF ServerInv
<1>2. QED
  BY <1>1, ServerInvariant, PTL
=============================================================================
