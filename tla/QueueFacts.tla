------------------------------ MODULE QueueFacts ------------------------------
(***************************************************************************)
(* What filtering, cutting and joining do to a queue, proved for queues of *)
(* every length: the facts the proofs about the receipt queue, the phone   *)
(* queue and the registry of the REST gateway rest on.                     *)
(***************************************************************************)
EXTENDS Queues, SequenceTheorems, FiniteSetTheorems, WellFoundedInduction, TLAPS

-----------------------------------------------------------------------------
(* Queues: what is added at the end, put back at the front, taken from the *)
(* front and cut, and that nothing is in a queue twice after it            *)

\* Nothing is in q twice.
Distinct(q) == \A i, j \in DOMAIN q : q[i] = q[j] => i = j

\* Two queues behind each other (unshift and push of mtQueue and deliveryQueues)
\* hold what both held, nothing twice if nothing was in both.
LEMMA ConcatQueue ==
    ASSUME NEW S, NEW p \in Seq(S), NEW q \in Seq(S)
    PROVE  /\ p \o q \in Seq(S)
           /\ Range(p \o q) = Range(p) \cup Range(q)
           /\ Distinct(p) /\ Distinct(q) /\ Range(p) \cap Range(q) = {}
                => Distinct(p \o q)
<1>1. p \o q \in Seq(S) /\ Range(p \o q) = Range(p) \cup Range(q)
  BY RangeConcatenation
<1>2. ASSUME Distinct(p), Distinct(q), Range(p) \cap Range(q) = {},
             NEW i \in DOMAIN (p \o q), NEW j \in DOMAIN (p \o q), (p \o q)[i] = (p \o q)[j]
      PROVE  i = j
  <2>1. /\ i \in 1 .. Len(p) + Len(q) /\ j \in 1 .. Len(p) + Len(q)
        /\ Len(p) \in Nat /\ Len(q) \in Nat
        /\ DOMAIN p = 1 .. Len(p) /\ DOMAIN q = 1 .. Len(q)
    BY ConcatProperties
  <2>2. CASE i <= Len(p) /\ j <= Len(p)
    BY <1>2, <2>1, <2>2, ConcatProperties DEF Distinct
  <2>3. CASE i > Len(p) /\ j > Len(p)
    BY <1>2, <2>1, <2>3, ConcatProperties DEF Distinct
  <2>4. ASSUME NEW k \in 1 .. Len(p), NEW l \in Len(p) + 1 .. Len(p) + Len(q)
        PROVE  (p \o q)[k] # (p \o q)[l]
    <3>1. (p \o q)[k] = p[k] /\ (p \o q)[l] = q[l - Len(p)]
      BY <2>1, <2>4, ConcatProperties
    <3>2. p[k] \in Range(p) /\ q[l - Len(p)] \in Range(q)
      BY <2>1, <2>4, RangeEquality
    <3> QED BY <1>2, <3>1, <3>2
  <2> QED BY <1>2, <2>1, <2>2, <2>3, <2>4
<1> QED BY <1>1, <1>2 DEF Distinct

\* One entry behind a queue, or before it
LEMMA OneQueue ==
    ASSUME NEW S, NEW e \in S
    PROVE  <<e>> \in Seq(S) /\ Range(<<e>>) = {e} /\ Distinct(<<e>>)
  BY DEF Range, Distinct

\* A requeue (pendingQueue.push) adds its message at the end and keeps the queue without repetition.
LEMMA AppendQueue ==
    ASSUME NEW S, NEW q \in Seq(S), NEW e \in S
    PROVE  /\ Append(q, e) \in Seq(S)
           /\ Range(Append(q, e)) = Range(q) \cup {e}
           /\ Distinct(q) /\ e \notin Range(q) => Distinct(Append(q, e))
<1> DEFINE t == <<e>>
<1>1. Append(q, e) = q \o t
  BY AppendIsConcat
<1>2. t \in Seq(S) /\ Range(t) = {e} /\ Distinct(t)
  BY OneQueue
<1> HIDE DEF t
<1>3. /\ q \o t \in Seq(S) /\ Range(q \o t) = Range(q) \cup Range(t)
      /\ Distinct(q) /\ Range(q) \cap Range(t) = {} => Distinct(q \o t)
  BY <1>2, ConcatQueue
<1> QED BY <1>1, <1>2, <1>3

\* A part of a queue, as slice and splice give it
LEMMA PartOfQueue ==
    ASSUME NEW S, NEW q \in Seq(S), NEW i \in 1 .. Len(q) + 1
    PROVE  /\ SubSeq(q, i, Len(q)) \in Seq(S)
           /\ Range(SubSeq(q, i, Len(q))) = {q[k] : k \in i .. Len(q)}
           /\ Distinct(q) => Distinct(SubSeq(q, i, Len(q)))
<1> DEFINE t == SubSeq(q, i, Len(q))
<1>1. Len(q) \in Nat /\ DOMAIN q = 1 .. Len(q) /\ \A k \in i .. Len(q) : q[k] \in S
  OBVIOUS
<1>2. /\ t \in Seq(S) /\ Len(t) = Len(q) + 1 - i
      /\ \A k \in 1 .. Len(q) + 1 - i : t[k] = q[i + k - 1]
  BY <1>1, SubSeqProperties
<1>3. DOMAIN t = 1 .. Len(q) + 1 - i
  BY <1>2
<1> HIDE DEF t
<1>4. Range(t) = {q[k] : k \in i .. Len(q)}
  <2>1. ASSUME NEW k \in i .. Len(q) PROVE q[k] \in Range(t)
    <3>1. k - i + 1 \in DOMAIN t /\ t[k - i + 1] = q[k]
      BY <1>1, <1>2, <1>3
    <3> QED BY <3>1 DEF Range
  <2>2. ASSUME NEW k \in DOMAIN t PROVE t[k] \in {q[l] : l \in i .. Len(q)}
    <3>1. i + k - 1 \in i .. Len(q) /\ t[k] = q[i + k - 1]
      BY <1>1, <1>2, <1>3
    <3> QED BY <3>1
  <2> QED BY <2>1, <2>2 DEF Range
<1>5. ASSUME Distinct(q), NEW k \in DOMAIN t, NEW l \in DOMAIN t, t[k] = t[l] PROVE k = l
  <2>1. i + k - 1 \in DOMAIN q /\ i + l - 1 \in DOMAIN q
    BY <1>1, <1>3
  <2>2. t[k] = q[i + k - 1] /\ t[l] = q[i + l - 1]
    BY <1>2, <1>3
  <2>3. i + k - 1 = i + l - 1
    BY <1>5, <2>1, <2>2 DEF Distinct
  <2> QED BY <1>3, <2>3
<1> QED BY <1>2, <1>4, <1>5 DEF t, Distinct

\* What is taken from the front is not in the rest.
LEMMA SplitQueue ==
    ASSUME NEW S, NEW q \in Seq(S), NEW n \in 1 .. Len(q)
    PROVE  /\ Range(SubSeq(q, 1, n)) \subseteq Range(q)
           /\ Range(SubSeq(q, n + 1, Len(q))) \subseteq Range(q)
           /\ Distinct(q)
                => Range(SubSeq(q, 1, n)) \cap Range(SubSeq(q, n + 1, Len(q))) = {}
<1>1. Len(q) \in Nat /\ DOMAIN q = 1 .. Len(q) /\ \A k \in 1 .. n : q[k] \in S
  OBVIOUS
<1>2. Range(SubSeq(q, n + 1, Len(q))) = {q[k] : k \in n + 1 .. Len(q)}
  BY <1>1, PartOfQueue
<1>3. Range(SubSeq(q, 1, n)) = {q[k] : k \in 1 .. n}
  <2> DEFINE t == SubSeq(q, 1, n)
  <2>1. t \in Seq(S) /\ Len(t) = n /\ \A k \in 1 .. n : t[k] = q[k]
    BY <1>1, SubSeqProperties
  <2>2. DOMAIN t = 1 .. n
    BY <2>1
  <2> QED BY <2>1, <2>2 DEF Range
<1>4. Range(q) = {q[k] : k \in 1 .. Len(q)}
  BY <1>1 DEF Range
<1> QED BY <1>1, <1>2, <1>3, <1>4 DEF Distinct

-----------------------------------------------------------------------------
(* Loops over a queue *)

\* A set of numbers that has an element has a least one: how the loops below are
\* reasoned about.
LEMMA LeastNumber ==
    ASSUME NEW A \in SUBSET Nat, A # {}
    PROVE  \E j \in A : \A k \in A : j <= k
<1>1. \E j \in A : \A k \in A : ~ (<<k, j>> \in OpToRel(<, Nat))
  BY NatLessThanWellFounded, WFMin
<1>2. \A j, k \in Nat : k < j => <<k, j>> \in OpToRel(<, Nat)
  BY Zenon DEF OpToRel
<1>3. \E j \in A : \A k \in A : ~ (k < j)
  BY <1>1, <1>2
<1> QED BY <1>3

\* f[i] is what a loop over q has after its first i entries, i up to n.
Loop(f, base, body, q, n) ==
    f[0] = base /\ \A i \in 1 .. n : f[i] = body[<<f[i - 1], q[i]>>]

\* A loop whose body is a function of what it has so far and of the next entry runs
\* to the end of the queue.
LEMMA LoopRuns ==
    ASSUME NEW D, NEW V, NEW base \in V, NEW body \in [V \X D -> V], NEW q \in Seq(D),
           NEW n \in 0 .. Len(q)
    PROVE  \E f \in [0 .. n -> V] : Loop(f, base, body, q, n)
<1> DEFINE Runs(k) == \E f \in [0 .. k -> V] : Loop(f, base, body, q, k)
<1> DEFINE A == {k \in 0 .. Len(q) : ~Runs(k)}
<1>1. Len(q) \in Nat /\ \A i \in 1 .. Len(q) : q[i] \in D
  OBVIOUS
<1>2. Runs(0)
  <2> DEFINE f == [i \in 0 .. 0 |-> base]
  <2>1. f \in [0 .. 0 -> V] /\ f[0] = base
    OBVIOUS
  <2>2. \A i \in 1 .. 0 : FALSE
    OBVIOUS
  <2> HIDE DEF f
  <2> QED BY <2>1, <2>2 DEF Loop
<1>3. ASSUME NEW k \in 1 .. Len(q), Runs(k - 1) PROVE Runs(k)
  <2>1. PICK f \in [0 .. k - 1 -> V] : Loop(f, base, body, q, k - 1)
    BY <1>3
  <2> DEFINE next == body[<<f[k - 1], q[k]>>]
  <2> DEFINE g == [i \in 0 .. k |-> IF i = k THEN next ELSE f[i]]
  <2>2. k - 1 \in 0 .. k - 1 /\ 0 \in 0 .. k - 1
    OBVIOUS
  <2>3. next \in V
    BY <1>1, <2>1, <2>2
  <2>4. g \in [0 .. k -> V]
    BY <2>1, <2>3
  <2>5. g[k] = next /\ g[k - 1] = f[k - 1] /\ g[0] = base
    BY <2>1, <2>2 DEF Loop
  <2>6. \A i \in 1 .. k - 1 : g[i] = f[i] /\ g[i - 1] = f[i - 1]
    BY <2>2
  <2> HIDE DEF g
  <2>7. g[k] = body[<<g[k - 1], q[k]>>]
    BY <2>5
  <2>8. \A i \in 1 .. k - 1 : g[i] = body[<<g[i - 1], q[i]>>]
    BY <2>1, <2>6 DEF Loop
  <2>9. \A i \in 1 .. k : i = k \/ i \in 1 .. k - 1
    OBVIOUS
  <2>10. \A i \in 1 .. k : g[i] = body[<<g[i - 1], q[i]>>]
    BY <2>7, <2>8, <2>9
  <2> QED BY <2>4, <2>5, <2>10 DEF Loop
<1> HIDE DEF Runs
<1>4. A = {}
  <2> SUFFICES ASSUME A # {} PROVE FALSE
    OBVIOUS
  <2>1. A \in SUBSET Nat
    BY <1>1
  <2>2. PICK j \in A : \A k \in A : j <= k
    BY <2>1, LeastNumber
  <2>3. j \in 1 .. Len(q)
    BY <1>1, <1>2, <2>2
  <2>4. j - 1 \in 0 .. Len(q) /\ ~(j <= j - 1)
    BY <1>1, <2>3
  <2>5. Runs(j - 1)
    BY <2>2, <2>4
  <2> QED BY <1>3, <2>2, <2>3, <2>5
<1>5. Runs(n)
  BY <1>4
<1> QED BY <1>5 DEF Runs

\* What a filter (Array.filter) passes through, entry by entry
LEMMA KeptSteps ==
    ASSUME NEW D, NEW q \in Seq(D), NEW S
    PROVE  \E f \in [0 .. Len(q) -> Seq(D)] :
              /\ f[0] = <<>> /\ f[Len(q)] = Kept(q, S)
              /\ \A i \in 1 .. Len(q) :
                    f[i] = IF q[i] \in S THEN Append(f[i - 1], q[i]) ELSE f[i - 1]
<1> DEFINE body == [vd \in Seq(D) \X D |-> IF vd[2] \in S THEN Append(vd[1], vd[2]) ELSE vd[1]]
<1>1. body \in [Seq(D) \X D -> Seq(D)]
  <2>1. ASSUME NEW vd \in Seq(D) \X D
        PROVE  (IF vd[2] \in S THEN Append(vd[1], vd[2]) ELSE vd[1]) \in Seq(D)
    OBVIOUS
  <2> QED BY <2>1
<1>2. Len(q) \in Nat /\ Len(q) \in 0 .. Len(q) /\ <<>> \in Seq(D)
  OBVIOUS
<1>3. \A v \in Seq(D), d \in D : body[<<v, d>>] = IF d \in S THEN Append(v, d) ELSE v
  OBVIOUS
<1> HIDE DEF body
<1>4. PICK f \in [0 .. Len(q) -> Seq(D)] : Loop(f, <<>>, body, q, Len(q))
  BY <1>1, <1>2, LoopRuns
<1>5. ASSUME NEW i \in 1 .. Len(q)
      PROVE  f[i] = IF q[i] \in S THEN Append(f[i - 1], q[i]) ELSE f[i - 1]
  <2>1. i - 1 \in 0 .. Len(q) /\ q[i] \in D
    OBVIOUS
  <2>2. f[i - 1] \in Seq(D)
    BY <2>1
  <2> QED BY <1>3, <1>4, <2>1, <2>2 DEF Loop
<1> DEFINE Filters(k) == k = [n \in 0 .. Len(q) |->
              IF n = 0 THEN <<>>
              ELSE IF q[n] \in S THEN Append(k[n - 1], q[n]) ELSE k[n - 1]]
<1>6. Filters(f)
  <2>1. \A n \in 0 .. Len(q) : n = 0 \/ n \in 1 .. Len(q)
    BY <1>2
  <2>3. \A n \in 0 .. Len(q) : f[n] = IF n = 0 THEN <<>>
              ELSE IF q[n] \in S THEN Append(f[n - 1], q[n]) ELSE f[n - 1]
    BY <1>4, <1>5, <2>1 DEF Loop
  <2>2. f = [n \in 0 .. Len(q) |-> f[n]]
    OBVIOUS
  <2> QED BY <2>2, <2>3
<1> DEFINE kept == CHOOSE k : Filters(k)
<1>7. Filters(kept)
  BY <1>6
<1>8. Kept(q, S) = kept[Len(q)]
  BY DEF Kept
<1> HIDE DEF kept
<1>9. /\ kept[0] = <<>>
      /\ \A i \in 1 .. Len(q) :
            kept[i] = IF q[i] \in S THEN Append(kept[i - 1], q[i]) ELSE kept[i - 1]
  <2>1. \A n \in 0 .. Len(q) : kept[n] = IF n = 0 THEN <<>>
              ELSE IF q[n] \in S THEN Append(kept[n - 1], q[n]) ELSE kept[n - 1]
    BY <1>7, Zenon
  <2>2. 0 \in 0 .. Len(q) /\ \A i \in 1 .. Len(q) : i \in 0 .. Len(q) /\ i # 0
    BY <1>2
  <2> QED BY <2>1, <2>2
<1> DEFINE A == {n \in 0 .. Len(q) : kept[n] # f[n]}
<1>10. A = {}
  <2> SUFFICES ASSUME A # {} PROVE FALSE
    OBVIOUS
  <2>1. A \in SUBSET Nat
    BY <1>2
  <2>2. PICK j \in A : \A k \in A : j <= k
    BY <2>1, LeastNumber
  <2>3. j # 0 /\ j \in 1 .. Len(q) /\ j - 1 \in 0 .. Len(q) /\ ~(j <= j - 1)
    BY <1>2, <1>4, <1>9, <2>2 DEF Loop
  <2>4. kept[j - 1] = f[j - 1]
    BY <2>2, <2>3
  <2>5. kept[j] = f[j]
    BY <1>5, <1>9, <2>3, <2>4
  <2> QED BY <2>2, <2>5
<1>11. kept[Len(q)] = f[Len(q)]
  BY <1>2, <1>10
<1> QED BY <1>4, <1>5, <1>8, <1>11 DEF Loop

\* p holds the entries of the first n of q that are in S: g[k] is the place in q of the
\* k-th of them.
Picks(g, p, q, S, n) ==
    /\ g \in [1 .. Len(p) -> 1 .. n] /\ Len(p) <= n
    /\ \A k \in 1 .. Len(p) : p[k] = q[g[k]] /\ q[g[k]] \in S
    /\ \A k, l \in 1 .. Len(p) : k < l => g[k] < g[l]
    /\ \A i \in 1 .. n : q[i] \in S => \E k \in 1 .. Len(p) : g[k] = i

\* A filter takes all entries it is meant to, and in their order.
LEMMA KeptPlaces ==
    ASSUME NEW D, NEW q \in Seq(D), NEW S
    PROVE  Kept(q, S) \in Seq(D) /\ \E g : Picks(g, Kept(q, S), q, S, Len(q))
<1>1. PICK f \in [0 .. Len(q) -> Seq(D)] :
              /\ f[0] = <<>> /\ f[Len(q)] = Kept(q, S)
              /\ \A i \in 1 .. Len(q) :
                    f[i] = IF q[i] \in S THEN Append(f[i - 1], q[i]) ELSE f[i - 1]
  BY KeptSteps
<1>2. Len(q) \in Nat /\ Len(q) \in 0 .. Len(q)
  OBVIOUS
<1> DEFINE Picked(n) == \E g : Picks(g, f[n], q, S, n)
<1>3. Picked(0)
  <2> DEFINE g == [i \in 1 .. 0 |-> 0]
  <2>1. g \in [1 .. 0 -> 1 .. 0] /\ Len(<<>>) = 0
    OBVIOUS
  <2>2. \A i \in 1 .. 0 : FALSE
    OBVIOUS
  <2> HIDE DEF g
  <2>3. Picks(g, <<>>, q, S, 0)
    BY <2>1, <2>2 DEF Picks
  <2> QED BY <1>1, <2>3
<1>4. ASSUME NEW n \in 1 .. Len(q), Picked(n - 1) PROVE Picked(n)
  <2> DEFINE p == f[n - 1]
  <2>1. n - 1 \in 0 .. Len(q) /\ n \in Nat
    BY <1>2
  <2>2. p \in Seq(D) /\ Len(p) \in Nat /\ q[n] \in D
    BY <2>1
  <2>3. PICK g : Picks(g, p, q, S, n - 1)
    BY <1>4
  <2>4. CASE q[n] \notin S
    <3>1. f[n] = p
      BY <1>1, <2>4
    <3> HIDE DEF p
    <3>2. Picks(g, p, q, S, n)
      <4>1. g \in [1 .. Len(p) -> 1 .. n] /\ Len(p) <= n
        BY <2>1, <2>2, <2>3 DEF Picks
      <4>2. \A i \in 1 .. n : q[i] \in S => i \in 1 .. n - 1
        BY <2>1, <2>4
      <4> QED BY <2>3, <4>1, <4>2 DEF Picks
    <3> QED BY <3>1, <3>2
  <2>5. CASE q[n] \in S
    <3> DEFINE m == Len(p) + 1
    <3> DEFINE r == Append(p, q[n])
    <3> DEFINE h == [k \in 1 .. m |-> IF k = m THEN n ELSE g[k]]
    <3>1. f[n] = r
      BY <1>1, <2>5
    <3> HIDE DEF p
    <3>2. Len(r) = m /\ r[m] = q[n] /\ \A k \in 1 .. Len(p) : r[k] = p[k]
      BY <2>2
    <3>3. m \in Nat /\ m <= n
      BY <2>1, <2>2, <2>3 DEF Picks
    <3>4. h[m] = n /\ \A k \in 1 .. Len(p) : h[k] = g[k] /\ g[k] \in 1 .. n - 1
      BY <2>2, <2>3 DEF Picks
    <3>5. \A k \in 1 .. m : k = m \/ k \in 1 .. Len(p)
      BY <2>2
    <3>6. h \in [1 .. m -> 1 .. n]
      <4> DEFINE e(k) == IF k = m THEN n ELSE g[k]
      <4>1. \A k \in 1 .. Len(p) : g[k] \in 1 .. n - 1
        BY <2>3 DEF Picks
      <4>2. n \in 1 .. n /\ \A i \in 1 .. n - 1 : i \in 1 .. n
        BY <2>1
      <4>3. \A k \in 1 .. m : e(k) \in 1 .. n
        BY <3>5, <4>1, <4>2
      <4> QED BY <4>3
    <3> HIDE DEF r, h
    <3>7. \A k \in 1 .. m : r[k] = q[h[k]] /\ q[h[k]] \in S
      BY <2>3, <2>5, <3>2, <3>4, <3>5 DEF Picks
    <3>8. \A k, l \in 1 .. m : k < l => h[k] < h[l]
      <4>1. ASSUME NEW k \in 1 .. m, NEW l \in 1 .. m, k < l PROVE h[k] < h[l]
        <5>1. k \in 1 .. Len(p)
          BY <2>2, <4>1
        <5>2. CASE l = m
          BY <2>1, <3>4, <5>1, <5>2
        <5>3. CASE l \in 1 .. Len(p)
          BY <2>3, <3>4, <4>1, <5>1, <5>3 DEF Picks
        <5> QED BY <3>5, <5>2, <5>3
      <4> QED BY <4>1
    <3>9. \A i \in 1 .. n : q[i] \in S => \E k \in 1 .. m : h[k] = i
      <4>1. ASSUME NEW i \in 1 .. n, q[i] \in S PROVE \E k \in 1 .. m : h[k] = i
        <5>1. CASE i = n
          BY <2>2, <3>3, <3>4, <5>1
        <5>2. CASE i # n
          <6>1. i \in 1 .. n - 1
            BY <2>1, <5>2
          <6>2. PICK k \in 1 .. Len(p) : g[k] = i
            BY <2>3, <4>1, <6>1 DEF Picks
          <6>3. k \in 1 .. m
            BY <2>2
          <6> QED BY <3>4, <6>2, <6>3
        <5> QED BY <5>1, <5>2
      <4> QED BY <4>1
    <3> HIDE DEF m
    <3>10. Picks(h, r, q, S, n)
      BY <3>2, <3>3, <3>6, <3>7, <3>8, <3>9 DEF Picks
    <3> QED BY <3>1, <3>10
  <2> QED BY <2>4, <2>5
<1> DEFINE A == {n \in 0 .. Len(q) : ~Picked(n)}
<1> HIDE DEF Picked
<1>5. A = {}
  <2> SUFFICES ASSUME A # {} PROVE FALSE
    OBVIOUS
  <2>1. A \in SUBSET Nat
    BY <1>2
  <2>2. PICK j \in A : \A k \in A : j <= k
    BY <2>1, LeastNumber
  <2>3. j \in 1 .. Len(q) /\ j - 1 \in 0 .. Len(q) /\ ~(j <= j - 1)
    BY <1>2, <1>3, <2>2
  <2>4. Picked(j - 1)
    BY <2>2, <2>3
  <2> QED BY <1>4, <2>2, <2>3, <2>4
<1>6. Picked(Len(q))
  BY <1>2, <1>5
<1> QED BY <1>1, <1>2, <1>6 DEF Picked

\* What comes first in p comes first in q.
Ordered(p, q) ==
    \A k, l \in 1 .. Len(p) : k < l =>
        \E i, j \in 1 .. Len(q) : i < j /\ p[k] = q[i] /\ p[l] = q[j]

\* So it keeps the entries, and whatever order and singleness they have.
LEMMA KeptQueue ==
    ASSUME NEW D, NEW q \in Seq(D), NEW S
    PROVE  /\ Kept(q, S) \in Seq(D)
           /\ Range(Kept(q, S)) = Range(q) \cap S
           /\ Len(Kept(q, S)) <= Len(q)
           /\ Distinct(q) => Distinct(Kept(q, S))
           /\ Ordered(Kept(q, S), q)
<1> DEFINE p == Kept(q, S)
<1>1. p \in Seq(D) /\ \E g : Picks(g, p, q, S, Len(q))
  BY KeptPlaces
<1>2. PICK g : Picks(g, p, q, S, Len(q))
  BY <1>1
<1> HIDE DEF p
<1>3. /\ DOMAIN p = 1 .. Len(p) /\ Len(p) \in Nat
      /\ DOMAIN q = 1 .. Len(q) /\ Len(q) \in Nat
  BY <1>1
<1>4. Range(p) = Range(q) \cap S
  <2>1. \A k \in DOMAIN p : p[k] \in Range(q) \cap S
    BY <1>2, <1>3 DEF Picks, Range
  <2>2. ASSUME NEW i \in DOMAIN q, q[i] \in S PROVE \E k \in DOMAIN p : p[k] = q[i]
    BY <1>2, <1>3, <2>2 DEF Picks
  <2>3. ASSUME NEW e \in Range(q) \cap S PROVE e \in Range(p)
    BY <2>2, <2>3 DEF Range
  <2>4. ASSUME NEW e \in Range(p) PROVE e \in Range(q) \cap S
    BY <2>1, <2>4 DEF Range
  <2> QED BY <2>3, <2>4
<1>5. \A k, l \in 1 .. Len(p) : k < l =>
         \E i, j \in 1 .. Len(q) : i < j /\ p[k] = q[i] /\ p[l] = q[j]
  <2>1. ASSUME NEW k \in 1 .. Len(p), NEW l \in 1 .. Len(p), k < l
        PROVE  /\ g[k] \in 1 .. Len(q) /\ g[l] \in 1 .. Len(q)
               /\ g[k] < g[l] /\ p[k] = q[g[k]] /\ p[l] = q[g[l]]
    BY <1>2, <2>1 DEF Picks
  <2> QED BY <2>1
<1>6. Distinct(q) => Distinct(p)
  <2>1. ASSUME Distinct(q), NEW k \in 1 .. Len(p), NEW l \in 1 .. Len(p), k < l
        PROVE  p[k] # p[l]
    <3>1. PICK i \in 1 .. Len(q), j \in 1 .. Len(q) : i < j /\ p[k] = q[i] /\ p[l] = q[j]
      BY <1>5, <2>1
    <3>2. i # j
      BY <1>3, <3>1
    <3> QED BY <1>3, <2>1, <3>1, <3>2 DEF Distinct
  <2>2. \A k, l \in 1 .. Len(p) : k = l \/ k < l \/ l < k
    BY <1>3
  <2> QED BY <1>3, <2>1, <2>2 DEF Distinct
<1>7. Len(p) <= Len(q)
  BY <1>2 DEF Picks
<1> QED BY <1>1, <1>4, <1>5, <1>6, <1>7 DEF p, Ordered

\* The rest of a filter (deleteFromDb, cleanupStaleDlrs) likewise
LEMMA WithoutQueue ==
    ASSUME NEW D, NEW q \in Seq(D), NEW S
    PROVE  /\ Without(q, S) \in Seq(D)
           /\ Range(Without(q, S)) = Range(q) \ S
           /\ Len(Without(q, S)) <= Len(q)
           /\ Distinct(q) => Distinct(Without(q, S))
           /\ Ordered(Without(q, S), q)
<1> DEFINE R == Range(q) \ S
<1>1. Range(q) \cap R = Range(q) \ S
  OBVIOUS
<1> HIDE DEF R
<1>2. /\ Kept(q, R) \in Seq(D) /\ Range(Kept(q, R)) = Range(q) \cap R
      /\ Len(Kept(q, R)) <= Len(q)
      /\ Distinct(q) => Distinct(Kept(q, R))
      /\ Ordered(Kept(q, R), q)
  BY KeptQueue
<1>3. Without(q, S) = Kept(q, R)
  BY DEF Without, R
<1> QED BY <1>1, <1>2, <1>3

-----------------------------------------------------------------------------
(* Cutting a queue to its newest entries *)

\* A cut (shift, or the slice of a trim) leaves a queue within its limit, takes nothing
\* that was not there and keeps the order.
LEMMA NewestQueue ==
    ASSUME NEW D, NEW q \in Seq(D), NEW n \in Nat \ {0}
    PROVE  /\ Newest(q, n) \in Seq(D)
           /\ Len(Newest(q, n)) = IF Len(q) > n THEN n ELSE Len(q)
           /\ Range(Newest(q, n)) \subseteq Range(q)
           /\ Distinct(q) => Distinct(Newest(q, n))
           /\ Len(q) <= n => Newest(q, n) = q
           /\ \A k \in 1 .. Len(Newest(q, n)) :
                 Newest(q, n)[k] = q[k + Len(q) - Len(Newest(q, n))]
           /\ Ordered(Newest(q, n), q)
<1>1. Len(q) \in Nat /\ DOMAIN q = 1 .. Len(q)
  OBVIOUS
<1> DEFINE p == Newest(q, n)
<1>2. CASE Len(q) <= n
  <2>1. p = q
    BY <1>1, <1>2 DEF Newest
  <2>2. ~(Len(q) > n) /\ \A k \in 1 .. Len(q) : k + Len(q) - Len(q) = k
    BY <1>1, <1>2
  <2>3. Ordered(q, q)
    BY <1>1 DEF Ordered
  <2> HIDE DEF p
  <2> QED BY <1>2, <2>1, <2>2, <2>3 DEF p
<1>3. CASE Len(q) > n
  <2> DEFINE a == Len(q) - n + 1
  <2>1. p = SubSeq(q, a, Len(q)) /\ a \in 1 .. Len(q) + 1
    BY <1>1, <1>3 DEF Newest
  <2>2. /\ p \in Seq(D) /\ Range(p) = {q[k] : k \in a .. Len(q)}
        /\ Distinct(q) => Distinct(p)
    BY <2>1, PartOfQueue
  <2>3. Len(p) = n /\ \A k \in 1 .. n : p[k] = q[k + Len(q) - n]
    <3>1. \A k \in a .. Len(q) : q[k] \in D
      BY <1>1, <2>1
    <3>2. /\ Len(p) = Len(q) + 1 - a
          /\ \A k \in 1 .. Len(q) + 1 - a : p[k] = q[a + k - 1]
      <4> HIDE DEF a, p
      <4> QED BY <1>1, <2>1, <3>1, SubSeqProperties
    <3>3. Len(q) + 1 - a = n /\ \A k \in 1 .. n : a + k - 1 = k + Len(q) - n
      BY <1>1, <1>3
    <3> QED BY <3>2, <3>3
  <2>4. Range(p) \subseteq Range(q)
    BY <1>1, <2>1, <2>2 DEF Range
  <2>5. Ordered(p, q)
    <3>1. ASSUME NEW k \in 1 .. n, NEW l \in 1 .. n, k < l
          PROVE  \E i, j \in 1 .. Len(q) : i < j /\ p[k] = q[i] /\ p[l] = q[j]
      <4>1. /\ k + Len(q) - n \in 1 .. Len(q) /\ l + Len(q) - n \in 1 .. Len(q)
            /\ k + Len(q) - n < l + Len(q) - n
        BY <1>1, <1>3, <3>1
      <4>2. p[k] = q[k + Len(q) - n] /\ p[l] = q[l + Len(q) - n]
        BY <2>3
      <4> HIDE DEF p
      <4> QED BY <4>1, <4>2
    <3> HIDE DEF p
    <3> QED BY <2>3, <3>1 DEF Ordered
  <2> HIDE DEF p
  <2> QED BY <1>1, <1>3, <2>2, <2>3, <2>4, <2>5 DEF p
<1> QED BY <1>1, <1>2, <1>3

\* To add one entry after another to a bounded queue (enqueueDlr) is to join them all
\* and to cut once.
LEMMA NewestAgain ==
    ASSUME NEW D, NEW q \in Seq(D), NEW n \in Nat \ {0}, NEW d \in D
    PROVE  Newest(Append(Newest(q, n), d), n) = Newest(Append(q, d), n)
<1> DEFINE p == Newest(q, n)
<1> DEFINE a == Append(p, d)
<1> DEFINE b == Append(q, d)
<1>1. CASE Len(q) <= n
  BY <1>1, NewestQueue
<1>2. CASE Len(q) > n
  <2>1. /\ p \in Seq(D) /\ Len(p) = n /\ Len(q) \in Nat
        /\ \A k \in 1 .. n : p[k] = q[k + Len(q) - n]
    <3>1. /\ p \in Seq(D) /\ Len(p) = IF Len(q) > n THEN n ELSE Len(q)
          /\ \A k \in 1 .. Len(p) : p[k] = q[k + Len(q) - Len(p)]
      BY NewestQueue
    <3> HIDE DEF p
    <3>2. Len(p) = n
      BY <1>2, <3>1
    <3>3. \A k \in 1 .. n : p[k] = q[k + Len(q) - n]
      BY <3>1, <3>2
    <3>4. Len(q) \in Nat
      OBVIOUS
    <3> QED BY <3>1, <3>2, <3>3, <3>4
  <2> HIDE DEF p
  <2>2. /\ a \in Seq(D) /\ Len(a) = n + 1 /\ a[n + 1] = d
        /\ \A k \in 1 .. n : a[k] = q[k + Len(q) - n]
    BY <2>1
  <2>3. /\ b \in Seq(D) /\ Len(b) = Len(q) + 1 /\ b[Len(q) + 1] = d
        /\ \A k \in 1 .. Len(q) : b[k] = q[k]
    BY <2>1
  <2> HIDE DEF a, b
  <2>4. /\ Newest(a, n) \in Seq(D) /\ Len(Newest(a, n)) = n
        /\ \A k \in 1 .. n : Newest(a, n)[k] = a[k + 1]
    <3>1. /\ Newest(a, n) \in Seq(D)
          /\ Len(Newest(a, n)) = IF Len(a) > n THEN n ELSE Len(a)
          /\ \A k \in 1 .. Len(Newest(a, n)) :
                 Newest(a, n)[k] = a[k + Len(a) - Len(Newest(a, n))]
      BY <2>2, NewestQueue
    <3>2. Len(Newest(a, n)) = n
      BY <2>2, <3>1
    <3>3. \A k \in 1 .. n : k + Len(a) - n = k + 1
      BY <2>2
    <3> QED BY <3>1, <3>2, <3>3
  <2>5. /\ Newest(b, n) \in Seq(D) /\ Len(Newest(b, n)) = n
        /\ \A k \in 1 .. n : Newest(b, n)[k] = b[k + Len(q) + 1 - n]
    <3>1. /\ Newest(b, n) \in Seq(D)
          /\ Len(Newest(b, n)) = IF Len(b) > n THEN n ELSE Len(b)
          /\ \A k \in 1 .. Len(Newest(b, n)) :
                 Newest(b, n)[k] = b[k + Len(b) - Len(Newest(b, n))]
      BY <2>3, NewestQueue
    <3>2. Len(Newest(b, n)) = n
      BY <1>2, <2>1, <2>3, <3>1
    <3>3. \A k \in 1 .. n : k + Len(b) - n = k + Len(q) + 1 - n
      BY <2>1, <2>3
    <3> QED BY <3>1, <3>2, <3>3
  <2>6. \A k \in 1 .. n : a[k + 1] = b[k + Len(q) + 1 - n]
    <3>1. ASSUME NEW k \in 1 .. n PROVE a[k + 1] = b[k + Len(q) + 1 - n]
      <4>1. CASE k = n
        BY <2>1, <2>2, <2>3, <4>1
      <4>2. CASE k # n
        <5>1. k + 1 \in 1 .. n /\ (k + 1) + Len(q) - n = k + Len(q) + 1 - n
          BY <2>1, <4>2
        <5>2. k + Len(q) + 1 - n \in 1 .. Len(q)
          BY <1>2, <2>1, <4>2
        <5> QED BY <2>2, <2>3, <5>1, <5>2
      <4> QED BY <4>1, <4>2
    <3> QED BY <3>1
  <2>7. Newest(a, n) = Newest(b, n)
    BY <2>4, <2>5, <2>6, SeqEqual
  <2> QED BY <2>7 DEF a, b, p
<1> QED BY <1>1, <1>2

-----------------------------------------------------------------------------
(* Rows of a query *)

\* The rows a SELECT returns are a queue of the rows it is meant to return.
LEMMA SetQueue ==
    ASSUME NEW D, NEW S \in SUBSET D, IsFiniteSet(S)
    PROVE  SetToSeq(S) \in Seq(D) /\ Range(SetToSeq(S)) = S
<1> DEFINE n == Cardinality(S)
<1>1. n \in Nat /\ ExistsBijection(1 .. n, S)
  BY FS_CardinalityType
<1>2. IsFiniteSet(1 .. n) /\ Cardinality(1 .. n) = n
  BY <1>1, FS_Interval
<1>3. \E f \in [1 .. n -> S] : IsInjective(f)
  BY <1>1 DEF ExistsBijection, Bijection, Injection
<1> DEFINE f == CHOOSE g \in [1 .. n -> S] : IsInjective(g)
<1>4. f \in [1 .. n -> S] /\ IsInjective(f)
  BY <1>3
<1>5. f = SetToSeq(S)
  BY DEF SetToSeq
<1> HIDE DEF f, n
<1>6. f \in Injection(1 .. n, S)
  BY <1>4 DEF Injection
<1>7. f \in Surjection(1 .. n, S)
  BY <1>2, <1>6, FS_Injection DEF n
<1>8. Range(f) = S
  BY <1>4, <1>7 DEF Surjection, Range
<1>9. f \in Seq(D)
  <2>1. f \in [1 .. n -> D]
    BY <1>4
  <2> QED BY <1>1, <2>1
<1> QED BY <1>5, <1>8, <1>9


-----------------------------------------------------------------------------
(* The first entry of a queue *)

\* What is taken from the front (shift, or the next item of a loop) is no longer in the
\* rest.
LEMMA RestOfQueue ==
    ASSUME NEW S, NEW q \in Seq(S), q # <<>>
    PROVE  /\ Head(q) \in S /\ Tail(q) \in Seq(S)
           /\ Range(q) = {Head(q)} \cup Range(Tail(q))
           /\ Distinct(q) => Distinct(Tail(q)) /\ Head(q) \notin Range(Tail(q))
<1>1. /\ Len(q) \in Nat \ {0} /\ DOMAIN q = 1 .. Len(q) /\ Head(q) = q[1]
      /\ \A i \in 1 .. Len(q) : q[i] \in S
  OBVIOUS
<1> DEFINE t == Tail(q)
<1>2. /\ t \in Seq(S) /\ DOMAIN t = 1 .. Len(q) - 1
      /\ \A i \in 1 .. Len(q) - 1 : t[i] = q[i + 1]
  OBVIOUS
<1> HIDE DEF t
<1>3. Range(q) = {q[1]} \cup Range(t)
  <2>1. ASSUME NEW i \in 1 .. Len(q), i # 1 PROVE q[i] \in Range(t)
    <3>1. i - 1 \in DOMAIN t /\ t[i - 1] = q[i]
      BY <1>1, <1>2, <2>1
    <3> QED BY <3>1 DEF Range
  <2>2. ASSUME NEW i \in DOMAIN t PROVE t[i] \in Range(q)
    <3>1. i + 1 \in DOMAIN q /\ t[i] = q[i + 1]
      BY <1>1, <1>2, <2>2
    <3> QED BY <3>1 DEF Range
  <2>3. q[1] \in Range(q)
    BY <1>1 DEF Range
  <2>4. ASSUME NEW e \in Range(q) PROVE e \in {q[1]} \cup Range(t)
    BY <1>1, <2>1, <2>4 DEF Range
  <2>5. ASSUME NEW e \in Range(t) PROVE e \in Range(q)
    BY <2>2, <2>5 DEF Range
  <2> QED BY <2>3, <2>4, <2>5
<1>4. ASSUME Distinct(q) PROVE Distinct(t) /\ q[1] \notin Range(t)
  <2>1. ASSUME NEW i \in DOMAIN t
        PROVE  i + 1 \in DOMAIN q /\ i + 1 # 1 /\ t[i] = q[i + 1]
    BY <1>1, <1>2, <2>1
  <2>2. ASSUME NEW i \in DOMAIN t, NEW j \in DOMAIN t, t[i] = t[j] PROVE i = j
    <3>1. i + 1 = j + 1
      BY <1>4, <2>1, <2>2 DEF Distinct
    <3> QED BY <1>2, <3>1
  <2>3. 1 \in DOMAIN q
    BY <1>1
  <2> QED BY <1>4, <2>1, <2>2, <2>3 DEF Distinct, Range
<1> QED BY <1>1, <1>2, <1>3, <1>4 DEF t

\* What is put back at the front (unshift) is in the queue again, once if it was not
\* there.
LEMMA FrontQueue ==
    ASSUME NEW S, NEW q \in Seq(S), NEW e \in S
    PROVE  /\ <<e>> \o q \in Seq(S)
           /\ Range(<<e>> \o q) = {e} \cup Range(q)
           /\ Distinct(q) /\ e \notin Range(q) => Distinct(<<e>> \o q)
<1> DEFINE t == <<e>>
<1>1. t \in Seq(S) /\ Range(t) = {e} /\ Distinct(t)
  BY OneQueue
<1> HIDE DEF t
<1>2. /\ t \o q \in Seq(S) /\ Range(t \o q) = Range(t) \cup Range(q)
      /\ Distinct(q) /\ Range(t) \cap Range(q) = {} => Distinct(t \o q)
  BY <1>1, ConcatQueue
<1> QED BY <1>1, <1>2 DEF t

\* An empty queue
LEMMA EmptyQueue ==
    ASSUME NEW S
    PROVE  <<>> \in Seq(S) /\ Range(<<>>) = {} /\ Distinct(<<>>)
  BY DEF Range, Distinct
===============================================================================
