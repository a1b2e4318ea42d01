------------------------------- MODULE DlrProofs -------------------------------
(***************************************************************************)
(* The receipts of an ESME client, proved for any number of receipts,      *)
(* sessions, restarts and faults: the queue and its table (DlrStore), the  *)
(* Mailbox it is to its client, and how the receipts reach the client's    *)
(* sessions (DlrDelivery).                                                 *)
(***************************************************************************)
EXTENDS DlrDelivery, QueueFacts

-----------------------------------------------------------------------------
(* The bounded queue *)

\* A bounded queue that is never longer than its limit loses its oldest receipt to a
\* new one, and no more (enqueueDlr).
LEMMA EnqueuedOne ==
    ASSUME NEW q \in Seq(Dlrs), Len(q) <= Cap, NEW d \in Dlrs
    PROVE  Enqueued(q, d) = Newest(Append(q, d), Cap)
<1> DEFINE a == Append(q, d)
<1>1. Cap \in Nat \ {0} /\ Len(q) \in Nat
  BY StoreAssumption
<1>2. a \in Seq(Dlrs) /\ Len(a) = Len(q) + 1 /\ a[Len(q) + 1] = d
      /\ \A k \in 1 .. Len(q) : a[k] = q[k]
  OBVIOUS
<1>3. CASE Len(q) < Cap
  <2>1. Newest(a, Cap) = a
    <3> HIDE DEF a
    <3> QED BY <1>1, <1>2, <1>3 DEF Newest
  <2> QED BY <1>1, <1>3, <2>1 DEF Enqueued
<1>4. CASE Len(q) = Cap
  <2> DEFINE t == Append(Tail(q), d)
  <2>1. q # <<>>
    BY <1>1, <1>4
  <2>2. /\ Tail(q) \in Seq(Dlrs) /\ Len(Tail(q)) = Cap - 1
        /\ \A k \in 1 .. Cap - 1 : Tail(q)[k] = q[k + 1]
    BY <1>1, <1>4, <2>1, HeadTailProperties
  <2>3. /\ t \in Seq(Dlrs) /\ Len(t) = Cap /\ t[Cap] = d
        /\ \A k \in 1 .. Cap - 1 : t[k] = q[k + 1]
    BY <1>1, <2>2
  <2>4. Enqueued(q, d) = t
    BY <1>1, <1>4 DEF Enqueued
  <2> HIDE DEF a, t
  <2>5. /\ Newest(a, Cap) \in Seq(Dlrs)
        /\ Len(Newest(a, Cap)) = Cap
    <3>1. /\ Newest(a, Cap) \in Seq(Dlrs)
          /\ Len(Newest(a, Cap)) = IF Len(a) > Cap THEN Cap ELSE Len(a)
      BY <1>1, <1>2, NewestQueue
    <3> QED BY <1>1, <1>2, <1>4, <3>1
  <2>6. \A k \in 1 .. Cap : Newest(a, Cap)[k] = a[k + 1]
    <3>1. \A k \in 1 .. Len(Newest(a, Cap)) :
              Newest(a, Cap)[k] = a[k + Len(a) - Len(Newest(a, Cap))]
      BY <1>1, <1>2, NewestQueue
    <3>2. \A k \in 1 .. Cap : k + Len(a) - Cap = k + 1
      BY <1>1, <1>2, <1>4
    <3> QED BY <2>5, <3>1, <3>2
  <2>7. \A k \in 1 .. Cap : t[k] = a[k + 1]
    <3>1. \A k \in 1 .. Cap : k = Cap \/ (k \in 1 .. Cap - 1 /\ k + 1 \in 1 .. Len(q))
      BY <1>1, <1>4
    <3> QED BY <1>2, <1>4, <2>3, <3>1
  <2>8. t = Newest(a, Cap)
    BY <2>3, <2>5, <2>6, <2>7, SeqEqual
  <2> QED BY <2>4, <2>8 DEF a
<1> QED BY <1>1, <1>3, <1>4

\* Enqueueing receipts one after the other (requeueDlrsPersist, the load of a start,
\* the recovery) comes to joining them and cutting the queue to its limit.
LEMMA EnqueuedMany ==
    ASSUME NEW q \in Seq(Dlrs), Len(q) <= Cap, NEW ds \in Seq(Dlrs)
    PROVE  EnqueuedAll(q, ds) = Newest(q \o ds, Cap)
<1> DEFINE V == Seq(Dlrs)
<1> DEFINE body == [vd \in V \X Dlrs |-> Enqueued(vd[1], vd[2])]
<1>1. /\ Cap \in Nat \ {0} /\ Len(q) \in Nat /\ Len(ds) \in Nat
      /\ Len(ds) \in 0 .. Len(ds) /\ \A n \in 1 .. Len(ds) : ds[n] \in Dlrs
  BY StoreAssumption
<1>2. \A v \in V, d \in Dlrs : Enqueued(v, d) \in V
  <2>1. ASSUME NEW v \in V, NEW d \in Dlrs PROVE Enqueued(v, d) \in V
    <3>1. CASE Len(v) >= Cap
      <4>1. v # <<>>
        BY <1>1, <3>1
      <4>2. Tail(v) \in V
        BY <4>1, HeadTailProperties
      <4> QED BY <3>1, <4>2 DEF Enqueued
    <3>2. CASE ~(Len(v) >= Cap)
      BY <3>2 DEF Enqueued
    <3> QED BY <3>1, <3>2
  <2> QED BY <2>1
<1>3. body \in [V \X Dlrs -> V]
  <2>1. \A vd \in V \X Dlrs : Enqueued(vd[1], vd[2]) \in V
    BY <1>2
  <2> QED BY <2>1
<1>4. \A v \in V, d \in Dlrs : body[<<v, d>>] = Enqueued(v, d)
  OBVIOUS
<1> HIDE DEF body, V
<1>5. PICK f \in [0 .. Len(ds) -> V] : Loop(f, q, body, ds, Len(ds))
  <2>1. q \in V
    BY DEF V
  <2> QED BY <1>1, <1>3, <2>1, LoopRuns
<1> DEFINE Runs(k) == k = [n \in 0 .. Len(ds) |->
                             IF n = 0 THEN q ELSE Enqueued(k[n - 1], ds[n])]
<1>6. Runs(f)
  <2>1. ASSUME NEW n \in 0 .. Len(ds)
        PROVE  f[n] = IF n = 0 THEN q ELSE Enqueued(f[n - 1], ds[n])
    <3>1. CASE n = 0
      BY <1>5, <3>1 DEF Loop
    <3>2. CASE n # 0
      <4>1. n \in 1 .. Len(ds) /\ n - 1 \in 0 .. Len(ds)
        BY <1>1, <3>2
      <4>2. f[n - 1] \in V /\ ds[n] \in Dlrs
        BY <1>1, <4>1
      <4> QED BY <1>4, <1>5, <3>2, <4>1, <4>2 DEF Loop
    <3> QED BY <3>1, <3>2
  <2> QED BY <2>1
<1> DEFINE after == CHOOSE k : Runs(k)
<1>7. Runs(after)
  BY <1>6
<1>8. EnqueuedAll(q, ds) = after[Len(ds)]
  BY DEF EnqueuedAll
<1> HIDE DEF after
<1>9. \A n \in 0 .. Len(ds) : after[n] = IF n = 0 THEN q ELSE Enqueued(after[n - 1], ds[n])
  BY <1>7, Zenon
<1> DEFINE Right(n) == after[n] = Newest(q \o SubSeq(ds, 1, n), Cap)
<1>10. Right(0)
  <2>1. SubSeq(ds, 1, 0) = <<>> /\ q \o <<>> = q
    OBVIOUS
  <2>2. Newest(q, Cap) = q
    BY <1>1 DEF Newest
  <2>3. after[0] = q
    BY <1>1, <1>9
  <2> QED BY <2>1, <2>2, <2>3
<1>11. ASSUME NEW n \in 1 .. Len(ds), Right(n - 1) PROVE Right(n)
  <2> DEFINE s == SubSeq(ds, 1, n - 1)
  <2> DEFINE j == q \o s
  <2>1. ds[n] \in Dlrs /\ n \in 0 .. Len(ds) /\ n # 0
    BY <1>1
  <2>2. s \in Seq(Dlrs) /\ SubSeq(ds, 1, n) = Append(s, ds[n])
    OBVIOUS
  <2>3. j \in Seq(Dlrs)
    BY <2>2
  <2>4. Append(j, ds[n]) = q \o Append(s, ds[n])
    <3> DEFINE e == <<ds[n]>>
    <3>1. e \in Seq(Dlrs) /\ Append(j, ds[n]) = j \o e /\ Append(s, ds[n]) = s \o e
      BY <2>1, <2>2, <2>3, AppendIsConcat
    <3> HIDE DEF s, e
    <3>2. (q \o s) \o e = q \o (s \o e)
      <4>1. q \in Seq(Dlrs) /\ s \in Seq(Dlrs) /\ e \in Seq(Dlrs)
        BY <2>2, <3>1
      <4> HIDE DEF j
      <4> QED BY ONLY <4>1, ConcatAssociative, SMTT(30)
    <3> QED BY <3>1, <3>2
  <2> HIDE DEF s, j
  <2>5. after[n - 1] = Newest(j, Cap)
    BY <1>11 DEF j, s
  <2>6. Newest(j, Cap) \in Seq(Dlrs) /\ Len(Newest(j, Cap)) <= Cap
    <3>1. /\ Newest(j, Cap) \in Seq(Dlrs)
          /\ Len(Newest(j, Cap)) = IF Len(j) > Cap THEN Cap ELSE Len(j)
      BY <1>1, <2>3, NewestQueue
    <3>2. Len(j) \in Nat
      BY <2>3
    <3> QED BY <1>1, <3>1, <3>2
  <2>7. Enqueued(Newest(j, Cap), ds[n]) = Newest(Append(Newest(j, Cap), ds[n]), Cap)
    BY <2>1, <2>6, EnqueuedOne
  <2>8. Newest(Append(Newest(j, Cap), ds[n]), Cap) = Newest(Append(j, ds[n]), Cap)
    BY <1>1, <2>1, <2>3, NewestAgain
  <2>9. after[n] = Newest(Append(j, ds[n]), Cap)
    BY <1>9, <2>1, <2>5, <2>7, <2>8
  <2> QED BY <2>2, <2>4, <2>9
<1> DEFINE A == {n \in 0 .. Len(ds) : ~Right(n)}
<1> HIDE DEF Right
<1>12. A = {}
  <2> SUFFICES ASSUME A # {} PROVE FALSE
    OBVIOUS
  <2>1. A \in SUBSET Nat
    BY <1>1
  <2>2. PICK n \in A : \A k \in A : n <= k
    BY <2>1, LeastNumber
  <2>3. n \in 1 .. Len(ds) /\ n - 1 \in 0 .. Len(ds) /\ ~(n <= n - 1)
    BY <1>1, <1>10, <2>2
  <2>4. Right(n - 1)
    BY <2>2, <2>3
  <2> QED BY <1>11, <2>2, <2>3, <2>4
<1>13. after[Len(ds)] = Newest(q \o SubSeq(ds, 1, Len(ds)), Cap)
  BY <1>1, <1>12 DEF Right
<1>14. SubSeq(ds, 1, Len(ds)) = ds
  OBVIOUS
<1> QED BY <1>8, <1>13, <1>14

\* What the loop leaves: nothing new but ds, in its order; all of it unless the queue
\* is full.
LEMMA EnqueuedQueue ==
    ASSUME NEW q \in Seq(Dlrs), Len(q) <= Cap, NEW ds \in Seq(Dlrs)
    PROVE  /\ EnqueuedAll(q, ds) \in Seq(Dlrs)
           /\ Len(EnqueuedAll(q, ds)) <= Cap
           /\ Range(EnqueuedAll(q, ds)) \subseteq Range(q) \cup Range(ds)
           /\ Ordered(EnqueuedAll(q, ds), q \o ds)
           /\ Len(EnqueuedAll(q, ds)) < Cap => EnqueuedAll(q, ds) = q \o ds
<1> DEFINE j == q \o ds
<1>1. /\ j \in Seq(Dlrs) /\ Range(j) = Range(q) \cup Range(ds)
      /\ Cap \in Nat \ {0}
  BY ConcatQueue, StoreAssumption
<1>2. EnqueuedAll(q, ds) = Newest(j, Cap)
  BY EnqueuedMany
<1> HIDE DEF j
<1>3. /\ Newest(j, Cap) \in Seq(Dlrs)
      /\ Len(Newest(j, Cap)) = IF Len(j) > Cap THEN Cap ELSE Len(j)
      /\ Range(Newest(j, Cap)) \subseteq Range(j)
      /\ Ordered(Newest(j, Cap), j)
  BY <1>1, NewestQueue
<1>4. Len(j) \in Nat
  BY <1>1
<1>5. Len(Newest(j, Cap)) <= Cap /\ (Len(Newest(j, Cap)) < Cap => ~(Len(j) > Cap))
  BY <1>1, <1>3, <1>4
<1>6. Len(Newest(j, Cap)) < Cap => Newest(j, Cap) = j
  BY <1>5 DEF Newest
<1> QED BY <1>1, <1>2, <1>3, <1>5, <1>6 DEF j

-----------------------------------------------------------------------------
(* The statements in flight *)

\* A statement is in flight after a query is issued, or was before.
LEMMA Issued ==
    ASSUME NEW B, NEW C, NEW w
    PROVE  BagIn(w, B (+) C) <=> BagIn(w, B) \/ BagIn(w, C)
  BY DEF BagIn, BagToSet, (+)

\* The statements of a set, one of each
LEMMA OneEach ==
    ASSUME NEW S, NEW w
    PROVE  /\ BagIn(w, SetToBag(S)) <=> w \in S
           /\ IsABag(SetToBag(S))
  BY DEF BagIn, BagToSet, SetToBag, IsABag

\* Two bags together are one.
LEMMA BagsJoin ==
    ASSUME NEW B, NEW C, IsABag(B), IsABag(C)
    PROVE  IsABag(B (+) C)
<1>1. \A e \in DOMAIN B : B[e] \in {n \in Nat : n > 0}
  BY DEF IsABag
<1>2. \A e \in DOMAIN C : C[e] \in {n \in Nat : n > 0}
  BY DEF IsABag
<1> DEFINE n(e) == (IF e \in DOMAIN B THEN B[e] ELSE 0) + (IF e \in DOMAIN C THEN C[e] ELSE 0)
<1>3. \A e \in DOMAIN B \cup DOMAIN C : n(e) \in Nat /\ n(e) > 0
  BY <1>1, <1>2
<1>4. B (+) C = [e \in DOMAIN B \cup DOMAIN C |-> n(e)]
  BY DEF (+)
<1> HIDE DEF n
<1>5. DOMAIN (B (+) C) = DOMAIN B \cup DOMAIN C
  BY <1>4
<1> QED BY <1>3, <1>4, <1>5 DEF IsABag

\* One that executed, or failed, leaves the others in flight.
LEMMA SettledOne ==
    ASSUME NEW B, IsABag(B), NEW v
    PROVE  /\ IsABag(B (-) SetToBag({v}))
           /\ \A w : BagIn(w, B (-) SetToBag({v})) => BagIn(w, B)
           /\ \A w : BagIn(w, B) /\ w # v => BagIn(w, B (-) SetToBag({v}))
<1> DEFINE C == SetToBag({v})
<1> DEFINE L == [e \in DOMAIN B |-> IF e \in DOMAIN C THEN B[e] - C[e] ELSE B[e]]
<1>1. DOMAIN C = {v} /\ C[v] = 1
  BY DEF SetToBag
<1>2. B (-) C = [e \in {d \in DOMAIN L : L[d] > 0} |-> L[e]]
  BY DEF (-)
<1>3. \A e \in DOMAIN B : B[e] \in Nat /\ B[e] > 0
  BY DEF IsABag
<1> HIDE DEF C
<1>4. DOMAIN L = DOMAIN B
  OBVIOUS
<1>5. \A e \in DOMAIN B : L[e] \in Int /\ (e # v => L[e] = B[e])
  BY <1>1, <1>3
<1> HIDE DEF L
<1>6. DOMAIN (B (-) C) = {d \in DOMAIN B : L[d] > 0}
  BY <1>2, <1>4
<1>7. \A e \in DOMAIN (B (-) C) : (B (-) C)[e] \in {n \in Nat : n > 0}
  BY <1>2, <1>4, <1>5, <1>6
<1>8. IsABag(B (-) C)
  <2>1. B (-) C = [e \in DOMAIN (B (-) C) |-> (B (-) C)[e]]
    BY <1>2, <1>6, <1>4
  <2> QED BY <1>7, <2>1 DEF IsABag
<1>9. \A w : BagIn(w, B (-) C) => BagIn(w, B)
  BY <1>6 DEF BagIn, BagToSet
<1>10. \A w : BagIn(w, B) /\ w # v => BagIn(w, B (-) C)
  BY <1>3, <1>5, <1>6 DEF BagIn, BagToSet
<1> QED BY <1>8, <1>9, <1>10 DEF C

\* An INSERT is told by its receipt and by whether it trims, and is no other statement.
LEMMA StatementsDiffer ==
    /\ \A d, e, a, b : InsertOf(d, a) = InsertOf(e, b) => d = e /\ a = b
    /\ \A d, b, S : InsertOf(d, b) # DeleteOf(S) /\ InsertOf(d, b) # TrimWrite
    /\ \A S, T : DeleteOf(S) = DeleteOf(T) => S = T
    /\ \A S : DeleteOf(S) # TrimWrite
<1>1. ASSUME NEW d, NEW e, NEW a, NEW b, InsertOf(d, a) = InsertOf(e, b) PROVE d = e /\ a = b
  <2>1. InsertOf(d, a).dlrs = {d} /\ InsertOf(e, b).dlrs = {e}
    BY DEF InsertOf
  <2>2. InsertOf(d, a).trims = a /\ InsertOf(e, b).trims = b
    BY DEF InsertOf
  <2> QED BY <1>1, <2>1, <2>2
<1>2. /\ \A d, b : InsertOf(d, b).op = "insert"
      /\ \A S : DeleteOf(S).op = "delete" /\ DeleteOf(S).dlrs = S
      /\ TrimWrite.op = "trim"
  BY DEF InsertOf, DeleteOf, TrimWrite
<1>3. "insert" # "delete" /\ "insert" # "trim" /\ "delete" # "trim"
  OBVIOUS
<1>4. \A S, T : DeleteOf(S) = DeleteOf(T) => S = T
  BY <1>2
<1>5. \A S : DeleteOf(S) # TrimWrite
  BY <1>2, <1>3
<1>6. \A d, b, S : InsertOf(d, b) # DeleteOf(S) /\ InsertOf(d, b) # TrimWrite
  BY <1>2, <1>3
<1> QED BY <1>1, <1>4, <1>5, <1>6

\* A flush issues one DELETE for all it claims and INSERTs for what it puts back.
LEMMA FlushIssues ==
    ASSUME NEW q \in Seq(Dlrs), NEW unsent \in SUBSET Range(q)
    PROVE  /\ IsABag(FlushWrites(q, unsent))
           /\ \A w : BagIn(w, FlushWrites(q, unsent)) <=>
                        w = DeleteOf(Range(q)) \/ w \in {InsertOf(d, FALSE) : d \in unsent}
<1> DEFINE I == {InsertOf(d, FALSE) : d \in unsent}
<1> DEFINE n(w) == Copies(q, CHOOSE d \in w.dlrs : TRUE)
<1> DEFINE C == [w \in I |-> n(w)]
<1>1. FlushWrites(q, unsent) = SetToBag({DeleteOf(Range(q))}) (+) C
  BY DEF FlushWrites
<1>2. ASSUME NEW w \in I PROVE n(w) \in Nat /\ n(w) > 0
  <2>1. PICK d \in unsent : w = InsertOf(d, FALSE)
    OBVIOUS
  <2>2. (CHOOSE e \in w.dlrs : TRUE) = d
    <3>1. w.dlrs = {d}
      BY <2>1 DEF InsertOf
    <3> QED BY <3>1
  <2> DEFINE P == {i \in DOMAIN q : q[i] = d}
  <2>3. n(w) = Cardinality(P)
    BY <2>2 DEF Copies
  <2>4. P # {}
    BY DEF Range
  <2>5. IsFiniteSet(P)
    <3>1. DOMAIN q = 1 .. Len(q) /\ Len(q) \in Nat
      OBVIOUS
    <3>2. IsFiniteSet(1 .. Len(q))
      BY <3>1, FS_Interval
    <3> QED BY <3>1, <3>2, FS_Subset
  <2> HIDE DEF P, n
  <2>6. Cardinality(P) \in Nat /\ Cardinality(P) # 0
    BY <2>4, <2>5, FS_CardinalityType, FS_EmptySet
  <2> QED BY <2>3, <2>6
<1> HIDE DEF n, I
<1>3. IsABag(C)
  <2>1. DOMAIN C = I
    OBVIOUS
  <2>2. C \in [I -> {k \in Nat : k > 0}]
    BY <1>2
  <2> HIDE DEF C
  <2> QED BY <2>1, <2>2 DEF IsABag
<1>4. \A w : BagIn(w, C) <=> w \in I
  BY DEF BagIn, BagToSet
<1> HIDE DEF C
<1>5. IsABag(FlushWrites(q, unsent))
  BY <1>1, <1>3, OneEach, BagsJoin
<1>6. \A w : BagIn(w, FlushWrites(q, unsent)) <=> w = DeleteOf(Range(q)) \/ w \in I
  <2>1. \A w : BagIn(w, SetToBag({DeleteOf(Range(q))})) <=> w = DeleteOf(Range(q))
    BY OneEach
  <2> QED BY <1>1, <1>4, <2>1, Issued
<1> QED BY <1>5, <1>6 DEF I

-----------------------------------------------------------------------------
(* Types: the queue never outgrows MAX_DLR_QUEUE_PER_CLIENT *)

LoadPhases == {"due", "read", "done", "failed"}

StoreTypes ==
    /\ arrived \in Seq(Dlrs) /\ queue \in Seq(Dlrs) /\ Len(queue) <= Cap
    /\ table \in Seq(Dlrs) /\ sent \in Seq(Dlrs)
    /\ load \in [pc : LoadPhases, rows : Seq(Dlrs)]
    /\ old \in SUBSET Dlrs /\ delayed \in SUBSET Dlrs
    /\ IsABag(writes)
    /\ cleaning \in BOOLEAN
    /\ restarts \in Nat /\ faults \in Nat /\ refused \in Nat

\* A receipt that arrives, or several that a loop enqueues (requeueDlrsPersist,
\* recoverMissedDlrs)
LEMMA EnqueueTyped ==
    ASSUME StoreTypes, NEW ds \in Seq(Dlrs), EnqueueEach(ds)
    PROVE  /\ StoreTypes'
           /\ \A w : InFlight(w)' <=> \/ InFlight(w)
                                      \/ \E i \in DOMAIN ds : w = InsertOf(ds[i], Len(queue) + i > Cap)
<1> DEFINE I == {InsertOf(ds[i], Len(queue) + i > Cap) : i \in DOMAIN ds}
<1>1. /\ arrived' = arrived \o Without(ds, Range(arrived))
      /\ queue' = EnqueuedAll(queue, ds)
      /\ writes' = writes (+) SetToBag(I)
      /\ UNCHANGED <<old, table, load, cleaning, sent, delayed, restarts, faults, refused>>
  BY DEF EnqueueEach, boundVars
<1> HIDE DEF I
<1>2. arrived' \in Seq(Dlrs)
  <2>1. Without(ds, Range(arrived)) \in Seq(Dlrs)
    BY WithoutQueue
  <2> QED BY <1>1, <2>1 DEF StoreTypes
<1>3. queue' \in Seq(Dlrs) /\ Len(queue') <= Cap
  BY <1>1, EnqueuedQueue DEF StoreTypes
<1>4. IsABag(writes')
  BY <1>1, OneEach, BagsJoin DEF StoreTypes
<1>5. \A w : InFlight(w)' <=> InFlight(w) \/ w \in I
  BY <1>1, OneEach, Issued DEF InFlight
<1>6. StoreTypes'
  BY <1>1, <1>2, <1>3, <1>4 DEF StoreTypes
<1> QED BY <1>5, <1>6 DEF I

\* A flush: what it hands over and what it puts back
LEMMA FlushTyped ==
    ASSUME StoreTypes, NEW unsent \in SUBSET Range(queue), Flush(unsent)
    PROVE  /\ StoreTypes'
           /\ queue' = Kept(queue, unsent)
           /\ \A w : InFlight(w)' <=> \/ InFlight(w) \/ w = DeleteOf(Range(queue))
                                      \/ \E d \in unsent : w = InsertOf(d, FALSE)
<1>1. /\ sent' = sent \o Without(queue, unsent)
      /\ delayed' = delayed \cup unsent
      /\ queue' = Requeued(<<>>, Kept(queue, unsent))
      /\ writes' = writes (+) FlushWrites(queue, unsent)
      /\ refused' = IF unsent # {} THEN refused + 1 ELSE refused
      /\ UNCHANGED <<arrived, old, table, load, cleaning, restarts, faults>>
  BY DEF Flush
<1>2. Kept(queue, unsent) \in Seq(Dlrs) /\ Len(Kept(queue, unsent)) <= Len(queue)
  BY KeptQueue DEF StoreTypes
<1>3. queue' = Kept(queue, unsent)
  BY <1>1, <1>2, ConcatEmptySeq DEF Requeued
<1>4. sent' \in Seq(Dlrs)
  <2>1. Without(queue, unsent) \in Seq(Dlrs)
    BY WithoutQueue DEF StoreTypes
  <2> QED BY <1>1, <2>1 DEF StoreTypes
<1>5. Range(queue) \subseteq Dlrs
  BY DEF StoreTypes, Range
<1>6. /\ IsABag(FlushWrites(queue, unsent))
      /\ \A w : BagIn(w, FlushWrites(queue, unsent)) <=>
                   w = DeleteOf(Range(queue)) \/ w \in {InsertOf(d, FALSE) : d \in unsent}
  BY FlushIssues DEF StoreTypes
<1>7. IsABag(writes')
  BY <1>1, <1>6, BagsJoin DEF StoreTypes
<1>8. \A w : InFlight(w)' <=> \/ InFlight(w) \/ w = DeleteOf(Range(queue))
                              \/ \E d \in unsent : w = InsertOf(d, FALSE)
  <2> DEFINE F == FlushWrites(queue, unsent)
  <2>1. \A w : BagIn(w, writes') <=> BagIn(w, writes) \/ BagIn(w, F)
    BY <1>1, Issued
  <2>2. \A w : BagIn(w, F) <=> w = DeleteOf(Range(queue)) \/ \E d \in unsent : w = InsertOf(d, FALSE)
    BY <1>6
  <2> HIDE DEF F
  <2> QED BY <2>1, <2>2 DEF InFlight
<1>9. Len(queue') <= Cap /\ queue' \in Seq(Dlrs)
  <2>1. Len(queue) \in Nat /\ Len(Kept(queue, unsent)) \in Nat /\ Cap \in Nat
    BY <1>2, StoreAssumption DEF StoreTypes
  <2> QED BY <1>2, <1>3, <2>1 DEF StoreTypes
<1>10. refused' \in Nat
  BY <1>1 DEF StoreTypes
<1>11. StoreTypes'
  BY <1>1, <1>4, <1>5, <1>7, <1>9, <1>10 DEF StoreTypes
<1> QED BY <1>3, <1>8, <1>11

\* A statement w executes or fails: the others stay in flight, and an INSERT that
\* trims is followed by the trim.
Settles(w) ==
    /\ \A v : InFlight(v) /\ v # w => InFlight(v)'
    /\ \A v : InFlight(v)' => InFlight(v) \/ (v = TrimWrite /\ \E d : w = InsertOf(d, TRUE))

\* No INSERT is issued by a statement that executes.
LEMMA SettlesNoInsert ==
    ASSUME NEW w, Settles(w), NEW d, NEW b, InFlight(InsertOf(d, b))'
    PROVE  InFlight(InsertOf(d, b))
<1>1. InsertOf(d, b) # TrimWrite
  BY StatementsDiffer
<1> QED BY <1>1 DEF Settles

\* The statements of dlr-queue-persist.ts, one by one
LEMMA InsertTyped ==
    ASSUME StoreTypes, NEW d \in Dlrs, NEW trims \in BOOLEAN, ExecInsert(d, trims)
    PROVE  StoreTypes' /\ Settles(InsertOf(d, trims)) /\ Range(table') = Range(table) \cup {d}
<1> DEFINE w == InsertOf(d, trims)
<1>1. /\ table' = Append(table, d)
      /\ writes' = IF trims THEN Settled(w) (+) SetToBag({TrimWrite}) ELSE Settled(w)
      /\ UNCHANGED <<arrived, old, queue, load, cleaning, sent, delayed, restarts, faults, refused>>
  BY DEF ExecInsert, boundVars
<1>2. table' \in Seq(Dlrs) /\ Range(table') = Range(table) \cup {d}
  BY <1>1, AppendQueue DEF StoreTypes
<1> HIDE DEF w
<1>3. /\ IsABag(Settled(w))
      /\ \A v : BagIn(v, Settled(w)) => BagIn(v, writes)
      /\ \A v : BagIn(v, writes) /\ v # w => BagIn(v, Settled(w))
  BY SettledOne DEF StoreTypes, Settled
<1>4. IsABag(writes')
  BY <1>1, <1>3, OneEach, BagsJoin
<1>5. Settles(w)
  <2>1. CASE ~trims
    BY <1>1, <1>3, <2>1 DEF Settles, InFlight
  <2>2. CASE trims
    <3>1. \A v : BagIn(v, writes') <=> BagIn(v, Settled(w)) \/ v = TrimWrite
      BY <1>1, <2>2, OneEach, Issued
    <3>2. trims = TRUE
      BY <2>2
    <3>3. \E e : w = InsertOf(e, TRUE)
      BY <3>2 DEF w
    <3> QED BY <1>3, <3>1, <3>3 DEF Settles, InFlight
  <2> QED BY <2>1, <2>2
<1>6. StoreTypes'
  BY <1>1, <1>2, <1>4 DEF StoreTypes
<1> QED BY <1>2, <1>5, <1>6 DEF w

\* A statement that leaves no other behind
LEMMA SettlesAlone ==
    ASSUME StoreTypes, NEW w, writes' = Settled(w)
    PROVE  IsABag(writes') /\ Settles(w) /\ \A v : InFlight(v)' => InFlight(v)
<1>1. /\ IsABag(Settled(w))
      /\ \A v : BagIn(v, Settled(w)) => BagIn(v, writes)
      /\ \A v : BagIn(v, writes) /\ v # w => BagIn(v, Settled(w))
  BY SettledOne DEF StoreTypes, Settled
<1> QED BY <1>1 DEF Settles, InFlight

\* A trim (persistToDb behind a full queue) only ends its own statement and only takes rows.
LEMMA TrimTyped ==
    ASSUME StoreTypes, ExecTrim
    PROVE  StoreTypes' /\ Settles(TrimWrite) /\ Range(table') \subseteq Range(table)
<1>1. /\ table' = Newest(table, Cap)
      /\ writes' = Settled(TrimWrite)
      /\ UNCHANGED <<arrived, old, queue, load, cleaning, sent, delayed, restarts, faults, refused>>
  BY DEF ExecTrim, boundVars
<1>2. table' \in Seq(Dlrs) /\ Range(table') \subseteq Range(table)
  BY <1>1, NewestQueue, StoreAssumption DEF StoreTypes
<1>3. IsABag(writes') /\ Settles(TrimWrite)
  BY <1>1, SettlesAlone
<1> QED BY <1>1, <1>2, <1>3 DEF StoreTypes

\* A DELETE (deleteFromDb) ends its own statement and takes the rows of its messages.
LEMMA DeleteTyped ==
    ASSUME StoreTypes, NEW S, ExecDelete(S)
    PROVE  StoreTypes' /\ Settles(DeleteOf(S)) /\ Range(table') = Range(table) \ S
<1>1. /\ table' = Without(table, S)
      /\ writes' = Settled(DeleteOf(S))
      /\ UNCHANGED <<arrived, old, queue, load, cleaning, sent, delayed, restarts, faults, refused>>
  BY DEF ExecDelete, Deleted, boundVars
<1>2. table' \in Seq(Dlrs) /\ Range(table') = Range(table) \ S
  BY <1>1, WithoutQueue DEF StoreTypes
<1>3. IsABag(writes') /\ Settles(DeleteOf(S))
  BY <1>1, SettlesAlone
<1> QED BY <1>1, <1>2, <1>3 DEF StoreTypes

\* A failing statement ends without effect, and starts no other.
LEMMA FaultTyped ==
    ASSUME StoreTypes, NEW w, WriteFault(w)
    PROVE  StoreTypes' /\ Settles(w) /\ \A v : InFlight(v)' => InFlight(v)
<1>1. /\ writes' = Settled(w) /\ faults' = faults + 1
      /\ UNCHANGED <<arrived, old, queue, table, load, cleaning, sent, delayed, restarts, refused>>
  BY DEF WriteFault
<1>2. IsABag(writes') /\ Settles(w) /\ \A v : InFlight(v)' => InFlight(v)
  BY <1>1, SettlesAlone
<1>3. faults' \in Nat
  BY <1>1 DEF StoreTypes
<1> QED BY <1>1, <1>2, <1>3 DEF StoreTypes

\* The load of a start (loadAllDlrsFromDb)
LEMMA LoadTyped ==
    ASSUME StoreTypes, LoadRead \/ LoadApply \/ LoadFault
    PROVE  StoreTypes'
<1>1. /\ load.rows \in Seq(Dlrs) /\ load.pc \in LoadPhases
      /\ <<>> \in Seq(Dlrs)
  BY DEF StoreTypes
<1>2. CASE LoadRead
  <2>1. load' \in [pc : LoadPhases, rows : Seq(Dlrs)]
    BY <1>1, <1>2 DEF LoadRead, StoreTypes, LoadPhases
  <2> QED BY <1>2, <2>1 DEF LoadRead, StoreTypes, boundVars
<1>3. CASE LoadApply
  <2>1. load' \in [pc : LoadPhases, rows : Seq(Dlrs)]
    BY <1>1, <1>3 DEF LoadApply, LoadPhases
  <2>2. queue' \in Seq(Dlrs) /\ Len(queue') <= Cap
    BY <1>1, <1>3, EnqueuedQueue DEF LoadApply, Loaded, StoreTypes
  <2>3. delayed' \in SUBSET Dlrs
    BY <1>1, <1>3 DEF LoadApply, StoreTypes, Range
  <2> QED BY <1>3, <2>1, <2>2, <2>3 DEF LoadApply, StoreTypes, boundVars
<1>4. CASE LoadFault
  <2>1. load' \in [pc : LoadPhases, rows : Seq(Dlrs)] /\ faults' \in Nat
    BY <1>1, <1>4 DEF LoadFault, LoadPhases, StoreTypes
  <2> QED BY <1>4, <2>1 DEF LoadFault, StoreTypes
<1> QED BY <1>2, <1>3, <1>4

\* Time, the cleanup and a restart
LEMMA CleanupTyped ==
    ASSUME StoreTypes, CleanupMemory \/ CleanupDb \/ StoreRestart \/ \E d \in Dlrs : Age(d)
    PROVE  StoreTypes'
<1>1. CASE CleanupMemory
  <2> DEFINE S == StaleDlrs
  <2>1. queue' = Without(queue, S)
    BY <1>1 DEF CleanupMemory
  <2> HIDE DEF S
  <2>2. Without(queue, S) \in Seq(Dlrs) /\ Len(Without(queue, S)) <= Len(queue)
    BY WithoutQueue DEF StoreTypes
  <2>3. Len(queue') <= Cap
    <3>1. Len(queue) \in Nat /\ Len(Without(queue, S)) \in Nat /\ Cap \in Nat
      BY <2>2, StoreAssumption DEF StoreTypes
    <3> QED BY <2>1, <2>2, <3>1 DEF StoreTypes
  <2> QED BY <1>1, <2>1, <2>2, <2>3 DEF CleanupMemory, StoreTypes, boundVars
<1>2. CASE CleanupDb
  <2>1. table' \in Seq(Dlrs)
    BY <1>2, WithoutQueue DEF CleanupDb, StoreTypes
  <2> QED BY <1>2, <2>1 DEF CleanupDb, StoreTypes, boundVars
<1>3. CASE StoreRestart
  <2>1. load' \in [pc : LoadPhases, rows : Seq(Dlrs)] /\ restarts' \in Nat
    BY <1>3 DEF StoreRestart, StoreTypes, LoadPhases
  <2>2. IsABag(EmptyBag)
    BY OneEach DEF EmptyBag
  <2>3. <<>> \in Seq(Dlrs) /\ Len(<<>>) <= Cap
    BY StoreAssumption
  <2> QED BY <1>3, <2>1, <2>2, <2>3 DEF StoreRestart, StoreTypes
<1>4. CASE \E d \in Dlrs : Age(d)
  <2>1. old' \in SUBSET Dlrs
    BY <1>4 DEF Age, StoreTypes
  <2> QED BY <1>4, <2>1 DEF Age, StoreTypes, boundVars
<1> QED BY <1>1, <1>2, <1>3, <1>4

\* Any step of the store keeps the types.
LEMMA StoreStepTyped ==
    ASSUME StoreTypes, [StoreNext]_storeVars
    PROVE  StoreTypes'
<1>1. CASE \E d \in Dlrs : Enqueue(d)
  <2>1. PICK d \in Dlrs : EnqueueEach(<<d>>)
    BY <1>1 DEF Enqueue
  <2>2. <<d>> \in Seq(Dlrs)
    OBVIOUS
  <2> QED BY <2>1, <2>2, EnqueueTyped
<1>2. CASE \E unsent \in SUBSET Range(queue) : Flush(unsent)
  BY <1>2, FlushTyped
<1>3. CASE Exec
  BY <1>3, InsertTyped, TrimTyped, DeleteTyped DEF Exec
<1>4. CASE \E w \in Statement : WriteFault(w)
  BY <1>4, FaultTyped
<1>5. CASE LoadRead \/ LoadApply \/ LoadFault
  BY <1>5, LoadTyped
<1>6. CASE CleanupMemory \/ CleanupDb \/ StoreRestart \/ \E d \in Dlrs : Age(d)
  BY <1>6, CleanupTyped
<1>7. CASE UNCHANGED storeVars
  BY <1>7 DEF storeVars, boundVars, StoreTypes
<1> QED BY <1>1, <1>2, <1>3, <1>4, <1>5, <1>6, <1>7 DEF StoreNext

\* A process that starts over an empty table is well typed.
LEMMA StoreInitTyped == StoreInit => StoreTypes
<1> SUFFICES ASSUME StoreInit PROVE StoreTypes
  OBVIOUS
<1>1. <<>> \in Seq(Dlrs) /\ Len(<<>>) <= Cap
  BY StoreAssumption
<1>2. IsABag(EmptyBag)
  BY OneEach DEF EmptyBag
<1>3. load \in [pc : LoadPhases, rows : Seq(Dlrs)]
  BY <1>1 DEF StoreInit, LoadPhases
<1> QED BY <1>1, <1>2, <1>3 DEF StoreInit, StoreTypes

\* The queue of a disconnected client holds receipts, and never more than
\* MAX_DLR_QUEUE_PER_CLIENT of them (enqueueDlr's shift), however receipts, loads and
\* requeues alternate.
THEOREM StoreTyped == StoreSpec => []StoreTypes
<1>1. StoreTypes /\ [StoreNext]_storeVars => StoreTypes'
  BY StoreStepTyped
<1> QED BY <1>1, StoreInitTyped, PTL DEF StoreSpec

-----------------------------------------------------------------------------
(* Where receipts come from *)

\* Queue, table, what the load read, what was sent and what is in flight: receipts
\* that arrived
AllArrived ==
    /\ Range(queue) \cup Range(table) \cup Range(sent) \cup Range(load.rows)
          \subseteq Range(arrived)
    /\ \A d \in Dlrs, b \in BOOLEAN : InFlight(InsertOf(d, b)) => d \in Range(arrived)

\* A receipt has arrived when it is enqueued.
LEMMA EnqueueArrived ==
    ASSUME StoreTypes, AllArrived, NEW ds \in Seq(Dlrs), EnqueueEach(ds)
    PROVE  AllArrived' /\ Range(arrived') = Range(arrived) \cup Range(ds)
<1> DEFINE new == Without(ds, Range(arrived))
<1>1. /\ arrived' = arrived \o new
      /\ queue' = EnqueuedAll(queue, ds)
      /\ UNCHANGED <<table, load, sent>>
  BY DEF EnqueueEach
<1>2. new \in Seq(Dlrs) /\ Range(new) = Range(ds) \ Range(arrived)
  BY WithoutQueue
<1> HIDE DEF new
<1>3. Range(arrived') = Range(arrived) \cup Range(ds)
  <2>1. Range(arrived \o new) = Range(arrived) \cup Range(new)
    BY <1>2, ConcatQueue DEF StoreTypes
  <2> QED BY <1>1, <1>2, <2>1
<1>4. Range(queue') \subseteq Range(queue) \cup Range(ds)
  BY <1>1, EnqueuedQueue DEF StoreTypes
<1>5. ASSUME NEW d \in Dlrs, NEW b \in BOOLEAN, InFlight(InsertOf(d, b))'
      PROVE  d \in Range(arrived')
  <2>1. \/ InFlight(InsertOf(d, b))
        \/ \E i \in DOMAIN ds : InsertOf(d, b) = InsertOf(ds[i], Len(queue) + i > Cap)
    BY <1>5, EnqueueTyped
  <2>2. ASSUME NEW i \in DOMAIN ds, InsertOf(d, b) = InsertOf(ds[i], Len(queue) + i > Cap)
        PROVE  d \in Range(ds)
    BY <2>2, StatementsDiffer DEF Range
  <2> QED BY <1>3, <2>1, <2>2 DEF AllArrived
<1> QED BY <1>1, <1>3, <1>4, <1>5 DEF AllArrived

\* Nothing is queued, stored, loaded or sent that did not arrive.
LEMMA StoreStepArrived ==
    ASSUME StoreTypes, AllArrived, [StoreNext]_storeVars
    PROVE  AllArrived'
<1>1. CASE \E d \in Dlrs : Enqueue(d)
  <2>1. PICK d \in Dlrs : EnqueueEach(<<d>>)
    BY <1>1 DEF Enqueue
  <2>2. <<d>> \in Seq(Dlrs)
    OBVIOUS
  <2> QED BY <2>1, <2>2, EnqueueArrived
<1>2. CASE \E unsent \in SUBSET Range(queue) : Flush(unsent)
  <2>1. PICK unsent \in SUBSET Range(queue) : Flush(unsent)
    BY <1>2
  <2>2. /\ Without(queue, unsent) \in Seq(Dlrs)
        /\ Range(Without(queue, unsent)) \subseteq Range(queue)
        /\ Range(Kept(queue, unsent)) \subseteq Range(queue)
    BY WithoutQueue, KeptQueue DEF StoreTypes
  <2>3. Range(sent') = Range(sent) \cup Range(Without(queue, unsent))
    BY <2>1, <2>2, ConcatQueue DEF Flush, StoreTypes
  <2>4. queue' = Kept(queue, unsent) /\ UNCHANGED <<arrived, table, load>>
    BY <2>1, FlushTyped DEF Flush
  <2>5. \A d \in Dlrs, b \in BOOLEAN : InFlight(InsertOf(d, b))' =>
            InFlight(InsertOf(d, b)) \/ d \in Range(queue)
    <3>1. \A w : InFlight(w)' <=> \/ InFlight(w) \/ w = DeleteOf(Range(queue))
                                  \/ \E d \in unsent : w = InsertOf(d, FALSE)
      BY <2>1, FlushTyped
    <3>2. \A d \in Dlrs, b \in BOOLEAN :
            /\ InsertOf(d, b) # DeleteOf(Range(queue))
            /\ \A e \in unsent : InsertOf(d, b) = InsertOf(e, FALSE) => d = e
      BY StatementsDiffer, ZenonT(40)
    <3> QED BY <3>1, <3>2
  <2> QED BY <2>2, <2>3, <2>4, <2>5 DEF AllArrived
<1>3. CASE Exec
  <2>1. ASSUME NEW d \in Dlrs, NEW trims \in BOOLEAN, ExecInsert(d, trims) PROVE AllArrived'
    <3>1. /\ Range(table') = Range(table) \cup {d} /\ d \in Range(arrived)
          /\ UNCHANGED <<arrived, queue, load, sent>>
      BY <2>1, InsertTyped DEF ExecInsert, AllArrived
    <3>2. \A e \in Dlrs, b \in BOOLEAN : InFlight(InsertOf(e, b))' => InFlight(InsertOf(e, b))
      BY <2>1, InsertTyped, SettlesNoInsert
    <3> QED BY <3>1, <3>2 DEF AllArrived
  <2>2. ASSUME ExecTrim PROVE AllArrived'
    <3>1. Range(table') \subseteq Range(table) /\ UNCHANGED <<arrived, queue, load, sent>>
      BY <2>2, TrimTyped DEF ExecTrim
    <3>2. \A e \in Dlrs, b \in BOOLEAN : InFlight(InsertOf(e, b))' => InFlight(InsertOf(e, b))
      BY <2>2, TrimTyped, SettlesNoInsert
    <3> QED BY <3>1, <3>2 DEF AllArrived
  <2>3. ASSUME NEW S \in SUBSET Dlrs, ExecDelete(S) PROVE AllArrived'
    <3>1. Range(table') \subseteq Range(table) /\ UNCHANGED <<arrived, queue, load, sent>>
      BY <2>3, DeleteTyped DEF ExecDelete
    <3>2. \A e \in Dlrs, b \in BOOLEAN : InFlight(InsertOf(e, b))' => InFlight(InsertOf(e, b))
      BY <2>3, DeleteTyped, SettlesNoInsert
    <3> QED BY <3>1, <3>2 DEF AllArrived
  <2> QED BY <1>3, <2>1, <2>2, <2>3 DEF Exec
<1>4. CASE \E w \in Statement : WriteFault(w)
  <2>1. PICK w \in Statement : WriteFault(w)
    BY <1>4
  <2>2. \A v : InFlight(v)' => InFlight(v)
    BY <2>1, FaultTyped
  <2> QED BY <2>1, <2>2 DEF WriteFault, AllArrived
<1>5. CASE LoadRead
  BY <1>5 DEF LoadRead, AllArrived, InFlight
<1>6. CASE LoadApply
  <2>1. Range(queue') \subseteq Range(queue) \cup Range(load.rows)
    BY <1>6, EnqueuedQueue DEF LoadApply, Loaded, StoreTypes
  <2>2. Range(load'.rows) = {}
    BY <1>6 DEF LoadApply, Range
  <2> QED BY <1>6, <2>1, <2>2 DEF LoadApply, AllArrived, InFlight
<1>7. CASE LoadFault
  <2>1. Range(load'.rows) = {}
    BY <1>7 DEF LoadFault, Range
  <2> QED BY <1>7, <2>1 DEF LoadFault, AllArrived, InFlight
<1>8. CASE \E d \in Dlrs : Age(d)
  BY <1>8 DEF Age, AllArrived, InFlight
<1>9. CASE CleanupMemory
  <2>1. Range(queue') \subseteq Range(queue)
    BY <1>9, WithoutQueue DEF CleanupMemory, StoreTypes
  <2> QED BY <1>9, <2>1 DEF CleanupMemory, AllArrived, InFlight
<1>10. CASE CleanupDb
  <2>1. Range(table') \subseteq Range(table)
    BY <1>10, WithoutQueue DEF CleanupDb, StoreTypes
  <2> QED BY <1>10, <2>1 DEF CleanupDb, AllArrived, InFlight
<1>11. CASE StoreRestart
  <2>1. Range(queue') = {} /\ Range(load'.rows) = {} /\ UNCHANGED <<arrived, table, sent>>
    BY <1>11 DEF StoreRestart, Range
  <2>2. \A w : ~InFlight(w)'
    BY <1>11, OneEach DEF StoreRestart, EmptyBag, InFlight
  <2> QED BY <2>1, <2>2 DEF AllArrived
<1>12. CASE UNCHANGED storeVars
  BY <1>12 DEF storeVars, AllArrived, InFlight
<1> QED BY <1>1, <1>2, <1>3, <1>4, <1>5, <1>6, <1>7, <1>8, <1>9, <1>10, <1>11, <1>12
        DEF StoreNext

-----------------------------------------------------------------------------
(* Order: the receipts of a, in their order, against those of a queue      *)

Before(a, d, e) == \E i, j \in 1 .. Len(a) : i < j /\ a[i] = d /\ a[j] = e

\* In p, a receipt behind one that came later in a is in D.
Sorted(p, a, D) ==
    \A i, j \in 1 .. Len(p) : i < j /\ Before(a, p[j], p[i]) => p[j] \in D

\* So is one of r that came before one of p in a.
Follows(p, r, a, D) ==
    \A d \in Range(p), e \in Range(r) : Before(a, e, d) => e \in D

\* A part of a queue, in its order, is as sorted as the queue.
LEMMA SortedPart ==
    ASSUME NEW p, NEW q, NEW a, NEW D, Ordered(p, q), Sorted(q, a, D)
    PROVE  Sorted(p, a, D)
<1>1. ASSUME NEW k \in 1 .. Len(p), NEW l \in 1 .. Len(p), k < l, Before(a, p[l], p[k])
      PROVE  p[l] \in D
  <2>1. PICK i \in 1 .. Len(q), j \in 1 .. Len(q) : i < j /\ p[k] = q[i] /\ p[l] = q[j]
    BY <1>1 DEF Ordered
  <2> QED BY <1>1, <2>1 DEF Sorted
<1> QED BY <1>1 DEF Sorted

\* Two queues one behind the other are sorted if both are and the second follows the
\* first.
LEMMA SortedJoin ==
    ASSUME NEW S, NEW p \in Seq(S), NEW r \in Seq(S), NEW a, NEW D,
           Sorted(p, a, D), Sorted(r, a, D), Follows(p, r, a, D)
    PROVE  Sorted(p \o r, a, D)
<1>1. Len(p) \in Nat /\ Len(r) \in Nat /\ DOMAIN p = 1 .. Len(p) /\ DOMAIN r = 1 .. Len(r)
  OBVIOUS
<1>2. /\ Len(p \o r) = Len(p) + Len(r)
      /\ \A i \in 1 .. Len(p) : (p \o r)[i] = p[i]
      /\ \A i \in Len(p) + 1 .. Len(p) + Len(r) : (p \o r)[i] = r[i - Len(p)]
  OBVIOUS
<1> DEFINE j == p \o r
<1> HIDE DEF j
<1>3. ASSUME NEW k \in 1 .. Len(j), NEW l \in 1 .. Len(j), k < l, Before(a, j[l], j[k])
      PROVE  j[l] \in D
  <2>1. CASE l <= Len(p)
    <3>1. k \in 1 .. Len(p) /\ l \in 1 .. Len(p)
      BY <1>1, <1>2, <1>3, <2>1 DEF j
    <3>2. j[k] = p[k] /\ j[l] = p[l]
      BY <1>2, <3>1 DEF j
    <3> QED BY <1>3, <3>1, <3>2 DEF Sorted
  <2>2. CASE k > Len(p)
    <3>1. /\ k \in Len(p) + 1 .. Len(p) + Len(r) /\ l \in Len(p) + 1 .. Len(p) + Len(r)
          /\ k - Len(p) \in 1 .. Len(r) /\ l - Len(p) \in 1 .. Len(r)
          /\ k - Len(p) < l - Len(p)
      BY <1>1, <1>2, <1>3, <2>2 DEF j
    <3>2. j[k] = r[k - Len(p)] /\ j[l] = r[l - Len(p)]
      BY <1>2, <3>1 DEF j
    <3> QED BY <1>3, <3>1, <3>2 DEF Sorted
  <2>3. CASE k <= Len(p) /\ l > Len(p)
    <3>1. /\ k \in 1 .. Len(p) /\ l \in Len(p) + 1 .. Len(p) + Len(r)
          /\ l - Len(p) \in 1 .. Len(r)
      BY <1>1, <1>2, <1>3, <2>3 DEF j
    <3>2. j[k] = p[k] /\ j[l] = r[l - Len(p)]
      BY <1>2, <3>1 DEF j
    <3>3. p[k] \in Range(p) /\ r[l - Len(p)] \in Range(r)
      BY <1>1, <3>1 DEF Range
    <3> QED BY <1>3, <3>2, <3>3 DEF Follows
  <2>4. k \in Nat /\ l \in Nat
    BY <1>1, <1>2 DEF j
  <2> QED BY <1>1, <1>3, <2>1, <2>2, <2>3, <2>4
<1>4. Sorted(j, a, D)
  BY <1>3 DEF Sorted
<1> QED BY <1>4 DEF j

\* A receipt that has just arrived came before none, and changes nothing between the
\* others.
LEMMA BeforeGrows ==
    ASSUME NEW S, NEW a \in Seq(S), NEW d \in S, d \notin Range(a), Distinct(a), NEW x, NEW y,
           Before(Append(a, d), x, y)
    PROVE  x # d /\ (y # d => Before(a, x, y))
<1> DEFINE b == Append(a, d)
<1>1. /\ Len(a) \in Nat /\ DOMAIN a = 1 .. Len(a) /\ Len(b) = Len(a) + 1
      /\ b[Len(a) + 1] = d /\ \A i \in 1 .. Len(a) : b[i] = a[i]
  OBVIOUS
<1> HIDE DEF b
<1>2. PICK i \in 1 .. Len(b), j \in 1 .. Len(b) : i < j /\ b[i] = x /\ b[j] = y
  BY DEF Before, b
<1>3. i \in 1 .. Len(a) /\ b[i] = a[i]
  BY <1>1, <1>2
<1>4. x # d
  BY <1>1, <1>2, <1>3 DEF Range
<1>5. ASSUME y # d PROVE Before(a, x, y)
  <2>1. j \in 1 .. Len(a) /\ b[j] = a[j]
    BY <1>1, <1>2, <1>5
  <2> QED BY <1>2, <1>3, <2>1 DEF Before
<1> QED BY <1>4, <1>5

-----------------------------------------------------------------------------
(* Receipts are sent in the order of their arrival *)

\* What was sent and what waits are sorted, but for the receipts that were put back
\* after a refused send or read back from the table.
InOrder ==
    /\ Distinct(arrived)
    /\ Sorted(sent, arrived, delayed)
    /\ Sorted(queue, arrived, delayed)
    /\ Follows(sent, queue, arrived, delayed)

StoreInv == StoreTypes /\ AllArrived /\ InOrder

\* Only a receipt that is new is enqueued outside the flush and the load.
LEMMA EnqueueInOrder ==
    ASSUME StoreInv, NEW d \in Dlrs, Enqueue(d)
    PROVE  InOrder' /\ arrived' = Append(arrived, d)
<1> DEFINE ds == <<d>>
<1> DEFINE new == Without(ds, Range(arrived))
<1>1. d \notin Range(arrived) /\ EnqueueEach(ds)
  BY DEF Enqueue
<1>2. /\ ds \in Seq(Dlrs) /\ Range(ds) = {d} /\ Len(ds) = 1 /\ ds[1] = d
  BY OneQueue
<1>3. /\ arrived' = arrived \o new
      /\ queue' = EnqueuedAll(queue, ds)
      /\ UNCHANGED <<sent, delayed>>
  BY <1>1 DEF EnqueueEach
<1> HIDE DEF ds
<1>4. new = ds
  <2>1. new \in Seq(Dlrs) /\ Range(new) = {d} /\ Len(new) <= 1
    <3>1. /\ new \in Seq(Dlrs) /\ Range(new) = Range(ds) \ Range(arrived)
          /\ Len(new) <= Len(ds)
      BY <1>2, WithoutQueue, ZenonT(40)
    <3> HIDE DEF new
    <3> QED BY <1>1, <1>2, <3>1
  <2> HIDE DEF new
  <2>2. Len(new) = 1 /\ new[1] = d
    <3>1. DOMAIN new = 1 .. Len(new) /\ Len(new) \in Nat
      BY <2>1
    <3>2. PICK i \in DOMAIN new : new[i] = d
      BY <2>1 DEF Range
    <3> QED BY <2>1, <3>1, <3>2
  <2> QED BY <1>2, <2>1, <2>2, SeqEqual
<1>5. arrived \in Seq(Dlrs) /\ queue \in Seq(Dlrs) /\ Len(queue) <= Cap /\ sent \in Seq(Dlrs)
  BY DEF StoreInv, StoreTypes
<1>6. arrived' = Append(arrived, d)
  <2>1. Append(arrived, d) = arrived \o <<d>>
    BY <1>5, AppendIsConcat
  <2> QED BY <1>3, <1>4, <2>1 DEF ds
<1>7. Distinct(arrived')
  BY <1>1, <1>5, <1>6, AppendQueue DEF StoreInv, InOrder
<1>8. \A x, y : Before(arrived', x, y) => x # d /\ (y # d => Before(arrived, x, y))
  BY <1>1, <1>5, <1>6, BeforeGrows DEF StoreInv, InOrder
<1>9. Range(queue) \subseteq Range(arrived) /\ Range(sent) \subseteq Range(arrived)
  BY DEF StoreInv, AllArrived
<1>10. (\A i \in 1 .. Len(queue) : queue[i] \in Range(queue) /\ queue[i] # d)
       /\ \A i \in 1 .. Len(sent) : sent[i] \in Range(sent) /\ sent[i] # d
  <2>1. \A i \in 1 .. Len(queue) : queue[i] \in Range(queue)
    BY <1>5 DEF Range
  <2>2. \A i \in 1 .. Len(sent) : sent[i] \in Range(sent)
    BY <1>5 DEF Range
  <2> QED BY <1>1, <1>9, <2>1, <2>2
<1>11. Sorted(queue, arrived', delayed) /\ Sorted(sent, arrived', delayed)
  BY <1>8, <1>10 DEF StoreInv, InOrder, Sorted
<1>12. Sorted(ds, arrived', delayed)
  BY <1>2 DEF Sorted
<1>13. Follows(queue, ds, arrived', delayed) /\ Follows(sent, ds, arrived', delayed)
  BY <1>2, <1>8 DEF Follows
<1>14. Sorted(queue', arrived', delayed)
  <2>1. Sorted(queue \o ds, arrived', delayed)
    BY <1>2, <1>5, <1>11, <1>12, <1>13, SortedJoin
  <2>2. Ordered(queue', queue \o ds)
    BY <1>2, <1>3, <1>5, EnqueuedQueue
  <2> QED BY <2>1, <2>2, SortedPart
<1>15. Follows(sent, queue', arrived', delayed)
  <2>1. Range(queue') \subseteq Range(queue) \cup Range(ds)
    BY <1>2, <1>3, <1>5, EnqueuedQueue
  <2>2. Follows(sent, queue, arrived', delayed)
    BY <1>1, <1>8, <1>9 DEF StoreInv, InOrder, Follows
  <2> QED BY <1>13, <2>1, <2>2 DEF Follows
<1> QED BY <1>3, <1>6, <1>7, <1>11, <1>14, <1>15 DEF InOrder

\* A flush hands the queue over in its order, and what it puts back counts as delayed.
LEMMA FlushInOrder ==
    ASSUME StoreInv, NEW unsent \in SUBSET Range(queue), Flush(unsent)
    PROVE  InOrder'
<1> DEFINE out == Without(queue, unsent)
<1> DEFINE back == Kept(queue, unsent)
<1>1. arrived \in Seq(Dlrs) /\ queue \in Seq(Dlrs) /\ sent \in Seq(Dlrs)
  BY DEF StoreInv, StoreTypes
<1>2. /\ out \in Seq(Dlrs) /\ Range(out) = Range(queue) \ unsent /\ Ordered(out, queue)
  BY <1>1, WithoutQueue
<1>3. back \in Seq(Dlrs) /\ Range(back) = Range(queue) \cap unsent /\ Ordered(back, queue)
  BY <1>1, KeptQueue
<1>4. /\ sent' = sent \o out /\ queue' = back
      /\ delayed' = delayed \cup unsent /\ UNCHANGED arrived
  BY FlushTyped DEF Flush, StoreInv
<1> HIDE DEF out, back
<1>5. /\ Sorted(sent, arrived, delayed') /\ Sorted(queue, arrived, delayed')
      /\ Follows(sent, queue, arrived, delayed')
  BY <1>4 DEF StoreInv, InOrder, Sorted, Follows
<1>6. Sorted(out, arrived, delayed') /\ Sorted(back, arrived, delayed')
  BY <1>2, <1>3, <1>5, SortedPart
<1>7. Follows(sent, out, arrived, delayed')
  BY <1>2, <1>5 DEF Follows
<1>8. Sorted(sent \o out, arrived, delayed')
  BY <1>1, <1>2, <1>5, <1>6, <1>7, SortedJoin
<1>9. Follows(sent', back, arrived, delayed')
  BY <1>3, <1>4 DEF Follows
<1> QED BY <1>4, <1>6, <1>8, <1>9 DEF StoreInv, InOrder

\* What the load brings back counts as delayed too.
LEMMA LoadInOrder ==
    ASSUME StoreInv, LoadApply
    PROVE  InOrder'
<1>1. /\ arrived \in Seq(Dlrs) /\ queue \in Seq(Dlrs) /\ sent \in Seq(Dlrs)
      /\ load.rows \in Seq(Dlrs) /\ Len(queue) <= Cap
  BY DEF StoreInv, StoreTypes
<1>2. /\ queue' = EnqueuedAll(queue, load.rows)
      /\ delayed' = delayed \cup Range(load.rows) /\ UNCHANGED <<arrived, sent>>
  BY DEF LoadApply, Loaded
<1>3. /\ Sorted(sent, arrived, delayed') /\ Sorted(queue, arrived, delayed')
      /\ Follows(sent, queue, arrived, delayed')
  BY <1>2 DEF StoreInv, InOrder, Sorted, Follows
<1>4. \A p : Follows(p, load.rows, arrived, delayed')
  BY <1>2 DEF Follows
<1>5. Sorted(load.rows, arrived, delayed')
  <2>1. \A i \in 1 .. Len(load.rows) : load.rows[i] \in Range(load.rows)
    BY <1>1 DEF Range
  <2> QED BY <1>2, <2>1 DEF Sorted
<1>6. Sorted(queue \o load.rows, arrived, delayed')
  BY <1>1, <1>3, <1>4, <1>5, SortedJoin
<1>7. /\ Ordered(queue', queue \o load.rows)
      /\ Range(queue') \subseteq Range(queue) \cup Range(load.rows)
  BY <1>1, <1>2, EnqueuedQueue
<1>8. Sorted(queue', arrived, delayed')
  BY <1>6, <1>7, SortedPart
<1>9. Follows(sent, queue', arrived, delayed')
  BY <1>3, <1>4, <1>7 DEF Follows
<1> QED BY <1>2, <1>3, <1>8, <1>9 DEF StoreInv, InOrder

\* No step of the store brings a receipt before one that arrived earlier, unless that
\* one was put back or read back.
LEMMA StoreStepInv ==
    ASSUME StoreInv, [StoreNext]_storeVars
    PROVE  StoreInv'
<1>1. StoreTypes' /\ AllArrived'
  BY StoreStepTyped, StoreStepArrived DEF StoreInv
<1>2. ASSUME UNCHANGED <<arrived, queue, sent, delayed>> PROVE InOrder'
  BY <1>2 DEF StoreInv, InOrder
<1>3. CASE \E d \in Dlrs : Enqueue(d)
  BY <1>3, EnqueueInOrder, <1>1 DEF StoreInv
<1>4. CASE \E unsent \in SUBSET Range(queue) : Flush(unsent)
  BY <1>4, FlushInOrder, <1>1 DEF StoreInv
<1>5. CASE Exec
  BY <1>1, <1>2, <1>5 DEF Exec, ExecInsert, ExecTrim, ExecDelete, StoreInv
<1>6. CASE \E w \in Statement : WriteFault(w)
  BY <1>1, <1>2, <1>6 DEF WriteFault, StoreInv
<1>7. CASE LoadRead \/ LoadFault \/ CleanupDb \/ \E d \in Dlrs : Age(d)
  BY <1>1, <1>2, <1>7 DEF LoadRead, LoadFault, CleanupDb, Age, StoreInv
<1>8. CASE LoadApply
  BY <1>8, LoadInOrder, <1>1 DEF StoreInv
<1>9. ASSUME UNCHANGED <<arrived, sent, delayed>>, Ordered(queue', queue),
             Range(queue') \subseteq Range(queue)
      PROVE  InOrder'
  <2>1. Sorted(queue', arrived, delayed)
    BY <1>9, SortedPart DEF StoreInv, InOrder
  <2>2. Follows(sent, queue', arrived, delayed)
    BY <1>9 DEF StoreInv, InOrder, Follows
  <2> QED BY <1>9, <2>1, <2>2 DEF StoreInv, InOrder
<1>10. CASE CleanupMemory
  <2>1. Ordered(queue', queue) /\ Range(queue') \subseteq Range(queue)
    BY <1>10, WithoutQueue DEF CleanupMemory, StoreInv, StoreTypes
  <2> QED BY <1>1, <1>9, <1>10, <2>1 DEF CleanupMemory, StoreInv
<1>11. CASE StoreRestart
  <2>1. Ordered(queue', queue) /\ Range(queue') \subseteq Range(queue)
    BY <1>11 DEF StoreRestart, Ordered, Range
  <2> QED BY <1>1, <1>9, <1>11, <2>1 DEF StoreRestart, StoreInv
<1>12. CASE UNCHANGED storeVars
  BY <1>1, <1>2, <1>12 DEF storeVars, StoreInv
<1> QED BY <1>3, <1>4, <1>5, <1>6, <1>7, <1>8, <1>10, <1>11, <1>12 DEF StoreNext

\* Nothing has arrived at first, so everything known has arrived, in order.
LEMMA StoreInitInv == StoreInit => StoreInv
<1> SUFFICES ASSUME StoreInit PROVE StoreInv
  OBVIOUS
<1>1. StoreTypes
  BY StoreInitTyped
<1>2. Range(<<>>) = {} /\ Len(<<>>) = 0
  BY DEF Range
<1>3. AllArrived
  <2>1. \A w : ~InFlight(w)
    BY OneEach DEF StoreInit, EmptyBag, InFlight
  <2> QED BY <1>2, <2>1 DEF StoreInit, AllArrived
<1>4. InOrder
  BY <1>2 DEF StoreInit, InOrder, Sorted, Follows, Distinct
<1> QED BY <1>1, <1>3, <1>4 DEF StoreInv

\* In every reachable state the queue, the table and what is sent hold arrived receipts,
\* those that were never delayed in the order of their arrival.
LEMMA StoreInvHolds == StoreSpec => []StoreInv
  BY StoreInitInv, StoreStepInv, PTL DEF StoreSpec

\* The client gets its receipts in the order they arrived in, but for those whose send
\* threw or which a restart read back from the table: no interleaving of receipts,
\* flushes, cleanups and statements in flight reorders any other.
THEOREM SentInOrderHolds == StoreSpec => []SentInOrder
<1>1. StoreInv => SentInOrder
  BY DEF StoreInv, InOrder, Sorted, SentInOrder, ArrivedBefore, Before
<1> QED BY <1>1, StoreInvHolds, PTL

-----------------------------------------------------------------------------
(* To its client the queue is a Mailbox *)

\* What a full queue loses to the rows of a load are its oldest receipts.
LEMMA LoadRefills ==
    ASSUME NEW q \in Seq(Dlrs), Len(q) <= Cap, NEW rows \in Seq(Dlrs),
           NEW p, p = EnqueuedAll(q, rows)
    PROVE  \E lost \in 0 .. Len(q) :
              /\ IsPrefix(SubSeq(q, lost + 1, Len(q)), p)
              /\ lost > 0 => Len(p) = Cap
<1> DEFINE j == q \o rows
<1>1. /\ Len(q) \in Nat /\ Len(rows) \in Nat /\ Cap \in Nat \ {0}
      /\ \A k \in 1 .. Len(q) : q[k] \in Dlrs
  BY StoreAssumption
<1>2. /\ j \in Seq(Dlrs) /\ Len(j) = Len(q) + Len(rows)
      /\ \A k \in 1 .. Len(q) : j[k] = q[k]
  OBVIOUS
<1>3. p = Newest(j, Cap)
  BY EnqueuedMany
<1> HIDE DEF j
<1>4. /\ p \in Seq(Dlrs) /\ Len(p) = IF Len(j) > Cap THEN Cap ELSE Len(j)
      /\ \A k \in 1 .. Len(p) : p[k] = j[k + Len(j) - Len(p)]
  <2>1. /\ Newest(j, Cap) \in Seq(Dlrs)
        /\ Len(Newest(j, Cap)) = IF Len(j) > Cap THEN Cap ELSE Len(j)
        /\ \A k \in 1 .. Len(Newest(j, Cap)) :
              Newest(j, Cap)[k] = j[k + Len(j) - Len(Newest(j, Cap))]
    BY <1>1, <1>2, NewestQueue
  <2> QED BY <1>3, <2>1
<1> DEFINE cut == Len(j) - Len(p)
<1> DEFINE lost == IF cut > Len(q) THEN Len(q) ELSE cut
<1> DEFINE s == SubSeq(q, lost + 1, Len(q))
<1>5. /\ cut \in Nat /\ lost \in 0 .. Len(q) /\ lost \in Nat /\ lost <= cut
      /\ (lost > 0 => Len(p) = Cap) /\ Len(p) \in Nat
      /\ (cut <= Len(q) => lost = cut) /\ (cut > Len(q) => lost = Len(q))
  <2>1. Len(p) \in Nat /\ Len(j) \in Nat
    BY <1>2, <1>4
  <2>2. cut \in Nat /\ (cut > 0 => Len(p) = Cap)
    BY <1>1, <1>4, <2>1
  <2> HIDE DEF cut
  <2>3. lost \in Nat /\ lost <= Len(q) /\ lost <= cut
    BY <1>1, <2>2
  <2>4. (cut <= Len(q) => lost = cut) /\ (cut > Len(q) => lost = Len(q))
    BY <1>1, <2>2
  <2>5. lost > 0 => Len(p) = Cap
    BY <1>1, <2>2, <2>3
  <2> HIDE DEF lost
  <2> QED BY <1>1, <2>1, <2>2, <2>3, <2>4, <2>5
<1> HIDE DEF lost, cut
<1>6. /\ s \in Seq(Dlrs) /\ Len(s) = Len(q) - lost
      /\ \A k \in 1 .. Len(q) - lost : s[k] = q[k + lost]
  <2>1. \A k \in lost + 1 .. Len(q) : q[k] \in Dlrs
    BY <1>1, <1>5
  <2>2. /\ s \in Seq(Dlrs) /\ Len(s) = Len(q) + 1 - (lost + 1)
        /\ \A k \in 1 .. Len(q) + 1 - (lost + 1) : s[k] = q[lost + 1 + k - 1]
    BY <1>1, <1>5, <2>1, SubSeqProperties
  <2>3. /\ Len(q) + 1 - (lost + 1) = Len(q) - lost
        /\ \A k \in 1 .. Len(q) - lost : lost + 1 + k - 1 = k + lost
    BY <1>1, <1>5
  <2> QED BY <2>2, <2>3
<1> HIDE DEF s
<1>7. Len(s) <= Len(p)
  BY <1>1, <1>2, <1>4, <1>5, <1>6 DEF cut
<1>8. \A k \in 1 .. Len(s) : s[k] = p[k]
  <2>1. ASSUME NEW k \in 1 .. Len(s) PROVE s[k] = p[k]
    <3>1. lost = cut /\ k \in 1 .. Len(p) /\ k + lost \in 1 .. Len(q)
      BY <1>1, <1>5, <1>6, <1>7, <2>1
    <3>2. p[k] = j[k + cut]
      <4>1. k + Len(j) - Len(p) = k + cut
        BY <1>1, <1>2, <1>4, <1>5, <3>1 DEF cut
      <4> QED BY <1>4, <3>1, <4>1
    <3>3. j[k + cut] = q[k + lost]
      BY <1>2, <3>1
    <3>4. s[k] = q[k + lost]
      BY <1>6
    <3> QED BY <3>2, <3>3, <3>4
  <2> QED BY <2>1
<1>9. SubSeq(s, 1, Len(s)) = s
  BY <1>6
<1>10. SubSeq(p, 1, Len(s)) = s
  <2>1. Len(s) \in Nat /\ \A k \in 1 .. Len(s) : p[k] \in Dlrs
    BY <1>4, <1>5, <1>6, <1>7
  <2> DEFINE t == SubSeq(p, 1, Len(s))
  <2>2. t \in Seq(Dlrs) /\ Len(t) = Len(s) /\ \A k \in 1 .. Len(s) : t[k] = p[k]
    BY <2>1, SubSeqProperties
  <2> HIDE DEF t
  <2>3. t = s
    BY <1>6, <1>8, <2>2, SeqEqual
  <2> QED BY <2>3 DEF t
<1>11. IsPrefix(s, p)
  BY <1>7, <1>9, <1>10 DEF IsPrefix
<1> QED BY <1>5, <1>11 DEF s

\* The Mailbox names the same operators on queues.
LEMMA BoxQueues ==
    /\ \A q : Box!Range(q) = Range(q)
    /\ \A q, n : Box!Newest(q, n) = Newest(q, n)
    /\ \A q, S : Box!Kept(q, S) = Kept(q, S)
    /\ \A q, S : Box!Without(q, S) = Without(q, S)
    /\ \A s, q : Box!IsPrefix(s, q) <=> IsPrefix(s, q)
<1>1. \A q : Box!Range(q) = Range(q)
  BY DEF Range, Box!Range
<1>2. \A q, n : Box!Newest(q, n) = Newest(q, n)
  BY DEF Newest, Box!Newest
<1>3. \A q, S : Box!Kept(q, S) = Kept(q, S)
  BY DEF Kept, Box!Kept
<1>4. \A q, S : Box!Without(q, S) = Without(q, S)
  BY <1>1, <1>3 DEF Without, Box!Without
<1>5. \A s, q : Box!IsPrefix(s, q) <=> IsPrefix(s, q)
  BY DEF IsPrefix, Box!IsPrefix
<1> QED BY <1>1, <1>2, <1>3, <1>4, <1>5

\* Every step of the store is a step of the Mailbox, or none that the client can see.
LEMMA StoreStepIsMailbox ==
    ASSUME StoreInv, [StoreNext]_storeVars
    PROVE  [Box!Next]_(Box!vars)
<1>1. /\ arrived \in Seq(Dlrs) /\ queue \in Seq(Dlrs) /\ Len(queue) <= Cap
      /\ load.rows \in Seq(Dlrs)
  BY DEF StoreInv, StoreTypes
<1>2. ASSUME UNCHANGED old PROVE StaleDlrs' = StaleDlrs
  BY <1>2 DEF StaleDlrs, Stale
<1>3. ASSUME UNCHANGED <<arrived, queue, sent, old>>, MayLoad' = MayLoad PROVE UNCHANGED Box!vars
  BY <1>2, <1>3 DEF Box!vars
<1>4. ASSUME NEW d \in Dlrs, Enqueue(d) PROVE Box!Accept(d)
  <2>1. arrived' = Append(arrived, d) /\ d \notin Range(arrived) /\ queue' = EnqueuedAll(queue, <<d>>)
    BY <1>4, EnqueueInOrder DEF Enqueue, EnqueueEach
  <2>2. UNCHANGED <<old, sent, load>>
    BY <1>4 DEF Enqueue, EnqueueEach
  <2>3. queue' = Newest(Append(queue, d), Cap)
    <3>1. <<d>> \in Seq(Dlrs)
      OBVIOUS
    <3>2. queue' = Newest(queue \o <<d>>, Cap)
      BY <1>1, <2>1, <3>1, EnqueuedMany
    <3> QED BY <1>1, <3>2, AppendIsConcat
  <2>4. StaleDlrs' = StaleDlrs /\ MayLoad' = MayLoad
    BY <1>2, <2>2 DEF MayLoad
  <2> QED BY <2>1, <2>2, <2>3, <2>4, BoxQueues DEF Box!Accept
<1>5. ASSUME NEW unsent \in SUBSET Range(queue), Flush(unsent) PROVE Box!HandOver(unsent)
  <2>1. /\ queue # <<>> /\ sent' = sent \o Without(queue, unsent) /\ queue' = Kept(queue, unsent)
        /\ UNCHANGED <<arrived, old, load>>
    BY <1>5, FlushTyped DEF Flush, StoreInv
  <2>2. StaleDlrs' = StaleDlrs /\ MayLoad' = MayLoad
    BY <1>2, <2>1 DEF MayLoad
  <2> QED BY <2>1, <2>2, BoxQueues DEF Box!HandOver
<1>6. ASSUME CleanupMemory PROVE Box!GiveUp(StaleDlrs \cap Range(queue))
  <2>1. queue' = Without(queue, StaleDlrs) /\ UNCHANGED <<arrived, old, sent, load>>
    BY <1>6 DEF CleanupMemory
  <2>2. Range(queue) \ StaleDlrs = Range(queue) \ (StaleDlrs \cap Range(queue))
    OBVIOUS
  <2>3. queue' = Without(queue, StaleDlrs \cap Range(queue))
    <3> QED BY <2>1, <2>2 DEF Without
  <2> QED BY <1>2, <2>1, <2>3, BoxQueues DEF Box!GiveUp, MayLoad
<1>7. ASSUME LoadApply PROVE \E lost \in 0 .. Len(queue) : Box!Refill(lost)
  <2>1. /\ load.pc = "read" /\ queue' = EnqueuedAll(queue, load.rows) /\ load'.pc = "done"
        /\ UNCHANGED <<arrived, old, sent>>
    BY <1>7 DEF LoadApply, Loaded
  <2>2. PICK lost \in 0 .. Len(queue) :
              /\ IsPrefix(SubSeq(queue, lost + 1, Len(queue)), queue')
              /\ lost > 0 => Len(queue') = Cap
    BY <1>1, <2>1, LoadRefills
  <2>3. Len(queue') <= Cap /\ Range(queue') \subseteq Range(queue) \cup Range(load.rows)
    BY <1>1, <2>1, EnqueuedQueue
  <2>4. Range(queue') \subseteq Range(arrived)
    BY <2>3 DEF StoreInv, AllArrived
  <2> QED BY <1>2, <2>1, <2>2, <2>3, <2>4, BoxQueues DEF Box!Refill, MayLoad
<1>8. ASSUME LoadFault PROVE Box!Refill(0)
  <2>1. load.pc = "due" /\ load'.pc = "failed" /\ UNCHANGED <<arrived, old, sent, queue>>
    BY <1>8 DEF LoadFault
  <2>2. Box!IsPrefix(SubSeq(queue, 0 + 1, Len(queue)), queue')
    <3>1. SubSeq(queue, 0 + 1, Len(queue)) = queue
      BY <1>1
    <3>2. IsPrefix(queue, queue)
      BY <1>1 DEF IsPrefix
    <3> QED BY <2>1, <3>1, <3>2, BoxQueues
  <2>3. Box!Range(queue') \subseteq Box!Range(arrived)
    BY <2>1, BoxQueues DEF StoreInv, AllArrived
  <2>4. MayLoad = TRUE /\ MayLoad' = FALSE /\ StaleDlrs' = StaleDlrs
    BY <1>2, <2>1 DEF MayLoad
  <2>5. Len(queue') <= Cap /\ ~(0 > 0)
    BY <1>1, <2>1
  <2> QED BY <2>1, <2>2, <2>3, <2>4, <2>5 DEF Box!Refill
<1>9. ASSUME NEW d \in Dlrs, Age(d) PROVE Box!Expire
  <2>1. old \subseteq old' /\ UNCHANGED <<arrived, queue, sent, load>>
    BY <1>9 DEF Age
  <2>2. StaleDlrs \subseteq StaleDlrs' /\ StaleDlrs' \subseteq Dlrs
    BY <2>1 DEF StaleDlrs, Stale
  <2> QED BY <2>1, <2>2 DEF Box!Expire, MayLoad
<1>10. ASSUME StoreRestart PROVE Box!Crash
  <2>1. queue' = <<>> /\ load'.pc = "due" /\ UNCHANGED <<arrived, old, sent>>
    BY <1>10 DEF StoreRestart
  <2> QED BY <1>2, <2>1 DEF Box!Crash, MayLoad
<1>11. ASSUME Exec \/ (\E w \in Statement : WriteFault(w)) \/ LoadRead \/ CleanupDb
              \/ UNCHANGED storeVars
       PROVE  UNCHANGED Box!vars
  <2>1. UNCHANGED <<arrived, queue, sent, old>>
    BY <1>11 DEF Exec, ExecInsert, ExecTrim, ExecDelete, WriteFault, LoadRead, CleanupDb, storeVars
  <2>2. MayLoad' = MayLoad
    BY <1>11 DEF Exec, ExecInsert, ExecTrim, ExecDelete, WriteFault, LoadRead, CleanupDb, storeVars, MayLoad
  <2> QED BY <1>3, <2>1, <2>2
<1>12. 0 \in 0 .. Len(queue) /\ StaleDlrs \cap Range(queue) \in SUBSET Range(queue)
  BY <1>1
<1> QED BY <1>4, <1>5, <1>6, <1>7, <1>8, <1>9, <1>10, <1>11, <1>12, BoxQueues DEF StoreNext, Box!Next

\* To its client the receipt queue and its table are a Mailbox: a bounded queue in the
\* order of arrival that loses its oldest receipts when full, all of them in a crash,
\* and gets some back after it; whatever statements are in flight does not show.
THEOREM IsMailboxHolds == StoreSpec => IsMailbox
<1>1. StoreInit => Box!Init
  <2> SUFFICES ASSUME StoreInit PROVE Box!Init
    OBVIOUS
  <2>1. StaleDlrs \subseteq Dlrs
    BY DEF StaleDlrs
  <2> QED BY <2>1 DEF StoreInit, Box!Init, MayLoad
<1>2. StoreInv /\ [StoreNext]_storeVars => [Box!Next]_(Box!vars)
  BY StoreStepIsMailbox
<1> QED BY <1>1, <1>2, StoreInvHolds, PTL DEF StoreSpec, IsMailbox, Box!Spec

-----------------------------------------------------------------------------
(* The latest bind of a client is tracked *)

\* What the map and the latest bind can name: a session bound under that key
BindTypes ==
    /\ bind \in [Sessions -> {"new", "binding", "bound", "refused"}]
    /\ wire \in [Sessions -> {"open", "broken", "closed"}]
    /\ slot \in [Keys -> Sessions \cup {NoSession}]
    /\ lastBind \in [Keys -> Sessions \cup {NoSession}]
    /\ \A k \in Keys : lastBind[k] # NoSession => KeyOf[lastBind[k]] = k

\* The latest session of a key has begun its bind: it will not bind again.
LatestHasBound ==
    \A k \in Keys : lastBind[k] # NoSession => bind[lastBind[k]] # "new"

Tracks == BindTypes /\ LatestHasBound /\ LatestBindTracked

\* Every step keeps the latest session of a key in its place: the close of an older
\* session finds the key in other hands, and a restart leaves no session at all.
LEMMA StepTracks ==
    ASSUME Tracks, [Next]_vars
    PROVE  Tracks'
<1> USE DeliveryAssumption
<1>1. ASSUME NEW s \in Sessions, Bind(s) PROVE Tracks'
  BY <1>1 DEF Bind, TrackedAs, Tracks, BindTypes, LatestHasBound, LatestBindTracked
<1>2. ASSUME NEW s \in Sessions, Resolve(s) PROVE Tracks'
  BY <1>2 DEF Resolve, Tracks, BindTypes, LatestHasBound, LatestBindTracked
<1>3. ASSUME NEW s \in Sessions, BindFault(s) \/ Break(s) PROVE Tracks'
  BY <1>3 DEF BindFault, Break, Tracks, BindTypes, LatestHasBound, LatestBindTracked
<1>4. ASSUME NEW s \in Sessions, Close(s) PROVE Tracks'
  <2>1. CASE bind[s] = "bound" /\ slot[KeyOf[s]] = s
    BY <1>4, <2>1 DEF Close, Removes, Tracks, BindTypes, LatestHasBound,
                      LatestBindTracked
  <2>2. CASE ~(bind[s] = "bound" /\ slot[KeyOf[s]] = s)
    BY <1>4, <2>2 DEF Close, Removes, Tracks, BindTypes, LatestHasBound,
                      LatestBindTracked
  <2> QED BY <2>1, <2>2
<1>5. ASSUME Restart PROVE Tracks'
  BY <1>5 DEF Restart, Tracks, BindTypes, LatestHasBound, LatestBindTracked
<1>6. ASSUME UNCHANGED bindVars PROVE Tracks'
  BY <1>6 DEF bindVars, Tracks, BindTypes, LatestHasBound, LatestBindTracked
<1>7. CASE UNCHANGED vars
  BY <1>6, <1>7 DEF vars, bindVars
<1>8. CASE \E d \in Dlrs : UpdateRow(d) \/ Callback(d)
  BY <1>6, <1>8 DEF UpdateRow, Callback
<1>9. CASE \E f \in Flushes : FlushStep(f)
  BY <1>6, <1>9 DEF FlushStep, RecoverRead, RecoverEnqueue, RecoverFault, Push
<1>10. CASE StartupFlush \/ StoreStep
  BY <1>6, <1>10 DEF StartupFlush, StoreStep
<1> QED BY <1>1, <1>2, <1>3, <1>4, <1>5, <1>7, <1>8, <1>9, <1>10 DEF Next

\* The latest session bound under a key stays in activeSessions until its own close,
\* whatever the closes of older sessions, in whatever order they come.
THEOREM LatestBindTrackedHolds == Spec => []LatestBindTracked
<1>1. Init => Tracks
  BY DeliveryAssumption DEF Init, Tracks, BindTypes, LatestHasBound, LatestBindTracked
<1>2. Tracks /\ [Next]_vars => Tracks'
  BY StepTracks
<1>3. Tracks => LatestBindTracked
  BY DEF Tracks
<1> QED BY <1>1, <1>2, <1>3, PTL DEF Spec

-----------------------------------------------------------------------------
(* Queue and table hold the same receipts *)

\* The queue is below MAX_DLR_QUEUE_PER_CLIENT: nothing is lost for want of room.
Room == Len(queue) < Cap

\* Is there an INSERT of d that has not executed?
Inserting(d) == \E b \in BOOLEAN : InFlight(InsertOf(d, b))

\* d is in the queue or in what the load is about to add to it.
Waits(d) == d \in Range(queue) \/ (load.pc = "read" /\ d \in Range(load.rows))

\* A receipt within its time that the client has not seen waits if its row is being
\* written, and if the table has one and the load has read it.
StoredWaits ==
    \A d \in Unsent \ old :
        /\ Inserting(d) => Waits(d)
        /\ load.pc \in {"read", "done"} /\ d \in Range(table) => Waits(d)

\* With room, the loop over ds adds all of them.
LEMMA EnqueuedRoom ==
    ASSUME NEW q \in Seq(Dlrs), Len(q) <= Cap, NEW ds \in Seq(Dlrs),
           Len(EnqueuedAll(q, ds)) < Cap
    PROVE  Range(EnqueuedAll(q, ds)) = Range(q) \cup Range(ds)
<1>1. EnqueuedAll(q, ds) = q \o ds
  BY EnqueuedQueue
<1> QED BY <1>1, ConcatQueue

\* A receipt that has just arrived is in the queue as its row is written.
LEMMA EnqueueStoredWaits ==
    ASSUME StoreInv, StoredWaits, Room', NEW d \in Dlrs, Enqueue(d)
    PROVE  StoredWaits'
<1> DEFINE ds == <<d>>
<1>1. ds \in Seq(Dlrs) /\ Range(ds) = {d} /\ DOMAIN ds = {1} /\ ds[1] = d
  BY OneQueue
<1>2. EnqueueEach(ds) /\ UNCHANGED <<table, load, sent, old>>
  BY DEF Enqueue, EnqueueEach
<1>3. queue \in Seq(Dlrs) /\ Len(queue) <= Cap /\ queue' = EnqueuedAll(queue, ds)
  BY <1>2 DEF StoreInv, StoreTypes, EnqueueEach
<1> HIDE DEF ds
<1>4. Range(queue') = Range(queue) \cup {d}
  BY <1>1, <1>3, EnqueuedRoom DEF Room
<1>5. Range(arrived') = Range(arrived) \cup {d}
  BY <1>1, <1>2, EnqueueArrived DEF StoreInv
<1>6. ASSUME NEW e, Inserting(e)' PROVE Inserting(e) \/ e = d
  <2>1. PICK b \in BOOLEAN : InFlight(InsertOf(e, b))'
    BY <1>6 DEF Inserting
  <2>2. \/ InFlight(InsertOf(e, b))
        \/ \E i \in DOMAIN ds : InsertOf(e, b) = InsertOf(ds[i], Len(queue) + i > Cap)
    BY <1>1, <1>2, <2>1, EnqueueTyped DEF StoreInv
  <2>3. ASSUME NEW i \in DOMAIN ds, InsertOf(e, b) = InsertOf(ds[i], Len(queue) + i > Cap)
        PROVE  e = d
    BY <1>1, <2>3, StatementsDiffer
  <2> QED BY <2>2, <2>3 DEF Inserting
<1>7. \A e : Waits(e) \/ e = d => Waits(e)'
  BY <1>2, <1>4 DEF Waits
<1>8. \A e \in Unsent' \ old' : e = d \/ e \in Unsent \ old
  BY <1>2, <1>5 DEF Unsent
<1> QED BY <1>2, <1>6, <1>7, <1>8 DEF StoredWaits

\* A flush hands the client what it claims, but for what goes back into the queue as
\* its row is written again.
LEMMA FlushStoredWaits ==
    ASSUME StoreInv, StoredWaits, NEW unsent \in SUBSET Range(queue), Flush(unsent)
    PROVE  StoredWaits'
<1>1. queue \in Seq(Dlrs) /\ sent \in Seq(Dlrs)
  BY DEF StoreInv, StoreTypes
<1>2. Range(queue') = unsent
  <2>1. Range(Kept(queue, unsent)) = Range(queue) \cap unsent
    BY <1>1, KeptQueue
  <2> QED BY <2>1, FlushTyped DEF StoreInv
<1>3. Range(sent') = Range(sent) \cup (Range(queue) \ unsent)
  <2>1. /\ Without(queue, unsent) \in Seq(Dlrs)
        /\ Range(Without(queue, unsent)) = Range(queue) \ unsent
    BY <1>1, WithoutQueue
  <2>2. Range(sent') = Range(sent) \cup Range(Without(queue, unsent))
    BY <1>1, <2>1, ConcatQueue DEF Flush
  <2> QED BY <2>1, <2>2
<1>4. UNCHANGED <<arrived, table, load, old>>
  BY DEF Flush
<1>5. ASSUME NEW e, Inserting(e)' PROVE Inserting(e) \/ e \in unsent
  <2>1. PICK b \in BOOLEAN : InFlight(InsertOf(e, b))'
    BY <1>5 DEF Inserting
  <2>2. \/ InFlight(InsertOf(e, b)) \/ InsertOf(e, b) = DeleteOf(Range(queue))
        \/ \E d \in unsent : InsertOf(e, b) = InsertOf(d, FALSE)
    BY <2>1, FlushTyped DEF StoreInv
  <2> QED BY <2>2, StatementsDiffer DEF Inserting
<1>6. \A e \in Unsent' \ old' : e \in Unsent \ old /\ (e \in Range(queue) => e \in unsent)
  BY <1>3, <1>4 DEF Unsent
<1>7. \A e : e \in unsent => Waits(e)'
  BY <1>2 DEF Waits
<1>8. \A e \in Unsent' \ old' : Waits(e) => Waits(e)'
  BY <1>4, <1>6, <1>7 DEF Waits
<1> QED BY <1>4, <1>5, <1>6, <1>7, <1>8 DEF StoredWaits

\* Statements that execute or fail, time, the load, the cleanup and a restart leave no
\* row of a receipt within its time without its place in the queue.
LEMMA StepStoredWaits ==
    ASSUME \A d \in Dlrs : DateOf[d] # "past", StoreInv, StoredWaits, Room',
           [StoreNext]_storeVars
    PROVE  StoredWaits'
<1>1. /\ queue \in Seq(Dlrs) /\ table \in Seq(Dlrs) /\ Len(queue) <= Cap
      /\ load.rows \in Seq(Dlrs) /\ load.pc \in LoadPhases
      /\ Range(arrived) \subseteq Dlrs
  BY DEF StoreInv, StoreTypes, Range
<1>2. ASSUME UNCHANGED <<arrived, sent, queue, load>>, old \subseteq old',
             \A d : Inserting(d)' => Inserting(d),
             \A d \in Range(table') : d \in Range(table) \/ Inserting(d)
      PROVE  StoredWaits'
  BY <1>2 DEF StoredWaits, Unsent, Waits
<1>3. ASSUME NEW w, Settles(w) PROVE \A d : Inserting(d)' => Inserting(d)
  BY <1>3, SettlesNoInsert DEF Inserting
<1>4. ASSUME UNCHANGED writes PROVE \A d : Inserting(d)' => Inserting(d)
  BY <1>4 DEF Inserting, InFlight
<1>5. CASE \E d \in Dlrs : Enqueue(d)
  BY <1>5, EnqueueStoredWaits
<1>6. CASE \E unsent \in SUBSET Range(queue) : Flush(unsent)
  BY <1>6, FlushStoredWaits
<1>7. CASE Exec
  <2>1. ASSUME NEW d \in Dlrs, NEW trims \in BOOLEAN, ExecInsert(d, trims) PROVE StoredWaits'
    <3>1. Settles(InsertOf(d, trims)) /\ Range(table') = Range(table) \cup {d}
      BY <2>1, InsertTyped DEF StoreInv
    <3>2. Inserting(d)
      BY <2>1 DEF ExecInsert, Inserting
    <3> QED BY <1>2, <1>3, <2>1, <3>1, <3>2 DEF ExecInsert
  <2>2. ASSUME ExecTrim PROVE StoredWaits'
    BY <1>2, <1>3, <2>2, TrimTyped DEF ExecTrim, StoreInv
  <2>3. ASSUME NEW S \in SUBSET Dlrs, ExecDelete(S) PROVE StoredWaits'
    <3>1. Settles(DeleteOf(S)) /\ Range(table') \subseteq Range(table)
      BY <2>3, DeleteTyped DEF StoreInv
    <3> QED BY <1>2, <1>3, <2>3, <3>1 DEF ExecDelete
  <2> QED BY <1>7, <2>1, <2>2, <2>3 DEF Exec
<1>8. CASE \E w \in Statement : WriteFault(w)
  <2>1. PICK w \in Statement : WriteFault(w)
    BY <1>8
  <2>2. Settles(w) /\ UNCHANGED <<arrived, sent, queue, load, old, table>>
    BY <2>1, FaultTyped DEF WriteFault, StoreInv
  <2> QED BY <1>2, <1>3, <2>2
<1>9. CASE LoadRead
  <2>1. /\ load'.pc = "read" /\ load'.rows = table /\ load.pc = "due"
        /\ UNCHANGED <<arrived, sent, queue, old, table, writes>>
    BY <1>9 DEF LoadRead
  <2>2. \A d : (Waits(d) => Waits(d)') /\ (d \in Range(table) => Waits(d)')
    BY <2>1 DEF Waits
  <2> QED BY <1>4, <2>1, <2>2 DEF StoredWaits, Unsent
<1>10. CASE LoadApply
  <2>1. /\ queue' = EnqueuedAll(queue, load.rows) /\ load.pc = "read"
        /\ UNCHANGED <<arrived, sent, old, table, writes>>
    BY <1>10 DEF LoadApply, Loaded
  <2>2. Range(queue') = Range(queue) \cup Range(load.rows)
    BY <1>1, <2>1, EnqueuedRoom DEF Room
  <2>3. \A d : Waits(d) => Waits(d)'
    BY <2>2 DEF Waits
  <2> QED BY <1>4, <2>1, <2>3 DEF StoredWaits, Unsent
<1>11. CASE LoadFault
  <2>1. /\ load.pc = "due" /\ load'.pc = "failed"
        /\ UNCHANGED <<arrived, sent, queue, old, table, writes>>
    BY <1>11 DEF LoadFault
  <2>2. \A d : Waits(d) => Waits(d)'
    BY <2>1 DEF Waits
  <2> QED BY <1>4, <2>1, <2>2 DEF StoredWaits, Unsent
<1>12. CASE \E d \in Dlrs : Age(d)
  BY <1>2, <1>4, <1>12 DEF Age
<1>13. CASE CleanupMemory
  <2>1. /\ queue' = Without(queue, StaleDlrs)
        /\ UNCHANGED <<arrived, sent, load, old, table, writes>>
    BY <1>13 DEF CleanupMemory
  <2>2. Range(queue') = Range(queue) \ StaleDlrs
    BY <1>1, <2>1, WithoutQueue
  <2>3. \A d \in Dlrs \ old : d \notin StaleDlrs
    BY DEF StaleDlrs, Stale
  <2>4. \A d \in Unsent \ old : Waits(d) => Waits(d)'
    BY <1>1, <2>1, <2>2, <2>3 DEF Waits, Unsent
  <2> QED BY <1>4, <2>1, <2>4 DEF StoredWaits, Unsent
<1>14. CASE CleanupDb
  <2>1. Range(table') \subseteq Range(table)
    BY <1>1, <1>14, WithoutQueue DEF CleanupDb
  <2> QED BY <1>2, <1>4, <1>14, <2>1 DEF CleanupDb
<1>15. CASE StoreRestart
  <2>1. \A d : ~Inserting(d)'
    BY <1>15, OneEach DEF StoreRestart, EmptyBag, InFlight, Inserting
  <2>2. load'.pc = "due"
    BY <1>15 DEF StoreRestart
  <2> QED BY <2>1, <2>2 DEF StoredWaits
<1>16. CASE UNCHANGED storeVars
  BY <1>2, <1>4, <1>16 DEF storeVars
<1> QED BY <1>5, <1>6, <1>7, <1>8, <1>9, <1>10, <1>11, <1>12, <1>13, <1>14, <1>15, <1>16
        DEF StoreNext

\* The next flush claims every receipt that has a row and that the client has not seen:
\* unless the queue was full, or the cleanup misread a date as long past, none is left
\* behind in pending_dlrs, however statements, loads, cleanups and restarts interleave.
THEOREM StoredIsQueuedHolds ==
    ASSUME \A d \in Dlrs : DateOf[d] # "past"
    PROVE  StoreSpec /\ []Room => []StoredIsQueued
<1>1. StoreInit => StoredWaits
  <2> SUFFICES ASSUME StoreInit PROVE StoredWaits
    OBVIOUS
  <2>1. Range(arrived) = {}
    BY DEF StoreInit, Range
  <2> QED BY <2>1 DEF StoredWaits, Unsent
<1>2. StoreInv /\ StoredWaits /\ Room' /\ [StoreNext]_storeVars => StoredWaits'
  BY StepStoredWaits
<1>3. StoredWaits => StoredIsQueued
  BY DEF StoredWaits, StoredIsQueued, Waits
<1> QED BY <1>1, <1>2, <1>3, StoreInvHolds, PTL DEF StoreSpec

\* As long as no send was refused and no statement failed: a receipt that waits has its
\* row or its row is being written, only rows of sent receipts are being deleted, and
\* nothing is being trimmed.
WaitsStored ==
    refused = 0 /\ faults = 0 =>
        /\ \A d \in Unsent \ old : d \in Range(queue) \cup Range(load.rows) =>
              d \in Range(table) \/ Inserting(d)
        /\ \A S : InFlight(DeleteOf(S)) => S \subseteq Range(sent)
        /\ ~InFlight(TrimWrite)
        /\ \A d : ~InFlight(InsertOf(d, TRUE))

\* A receipt that has just arrived has its row written, and trims none as there is room.
LEMMA EnqueueWaitsStored ==
    ASSUME StoreInv, WaitsStored, Room, NEW d \in Dlrs, Enqueue(d)
    PROVE  WaitsStored'
<1> DEFINE ds == <<d>>
<1>1. ds \in Seq(Dlrs) /\ Range(ds) = {d} /\ DOMAIN ds = {1} /\ ds[1] = d
  BY OneQueue
<1>2. EnqueueEach(ds) /\ UNCHANGED <<table, load, sent, old, refused, faults>>
  BY DEF Enqueue, EnqueueEach, boundVars
<1>3. queue \in Seq(Dlrs) /\ Len(queue) <= Cap /\ queue' = EnqueuedAll(queue, ds)
  BY <1>2 DEF StoreInv, StoreTypes, EnqueueEach
<1> HIDE DEF ds
<1>4. Range(queue') \subseteq Range(queue) \cup {d}
  BY <1>1, <1>3, EnqueuedQueue
<1>5. Range(arrived') = Range(arrived) \cup {d}
  BY <1>1, <1>2, EnqueueArrived DEF StoreInv
<1>6. \A w : InFlight(w)' <=> InFlight(w) \/ w = InsertOf(d, FALSE)
  <2>1. \A w : InFlight(w)' <=> \/ InFlight(w)
                                \/ \E i \in DOMAIN ds : w = InsertOf(ds[i], Len(queue) + i > Cap)
    BY <1>1, <1>2, EnqueueTyped DEF StoreInv
  <2>2. (Len(queue) + 1 > Cap) = FALSE
    BY <1>3, StoreAssumption DEF Room
  <2> QED BY <1>1, <2>1, <2>2
<1>7. Inserting(d)' /\ \A e : Inserting(e) => Inserting(e)'
  BY <1>6 DEF Inserting
<1>8. \A e \in Unsent' \ old' : e = d \/ e \in Unsent \ old
  BY <1>2, <1>5 DEF Unsent
<1>9. /\ \A S : InFlight(DeleteOf(S))' => InFlight(DeleteOf(S))
      /\ InFlight(TrimWrite)' => InFlight(TrimWrite)
      /\ \A e : InFlight(InsertOf(e, TRUE))' => InFlight(InsertOf(e, TRUE))
  BY <1>6, StatementsDiffer
<1> QED BY <1>2, <1>4, <1>7, <1>8, <1>9 DEF WaitsStored

\* A flush that refuses nothing deletes the rows of what it sends.
LEMMA FlushWaitsStored ==
    ASSUME StoreInv, WaitsStored, NEW unsent \in SUBSET Range(queue), Flush(unsent)
    PROVE  WaitsStored'
<1>1. queue \in Seq(Dlrs) /\ sent \in Seq(Dlrs) /\ refused \in Nat
  BY DEF StoreInv, StoreTypes
<1>2. UNCHANGED <<arrived, table, load, old, faults>>
  BY DEF Flush
<1>3. SUFFICES ASSUME refused' = 0, faults' = 0 PROVE WaitsStored'
  BY DEF WaitsStored
<1>4. unsent = {} /\ refused = 0 /\ faults = 0
  BY <1>1, <1>2, <1>3 DEF Flush
<1>5. Range(queue') = {}
  <2>1. Range(Kept(queue, unsent)) = Range(queue) \cap unsent
    BY <1>1, KeptQueue
  <2> QED BY <1>4, <2>1, FlushTyped DEF StoreInv
<1>6. Range(sent') = Range(sent) \cup Range(queue)
  <2>1. /\ Without(queue, unsent) \in Seq(Dlrs)
        /\ Range(Without(queue, unsent)) = Range(queue) \ unsent
    BY <1>1, WithoutQueue
  <2>2. Range(sent') = Range(sent) \cup Range(Without(queue, unsent))
    BY <1>1, <2>1, ConcatQueue DEF Flush
  <2> QED BY <1>4, <2>1, <2>2
<1>7. \A w : InFlight(w)' <=> InFlight(w) \/ w = DeleteOf(Range(queue))
  BY <1>4, FlushTyped DEF StoreInv
<1>8. \A e : Inserting(e) => Inserting(e)'
  BY <1>7 DEF Inserting
<1>9. /\ \A S : InFlight(DeleteOf(S))' => InFlight(DeleteOf(S)) \/ S = Range(queue)
      /\ InFlight(TrimWrite)' => InFlight(TrimWrite)
      /\ \A e : InFlight(InsertOf(e, TRUE))' => InFlight(InsertOf(e, TRUE))
  BY <1>7, StatementsDiffer
<1>10. \A e \in Unsent' \ old' : e \in Unsent \ old
  BY <1>2, <1>6 DEF Unsent
<1> QED BY <1>2, <1>4, <1>5, <1>6, <1>8, <1>9, <1>10 DEF WaitsStored

\* Whatever executes, is loaded, cleaned up or lost in a restart, a receipt within its
\* time waits only with a row.
LEMMA StepWaitsStored ==
    ASSUME StoreInv, WaitsStored, Room, [StoreNext]_storeVars
    PROVE  WaitsStored'
<1>1. /\ queue \in Seq(Dlrs) /\ table \in Seq(Dlrs) /\ Len(queue) <= Cap
      /\ load.rows \in Seq(Dlrs) /\ faults \in Nat
      /\ Range(table) \subseteq Range(arrived)
  BY DEF StoreInv, StoreTypes, AllArrived
<1>2. ASSUME NEW w, Settles(w), refused = 0, faults = 0
      PROVE  /\ \A S : InFlight(DeleteOf(S))' => InFlight(DeleteOf(S))
             /\ (\A d : w # InsertOf(d, TRUE)) => ~InFlight(TrimWrite)'
             /\ \A d : ~InFlight(InsertOf(d, TRUE))'
  <2>1. \A S : DeleteOf(S) # TrimWrite
    BY StatementsDiffer
  <2>2. /\ ~InFlight(TrimWrite)
        /\ \A d : ~InFlight(InsertOf(d, TRUE))
    BY <1>2 DEF WaitsStored
  <2>3. \A v : InFlight(v)' => InFlight(v) \/ (v = TrimWrite /\ \E d : w = InsertOf(d, TRUE))
    BY <1>2 DEF Settles
  <2>4. ASSUME NEW S, InFlight(DeleteOf(S))' PROVE InFlight(DeleteOf(S))
    <3> DEFINE v == DeleteOf(S)
    <3>1. InFlight(v)' /\ v # TrimWrite
      BY <2>1, <2>4
    <3> HIDE DEF v
    <3>2. InFlight(v) \/ v = TrimWrite
      BY <2>3, <3>1
    <3> QED BY <3>1, <3>2 DEF v
  <2>5. (\A d : w # InsertOf(d, TRUE)) => ~InFlight(TrimWrite)'
    BY <2>2, <2>3
  <2>6. ASSUME NEW d, InFlight(InsertOf(d, TRUE))' PROVE FALSE
    BY <1>2, <2>2, <2>6, SettlesNoInsert
  <2> QED BY <2>4, <2>5, <2>6
<1>3. CASE \E d \in Dlrs : Enqueue(d)
  BY <1>3, EnqueueWaitsStored
<1>4. CASE \E unsent \in SUBSET Range(queue) : Flush(unsent)
  BY <1>4, FlushWaitsStored
<1>5. CASE Exec
  <2> SUFFICES ASSUME refused = 0, faults = 0 PROVE WaitsStored'
    BY <1>5 DEF Exec, ExecInsert, ExecTrim, ExecDelete, boundVars, WaitsStored
  <2>1. ASSUME NEW d \in Dlrs, NEW trims \in BOOLEAN, ExecInsert(d, trims) PROVE WaitsStored'
    <3>1. Settles(InsertOf(d, trims)) /\ Range(table') = Range(table) \cup {d}
      BY <2>1, InsertTyped DEF StoreInv
    <3>2. InFlight(InsertOf(d, trims)) /\ \A e : ~InFlight(InsertOf(e, TRUE))
      BY <2>1 DEF ExecInsert, WaitsStored
    <3>3. \A e : InsertOf(d, trims) # InsertOf(e, TRUE)
      BY <3>2
    <3>4. /\ \A S : InFlight(DeleteOf(S))' => InFlight(DeleteOf(S))
          /\ ~InFlight(TrimWrite)' /\ \A e : ~InFlight(InsertOf(e, TRUE))'
      BY <1>2, <3>1, <3>3
    <3>5. \A e : Inserting(e) => Inserting(e)' \/ e = d
      BY <3>1, StatementsDiffer DEF Inserting, Settles
    <3>6. UNCHANGED <<arrived, sent, old, queue, load>>
      BY <2>1 DEF ExecInsert
    <3> QED BY <3>1, <3>4, <3>5, <3>6 DEF WaitsStored, Unsent
  <2>2. ASSUME NEW S \in SUBSET Dlrs, ExecDelete(S) PROVE WaitsStored'
    <3>1. Settles(DeleteOf(S)) /\ Range(table') = Range(table) \ S
      BY <2>2, DeleteTyped DEF StoreInv
    <3>2. \A e : DeleteOf(S) # InsertOf(e, TRUE)
      BY StatementsDiffer
    <3>3. /\ \A T : InFlight(DeleteOf(T))' => InFlight(DeleteOf(T))
          /\ ~InFlight(TrimWrite)' /\ \A e : ~InFlight(InsertOf(e, TRUE))'
      BY <1>2, <3>1, <3>2
    <3>4. \A e : Inserting(e) => Inserting(e)'
      BY <3>1, StatementsDiffer DEF Inserting, Settles
    <3>5. UNCHANGED <<arrived, sent, old, queue, load>> /\ S \subseteq Range(sent)
      BY <2>2 DEF ExecDelete, WaitsStored
    <3> QED BY <3>1, <3>3, <3>4, <3>5 DEF WaitsStored, Unsent
  <2>3. ~ExecTrim
    BY DEF ExecTrim, WaitsStored
  <2> QED BY <1>5, <2>1, <2>2, <2>3 DEF Exec
<1>6. CASE (\E w \in Statement : WriteFault(w)) \/ LoadFault
  <2>1. faults' = faults + 1
    BY <1>6 DEF WriteFault, LoadFault
  <2>2. faults' # 0
    BY <1>1, <2>1
  <2> QED BY <2>2 DEF WaitsStored
<1>7. ASSUME UNCHANGED <<arrived, sent, writes, refused, faults>>, old \subseteq old',
             \A d \in Unsent \ old' :
                /\ d \in Range(queue') \cup Range(load'.rows) =>
                      d \in Range(queue) \cup Range(load.rows) \cup Range(table)
                /\ d \in Range(table) => d \in Range(table')
      PROVE  WaitsStored'
  <2>1. \A w : InFlight(w)' <=> InFlight(w)
    BY <1>7 DEF InFlight
  <2>2. \A d : Inserting(d)' <=> Inserting(d)
    BY <2>1 DEF Inserting
  <2>3. Unsent' = Unsent
    BY <1>7 DEF Unsent
  <2> QED BY <1>7, <2>1, <2>2, <2>3 DEF WaitsStored
<1>8. CASE LoadRead
  BY <1>7, <1>8 DEF LoadRead, boundVars
<1>9. CASE LoadApply
  <2>1. Range(queue') \subseteq Range(queue) \cup Range(load.rows)
    BY <1>1, <1>9, EnqueuedQueue DEF LoadApply, Loaded
  <2>2. Range(load'.rows) = {}
    BY <1>9 DEF LoadApply, Range
  <2> QED BY <1>7, <1>9, <2>1, <2>2 DEF LoadApply, boundVars
<1>10. CASE \E d \in Dlrs : Age(d)
  BY <1>7, <1>10 DEF Age, boundVars
<1>11. CASE CleanupMemory
  <2>1. Range(queue') \subseteq Range(queue)
    BY <1>1, <1>11, WithoutQueue DEF CleanupMemory
  <2> QED BY <1>7, <1>11, <2>1 DEF CleanupMemory, boundVars
<1>12. CASE CleanupDb
  <2>1. PICK S \in SUBSET old : table' = Without(table, S)
    BY <1>12 DEF CleanupDb
  <2>2. Range(table') = Range(table) \ S
    BY <1>1, <2>1, WithoutQueue
  <2> QED BY <1>7, <1>12, <2>2 DEF CleanupDb, boundVars
<1>13. CASE StoreRestart
  <2>1. Range(queue') = {} /\ Range(load'.rows) = {}
    BY <1>13 DEF StoreRestart, Range
  <2>2. \A w : ~InFlight(w)'
    BY <1>13, OneEach DEF StoreRestart, EmptyBag, InFlight
  <2> QED BY <2>1, <2>2 DEF WaitsStored
<1>14. CASE UNCHANGED storeVars
  BY <1>7, <1>14 DEF storeVars, boundVars
<1> QED BY <1>3, <1>4, <1>5, <1>6, <1>8, <1>9, <1>10, <1>11, <1>12, <1>13, <1>14
        DEF StoreNext

\* Durability: once the statements in flight have executed, a restart brings back every
\* queued receipt that is within its time, provided the queue never was full, no send
\* was refused and no statement failed.
THEOREM QueuedIsStoredHolds == StoreSpec /\ []Room => []QueuedIsStored
<1>1. StoreInit => WaitsStored
  <2> SUFFICES ASSUME StoreInit PROVE WaitsStored
    OBVIOUS
  <2>1. Range(arrived) = {} /\ \A w : ~InFlight(w)
    BY OneEach DEF StoreInit, Range, EmptyBag, InFlight
  <2> QED BY <2>1 DEF WaitsStored, Unsent
<1>2. StoreInv /\ WaitsStored /\ Room /\ [StoreNext]_storeVars => WaitsStored'
  BY StepWaitsStored
<1>3. WaitsStored => QueuedIsStored
  <2>1. writes = EmptyBag => \A d : ~Inserting(d)
    BY OneEach DEF EmptyBag, InFlight, Inserting
  <2> QED BY <2>1 DEF WaitsStored, QueuedIsStored, Quiet
<1> QED BY <1>1, <1>2, <1>3, StoreInvHolds, PTL DEF StoreSpec

-----------------------------------------------------------------------------
(* Receipts between callback, queue and client *)

FlushPhases == {"idle", "select", "enqueue", "push", "over", "rejected"}

FlushRecords ==
    [pc : FlushPhases, found : Seq(Dlrs), due : SUBSET Dlrs, own : BOOLEAN, robbed : BOOLEAN]

DeliveryTypes ==
    /\ StoreTypes
    /\ receipt \in [Dlrs -> {"due", "stored", "handled"}]
    /\ row \in [Dlrs -> {"SENT", "DELIVERED", "DELIVRD", "FAILED"}]
    /\ \A d \in Dlrs : row[d] \in {"SENT", RowOf[d]}
    /\ flush \in [Flushes -> FlushRecords]
    /\ recovered \in BOOLEAN
    /\ got \in SUBSET Dlrs /\ missed \in SUBSET Dlrs /\ thrown \in SUBSET Dlrs

\* The queue, as far as flushes and callbacks can tell, only gains receipts from loads
\* and statements, as long as there is room.
LEMMA StoreStepGrows ==
    ASSUME StoreTypes, StoreStep
    PROVE  /\ StoreTypes'
           /\ Room' => Range(queue) \subseteq Range(queue')
           /\ restarts' = restarts
<1>1. CASE Exec
  <2>1. StoreTypes'
    BY <1>1, InsertTyped, TrimTyped, DeleteTyped DEF Exec
  <2> QED BY <1>1, <2>1 DEF Exec, ExecInsert, ExecTrim, ExecDelete, boundVars
<1>2. CASE \E w \in Statement : WriteFault(w)
  BY <1>2, FaultTyped DEF WriteFault
<1>3. CASE LoadRead \/ LoadFault
  BY <1>3, LoadTyped DEF LoadRead, LoadFault, boundVars
<1>4. CASE LoadApply
  <2>1. /\ queue \in Seq(Dlrs) /\ Len(queue) <= Cap /\ load.rows \in Seq(Dlrs)
        /\ queue' = EnqueuedAll(queue, load.rows) /\ restarts' = restarts
    BY <1>4 DEF LoadApply, Loaded, StoreTypes, boundVars
  <2>2. Room' => Range(queue') = Range(queue) \cup Range(load.rows)
    BY <2>1, EnqueuedRoom DEF Room
  <2> QED BY <1>4, <2>1, <2>2, LoadTyped
<1> QED BY <1>1, <1>2, <1>3, <1>4 DEF StoreStep

\* What a callback or a recovery enqueues is in the queue, as long as there is room.
LEMMA EnqueueGrows ==
    ASSUME StoreTypes, NEW ds \in Seq(Dlrs), EnqueueEach(ds)
    PROVE  /\ StoreTypes'
           /\ Room' => Range(queue') = Range(queue) \cup Range(ds)
           /\ restarts' = restarts /\ delayed' = delayed
<1>1. queue \in Seq(Dlrs) /\ Len(queue) <= Cap /\ queue' = EnqueuedAll(queue, ds)
  BY DEF StoreTypes, EnqueueEach
<1>2. Room' => Range(queue') = Range(queue) \cup Range(ds)
  BY <1>1, EnqueuedRoom DEF Room
<1> QED BY <1>2, EnqueueTyped DEF EnqueueEach, boundVars

\* What a flush claims is handed to its session or goes back into the queue.
LEMMA FlushSplits ==
    ASSUME StoreTypes, NEW unsent \in SUBSET Range(queue), Flush(unsent)
    PROVE  /\ StoreTypes'
           /\ Range(queue') = unsent
           /\ Range(Without(queue, unsent)) = Range(queue) \ unsent
           /\ restarts' = restarts /\ delayed' = delayed \cup unsent
<1>1. queue \in Seq(Dlrs)
  BY DEF StoreTypes
<1>2. /\ Range(Kept(queue, unsent)) = Range(queue) \cap unsent
      /\ Range(Without(queue, unsent)) = Range(queue) \ unsent
  BY <1>1, KeptQueue, WithoutQueue
<1>3. queue' = Kept(queue, unsent) /\ StoreTypes'
  BY FlushTyped
<1> QED BY <1>2, <1>3 DEF Flush

\* A restart forgets the flushes under way.
LEMMA NoFlushTyped ==
    NoFlush \in FlushRecords /\ Over \in FlushRecords /\ Rejected \in FlushRecords
<1>1. <<>> \in Seq(Dlrs) /\ {} \in SUBSET Dlrs
  OBVIOUS
<1> QED BY <1>1 DEF NoFlush, Over, Rejected, FlushRecords, FlushPhases

\* A client's flush reads, enqueues and pushes receipts (flushPendingDlrs).
LEMMA FlushStepTyped ==
    ASSUME DeliveryTypes, NEW f \in Flushes, FlushStep(f)
    PROVE  DeliveryTypes'
<1>1. flush[f] \in FlushRecords /\ \A g \in Flushes : flush[g] \in FlushRecords
  BY DEF DeliveryTypes
<1>2. CASE RecoverRead(f)
  <2> DEFINE found == SetToSeq({d \in Dlrs : Recoverable(d)})
  <2> DEFINE due == {d \in Dlrs : Delivered(d) /\ receipt[d] = "handled"}
  <2>1. found \in Seq(Dlrs)
    <3>1. IsFiniteSet({d \in Dlrs : Recoverable(d)})
      BY StoreAssumption, FS_Subset
    <3> QED BY <3>1, SetQueue
  <2>2. flush' = [flush EXCEPT ![f].pc = "enqueue", ![f].found = found, ![f].due = due]
    BY <1>2 DEF RecoverRead
  <2>3. due \in SUBSET Dlrs
    OBVIOUS
  <2> HIDE DEF found, due
  <2>4. flush' \in [Flushes -> FlushRecords]
    BY <1>1, <2>1, <2>2, <2>3 DEF DeliveryTypes, FlushRecords, FlushPhases
  <2>5. UNCHANGED <<storeVars, receiptVars, recovered, clientVars>>
    BY <1>2 DEF RecoverRead
  <2> QED BY <2>4, <2>5 DEF DeliveryTypes, StoreTypes, storeVars, boundVars, receiptVars, clientVars
<1>3. CASE RecoverEnqueue(f)
  <2>1. StoreTypes'
    BY <1>1, <1>3, EnqueueGrows DEF RecoverEnqueue, DeliveryTypes, FlushRecords
  <2>2. flush' \in [Flushes -> FlushRecords]
    <3>1. <<>> \in Seq(Dlrs)
      OBVIOUS
    <3> QED BY <1>1, <1>3, <3>1 DEF RecoverEnqueue, DeliveryTypes, FlushRecords, FlushPhases
  <2> QED BY <1>3, <2>1, <2>2 DEF RecoverEnqueue, DeliveryTypes, receiptVars, clientVars
<1>4. CASE RecoverFault(f)
  <2>1. StoreTypes'
    BY <1>4 DEF RecoverFault, DeliveryTypes, StoreTypes
  <2>2. flush' \in [Flushes -> FlushRecords]
    <3>1. \/ flush' = [flush EXCEPT ![f].pc = "push", ![f].own = FALSE]
          \/ flush' = [flush EXCEPT ![f] = Rejected]
      BY <1>4 DEF RecoverFault
    <3>2. [flush[f] EXCEPT !.pc = "push", !.own = FALSE] \in FlushRecords
      BY <1>1 DEF FlushRecords, FlushPhases
    <3> QED BY <1>1, <3>1, <3>2, NoFlushTyped DEF DeliveryTypes
  <2> QED BY <1>4, <2>1, <2>2 DEF RecoverFault, DeliveryTypes, receiptVars, clientVars
<1>5. CASE \E unsent \in SUBSET Range(queue) : Push(f, unsent)
  <2>1. PICK unsent \in SUBSET Range(queue) : Push(f, unsent)
    BY <1>5
  <2>2. CASE queue = <<>>
    <3>1. flush' \in [Flushes -> FlushRecords]
      BY <1>1, <2>1, <2>2, NoFlushTyped DEF Push, DeliveryTypes
    <3>2. UNCHANGED <<storeVars, receiptVars, recovered, clientVars>>
      BY <2>1, <2>2 DEF Push
    <3> QED BY <3>1, <3>2 DEF DeliveryTypes, StoreTypes, storeVars, boundVars, receiptVars, clientVars
  <2>3. CASE queue # <<>>
    <3>1. /\ Flush(unsent) /\ Written(f[1], Without(queue, unsent)) /\ flush' = Pushed(f)
          /\ UNCHANGED <<receiptVars, recovered>>
      BY <2>1, <2>3 DEF Push
    <3>2. StoreTypes' /\ Range(Without(queue, unsent)) \subseteq Range(queue)
      BY <3>1, FlushSplits DEF DeliveryTypes
    <3>3. Range(queue) \subseteq Dlrs
      BY DEF DeliveryTypes, StoreTypes, Range
    <3>4. got' \in SUBSET Dlrs /\ missed' \in SUBSET Dlrs /\ thrown' \in SUBSET Dlrs
      BY <3>1, <3>2, <3>3 DEF Written, DeliveryTypes
    <3>5. flush' \in [Flushes -> FlushRecords]
      <4>1. \A g \in Flushes : [flush[g] EXCEPT !.robbed = TRUE] \in FlushRecords
        BY <1>1 DEF FlushRecords
      <4> QED BY <1>1, <3>1, <4>1, NoFlushTyped DEF Pushed
    <3> QED BY <3>1, <3>2, <3>4, <3>5 DEF DeliveryTypes, receiptVars
  <2> QED BY <2>2, <2>3
<1> QED BY <1>2, <1>3, <1>4, <1>5 DEF FlushStep

\* Any step keeps the types.
LEMMA DeliveryStepTyped ==
    ASSUME DeliveryTypes, [Next]_vars
    PROVE  DeliveryTypes'
<1>1. \A g \in Flushes : flush[g] \in FlushRecords
  BY DEF DeliveryTypes
<1>2. ASSUME UNCHANGED storeVars PROVE StoreTypes'
  BY <1>2 DEF DeliveryTypes, StoreTypes, storeVars, boundVars
<1>3. ASSUME NEW fs, StartFlush(fs) PROVE flush' \in [Flushes -> FlushRecords] /\ recovered' \in BOOLEAN
  <2>1. [NoFlush EXCEPT !.pc = IF recovered THEN "push" ELSE "select", !.own = ~recovered]
            \in FlushRecords
    BY NoFlushTyped DEF DeliveryTypes, FlushRecords, FlushPhases
  <2> QED BY <1>1, <1>3, <2>1 DEF StartFlush, DeliveryTypes
<1>4. CASE \E s \in Sessions : Bind(s) \/ Break(s)
  BY <1>2, <1>4 DEF Bind, Break, DeliveryTypes, receiptVars, flushVars, clientVars
<1>5. CASE \E s \in Sessions : Resolve(s)
  BY <1>2, <1>3, <1>5 DEF Resolve, DeliveryTypes, receiptVars, clientVars
<1>6. CASE \E s \in Sessions : Close(s)
  BY <1>2, <1>6 DEF Close, DeliveryTypes, receiptVars, clientVars
<1>14. CASE \E s \in Sessions : BindFault(s)
  BY <1>14 DEF BindFault, DeliveryTypes, StoreTypes, receiptVars, flushVars, clientVars
<1>7. CASE \E d \in Dlrs : UpdateRow(d)
  <2>1. PICK d \in Dlrs : UpdateRow(d)
    BY <1>7
  <2> QED BY <1>2, <2>1, DeliveryAssumption DEF UpdateRow, DeliveryTypes, flushVars, clientVars
<1>8. CASE \E d \in Dlrs : Callback(d)
  <2>1. PICK d \in Dlrs : Callback(d)
    BY <1>8
  <2>2. <<d>> \in Seq(Dlrs) /\ Range(<<d>>) = {d}
    BY OneQueue
  <2>5. PushThrows(d) => StoreTypes'
    BY DEF PushThrows, DeliveryTypes, StoreTypes
  <2>3. StoreTypes'
    BY <1>2, <2>1, <2>2, <2>5, EnqueueGrows DEF Callback, DeliveryTypes
  <2>4. got' \in SUBSET Dlrs /\ missed' \in SUBSET Dlrs /\ thrown' \in SUBSET Dlrs
    BY <2>1, <2>2 DEF Callback, Written, PushThrows, DeliveryTypes, clientVars
  <2> QED BY <2>1, <2>3, <2>4 DEF Callback, DeliveryTypes, flushVars
<1>9. CASE \E f \in Flushes : FlushStep(f)
  BY <1>9, FlushStepTyped
<1>10. CASE StartupFlush
  <2>1. \A b \in BOOLEAN : [NoFlush EXCEPT !.pc = IF b THEN "select" ELSE "push", !.own = b]
            \in FlushRecords
    BY NoFlushTyped DEF FlushRecords, FlushPhases
  <2>2. PICK first \in Tracked \cup {NoSession} :
            /\ first = NoSession => Tracked = {}
            /\ flush' = [f \in Flushes |->
                IF f[1] \notin Tracked \/ f[2] = "bind" THEN flush[f]
                ELSE LET own == ~recovered /\ f[1] = first IN
                     [NoFlush EXCEPT !.pc = IF own THEN "select" ELSE "push",
                                     !.own = own]]
    BY <1>10, Zenon DEF StartupFlush
  <2>3. \A f \in Flushes : (~recovered /\ f[1] = first) \in BOOLEAN
    OBVIOUS
  <2>4. flush' \in [Flushes -> FlushRecords]
    BY <1>1, <2>1, <2>2, <2>3
  <2> QED BY <1>2, <1>10, <2>4 DEF StartupFlush, DeliveryTypes, receiptVars, clientVars
<1>11. CASE StoreStep
  BY <1>11, StoreStepGrows DEF StoreStep, DeliveryTypes, receiptVars, flushVars, clientVars
<1>12. CASE Restart
  <2>1. StoreTypes'
    BY <1>12, CleanupTyped DEF Restart, DeliveryTypes
  <2> QED BY <1>12, <2>1, NoFlushTyped DEF Restart, DeliveryTypes, clientVars
<1>13. CASE UNCHANGED vars
  BY <1>2, <1>13 DEF vars, DeliveryTypes, receiptVars, flushVars, clientVars
<1> QED BY <1>4, <1>5, <1>6, <1>7, <1>8, <1>9, <1>10, <1>11, <1>12, <1>13, <1>14 DEF Next

\* At the start nothing is queued, nothing in flight and no flush under way.
LEMMA DeliveryInitTyped == Init => DeliveryTypes
<1> SUFFICES ASSUME Init PROVE DeliveryTypes
  OBVIOUS
<1>1. StoreTypes
  BY StoreInitTyped DEF Init
<1>2. flush \in [Flushes -> FlushRecords]
  BY NoFlushTyped DEF Init
<1> QED BY <1>1, <1>2 DEF Init, DeliveryTypes

\* The queue stays within MAX_DLR_QUEUE_PER_CLIENT with sessions, callbacks and flushes
\* as well, and every row keeps "SENT" or has what its receipt wrote.
THEOREM DeliveryTyped == Spec => []DeliveryTypes
<1>1. DeliveryTypes /\ [Next]_vars => DeliveryTypes'
  BY DeliveryStepTyped
<1> QED BY <1>1, DeliveryInitTyped, PTL DEF Spec

\* Callback, queue, flush and requeue pass a receipt on, or the session's connection was
\* gone, or the live push threw.
LEMMA StepVanishes ==
    ASSUME DeliveryTypes, NothingVanishes, Room', [Next]_vars
    PROVE  NothingVanishes'
<1>1. ASSUME UNCHANGED <<receipt, got, missed, thrown>>, Range(queue) \subseteq Range(queue'),
             restarts' = restarts
      PROVE  NothingVanishes'
  BY <1>1 DEF NothingVanishes
<1>2. CASE \E s \in Sessions : Bind(s) \/ Resolve(s) \/ BindFault(s) \/ Break(s) \/ Close(s)
  BY <1>1, <1>2 DEF Bind, Resolve, BindFault, Break, Close, storeVars, boundVars, receiptVars,
                    clientVars
<1>3. CASE \E d \in Dlrs : UpdateRow(d)
  BY <1>3 DEF UpdateRow, NothingVanishes, DeliveryTypes, storeVars, boundVars, clientVars
<1>4. ASSUME NEW d \in Dlrs, Callback(d) PROVE NothingVanishes'
  <2>1. <<d>> \in Seq(Dlrs) /\ Range(<<d>>) = {d}
    BY OneQueue
  <2>2. receipt' = [receipt EXCEPT ![d] = "handled"]
    BY <1>4 DEF Callback
  <2>3. \A e \in Dlrs : receipt'[e] = "handled" => e = d \/ receipt[e] = "handled"
    BY <2>2 DEF DeliveryTypes
  <2>4. CASE \E s \in Tracked : Written(s, <<d>>) /\ UNCHANGED storeVars
    <3>1. /\ got \cup missed \cup {d} \subseteq got' \cup missed'
          /\ UNCHANGED <<queue, restarts, thrown>>
      BY <2>1, <2>4 DEF Written, storeVars, boundVars
    <3> QED BY <2>3, <3>1 DEF NothingVanishes
  <2>5. CASE EnqueueEach(<<d>>) /\ UNCHANGED clientVars
    <3>1. Range(queue') = Range(queue) \cup {d} /\ restarts' = restarts
      BY <2>1, <2>5, EnqueueGrows DEF DeliveryTypes
    <3> QED BY <2>3, <2>5, <3>1 DEF NothingVanishes, clientVars
  <2>6. CASE PushThrows(d)
    BY <2>3, <2>6 DEF PushThrows, NothingVanishes
  <2> QED BY <1>4, <2>4, <2>5, <2>6 DEF Callback
<1>5. ASSUME NEW f \in Flushes, FlushStep(f) PROVE NothingVanishes'
  <2>1. CASE RecoverRead(f)
    BY <1>1, <2>1 DEF RecoverRead, storeVars, boundVars, receiptVars, clientVars
  <2>2. CASE RecoverEnqueue(f)
    <3>1. flush[f].found \in Seq(Dlrs)
      BY DEF DeliveryTypes, FlushRecords
    <3>2. Range(queue) \subseteq Range(queue') /\ restarts' = restarts
      BY <2>2, <3>1, EnqueueGrows DEF RecoverEnqueue, DeliveryTypes
    <3> QED BY <1>1, <2>2, <3>2 DEF RecoverEnqueue, receiptVars, clientVars
  <2>3. CASE RecoverFault(f)
    BY <1>1, <2>3 DEF RecoverFault, receiptVars, clientVars
  <2>4. ASSUME NEW unsent \in SUBSET Range(queue), Push(f, unsent) PROVE NothingVanishes'
    <3>1. CASE queue = <<>>
      BY <1>1, <2>4, <3>1 DEF Push, storeVars, boundVars, receiptVars, clientVars
    <3>2. CASE queue # <<>>
      <4>1. Flush(unsent) /\ Written(f[1], Without(queue, unsent)) /\ UNCHANGED receipt
        BY <2>4, <3>2 DEF Push, receiptVars
      <4>2. /\ Range(queue') = unsent /\ restarts' = restarts
            /\ Range(Without(queue, unsent)) = Range(queue) \ unsent
        BY <4>1, FlushSplits DEF DeliveryTypes
      <4>3. /\ got \cup missed \cup (Range(queue) \ unsent) \subseteq got' \cup missed'
            /\ UNCHANGED thrown
        BY <4>1, <4>2 DEF Written
      <4> QED BY <4>1, <4>2, <4>3 DEF NothingVanishes
    <3> QED BY <3>1, <3>2
  <2> QED BY <1>5, <2>1, <2>2, <2>3, <2>4 DEF FlushStep
<1>6. CASE StartupFlush
  BY <1>1, <1>6 DEF StartupFlush, storeVars, boundVars, receiptVars, clientVars
<1>7. CASE StoreStep
  <2>1. Range(queue) \subseteq Range(queue') /\ restarts' = restarts
    BY <1>7, StoreStepGrows DEF DeliveryTypes
  <2> QED BY <1>1, <1>7, <2>1 DEF StoreStep, receiptVars, clientVars
<1>8. CASE Restart
  <2>1. restarts' = restarts + 1 /\ restarts \in Nat
    BY <1>8 DEF Restart, StoreRestart, DeliveryTypes, StoreTypes
  <2>2. restarts' # 0
    BY <2>1
  <2> QED BY <2>2 DEF NothingVanishes
<1>9. CASE UNCHANGED vars
  BY <1>1, <1>9 DEF vars, storeVars, boundVars, receiptVars, clientVars
<1> QED BY <1>2, <1>3, <1>4, <1>5, <1>6, <1>7, <1>8, <1>9 DEF Next

\* While the process runs and the queue has room, a receipt whose callback has run is
\* never between places: the client got it, it waits, it went to a connection that was
\* gone, or its live push threw (the handler's push, requeueDlrsPersist and the flushes,
\* in any order).
THEOREM NothingVanishesHolds == Spec /\ []Room => []NothingVanishes
<1>1. Init => NothingVanishes
  BY DEF Init, NothingVanishes
<1>2. DeliveryTypes /\ NothingVanishes /\ Room' /\ [Next]_vars => NothingVanishes'
  BY StepVanishes
<1> QED BY <1>1, <1>2, DeliveryTyped, PTL DEF Spec

-----------------------------------------------------------------------------
(* What a recovery read reaches the client *)

\* The receipts a flush owes its client are among those its recovery found, then in the
\* queue, until the flush or another one takes them out.
DueClaimed ==
    \A f \in Flushes :
        /\ flush[f].pc = "enqueue" /\ flush[f].own => flush[f].due \subseteq Range(flush[f].found)
        /\ flush[f].pc = "push" /\ flush[f].own /\ ~flush[f].robbed
              => flush[f].due \subseteq Range(queue)

\* No other step touches what a flush owes.
LEMMA DueKept ==
    ASSUME DueClaimed, Range(queue) \subseteq Range(queue'),
           \A f \in Flushes : \/ flush'[f] = flush[f]
                              \/ flush'[f].pc \notin {"enqueue", "push"} \/ ~flush'[f].own
    PROVE  DueClaimed'
  BY DEF DueClaimed

\* The recovery claims what it owes, and another flush that empties the queue says so.
LEMMA FlushStepClaims ==
    ASSUME \A d \in Dlrs : RowOf[d] # "DELIVRD", DeliveryTypes, DueClaimed, Room',
           NEW f \in Flushes, FlushStep(f)
    PROVE  DueClaimed'
<1>1. /\ flush \in [Flushes -> FlushRecords] /\ flush[f] \in FlushRecords
      /\ flush[f].found \in Seq(Dlrs) /\ DOMAIN flush = Flushes
  BY DEF DeliveryTypes, FlushRecords
<1>2. CASE RecoverRead(f)
  <2> DEFINE S == {d \in Dlrs : Recoverable(d)}
  <2> DEFINE due == {d \in Dlrs : Delivered(d) /\ receipt[d] = "handled"}
  <2>1. Range(SetToSeq(S)) = S
    <3>1. IsFiniteSet(S)
      BY StoreAssumption, FS_Subset
    <3> QED BY <3>1, SetQueue
  <2>2. due \subseteq S
    BY DEF Delivered, Recoverable, DeliveryTypes
  <2>3. /\ flush' = [flush EXCEPT ![f].pc = "enqueue", ![f].found = SetToSeq(S), ![f].due = due]
        /\ UNCHANGED queue
    BY <1>2 DEF RecoverRead, storeVars
  <2> HIDE DEF S, due
  <2>4. /\ flush'[f].pc = "enqueue" /\ flush'[f].found = SetToSeq(S) /\ flush'[f].due = due
        /\ \A g \in Flushes : g # f => flush'[g] = flush[g]
    BY <1>1, <2>3 DEF FlushRecords
  <2> QED BY <2>1, <2>2, <2>3, <2>4 DEF DueClaimed
<1>3. CASE RecoverEnqueue(f)
  <2>1. /\ EnqueueEach(flush[f].found) /\ flush[f].pc = "enqueue"
        /\ flush' = [flush EXCEPT ![f].pc = "push", ![f].found = <<>>]
    BY <1>3 DEF RecoverEnqueue
  <2>2. Range(queue') = Range(queue) \cup Range(flush[f].found)
    BY <1>1, <2>1, EnqueueGrows DEF DeliveryTypes
  <2>3. /\ flush'[f].pc = "push" /\ flush'[f].due = flush[f].due /\ flush'[f].own = flush[f].own
        /\ \A g \in Flushes : g # f => flush'[g] = flush[g]
    BY <1>1, <2>1 DEF FlushRecords
  <2> QED BY <2>1, <2>2, <2>3 DEF DueClaimed
<1>4. CASE RecoverFault(f)
  <2>1. /\ flush'[f].own = FALSE /\ \A g \in Flushes : g # f => flush'[g] = flush[g]
        /\ UNCHANGED queue
    BY <1>1, <1>4 DEF RecoverFault, Rejected, NoFlush, FlushRecords
  <2> QED BY <2>1, DueKept
<1>5. ASSUME NEW unsent \in SUBSET Range(queue), Push(f, unsent) PROVE DueClaimed'
  <2>1. CASE queue = <<>>
    <3>1. flush' = [flush EXCEPT ![f] = Over] /\ UNCHANGED queue
      BY <1>5, <2>1 DEF Push, storeVars
    <3>2. flush'[f].pc = "over" /\ \A g \in Flushes : g # f => flush'[g] = flush[g]
      BY <1>1, <3>1 DEF Over, NoFlush
    <3> QED BY <3>1, <3>2, DueKept
  <2>2. CASE queue # <<>>
    <3>1. flush' = Pushed(f)
      BY <1>5, <2>2 DEF Push
    <3>2. \A g \in Flushes :
            \/ flush'[g].pc = "over"
            \/ /\ flush'[g].robbed /\ flush'[g].pc = flush[g].pc /\ flush'[g].own = flush[g].own
               /\ flush'[g].due = flush[g].due /\ flush'[g].found = flush[g].found
            \/ flush'[g] = flush[g] /\ flush[g].pc \notin {"enqueue", "push"}
      BY <1>1, <3>1 DEF Pushed, Over, NoFlush, FlushRecords
    <3> QED BY <3>2 DEF DueClaimed
  <2> QED BY <2>1, <2>2
<1> QED BY <1>2, <1>3, <1>4, <1>5 DEF FlushStep

\* So does every step of sessions, receipts, statements and restarts.
LEMMA StepClaims ==
    ASSUME \A d \in Dlrs : RowOf[d] # "DELIVRD", DeliveryTypes, DueClaimed, Room', [Next]_vars
    PROVE  DueClaimed'
<1>1. ASSUME UNCHANGED flush, Range(queue) \subseteq Range(queue') PROVE DueClaimed'
  BY <1>1, DueKept
<1>2. CASE \E s \in Sessions : Bind(s) \/ BindFault(s) \/ Break(s) \/ Close(s)
  BY <1>1, <1>2 DEF Bind, BindFault, Break, Close, storeVars, flushVars
<1>3. CASE \E s \in Sessions : Resolve(s)
  <2>1. PICK fs : StartFlush(fs)
    BY <1>3 DEF Resolve
  <2>2. UNCHANGED queue
    BY <1>3 DEF Resolve, storeVars
  <2>3. \A f \in Flushes : \/ flush'[f] = flush[f]
                           \/ flush'[f].pc \notin {"enqueue", "push"} \/ ~flush'[f].own
    BY <2>1 DEF StartFlush, NoFlush
  <2> QED BY <2>2, <2>3, DueKept
<1>4. CASE \E d \in Dlrs : UpdateRow(d)
  BY <1>1, <1>4 DEF UpdateRow, storeVars, flushVars
<1>5. ASSUME NEW d \in Dlrs, Callback(d) PROVE DueClaimed'
  <2>1. <<d>> \in Seq(Dlrs)
    OBVIOUS
  <2>2. Range(queue) \subseteq Range(queue')
    BY <1>5, <2>1, EnqueueGrows DEF Callback, PushThrows, DeliveryTypes, storeVars
  <2> QED BY <1>1, <1>5, <2>2 DEF Callback, flushVars
<1>6. CASE \E f \in Flushes : FlushStep(f)
  BY <1>6, FlushStepClaims
<1>7. CASE StartupFlush
  <2>1. PICK first \in Tracked \cup {NoSession} :
            /\ first = NoSession => Tracked = {}
            /\ flush' = [f \in Flushes |->
                IF f[1] \notin Tracked \/ f[2] = "bind" THEN flush[f]
                ELSE LET own == ~recovered /\ f[1] = first IN
                     [NoFlush EXCEPT !.pc = IF own THEN "select" ELSE "push",
                                     !.own = own]]
    BY <1>7, Zenon DEF StartupFlush
  <2>2. \A b \in BOOLEAN :
            LET n == [NoFlush EXCEPT !.pc = IF b THEN "select" ELSE "push", !.own = b]
            IN  n.pc \notin {"enqueue", "push"} \/ ~n.own
    BY DEF NoFlush
  <2>3. \A f \in Flushes : (~recovered /\ f[1] = first) \in BOOLEAN
    OBVIOUS
  <2>4. \A f \in Flushes : \/ flush'[f] = flush[f]
                           \/ flush'[f].pc \notin {"enqueue", "push"} \/ ~flush'[f].own
    BY <2>1, <2>2, <2>3
  <2> QED BY <1>7, <2>4, DueKept DEF StartupFlush, storeVars
<1>8. CASE StoreStep
  <2>1. Range(queue) \subseteq Range(queue')
    BY <1>8, StoreStepGrows DEF DeliveryTypes
  <2> QED BY <1>1, <1>8, <2>1 DEF StoreStep, flushVars
<1>9. CASE Restart
  BY <1>9 DEF Restart, NoFlush, DueClaimed
<1>10. CASE UNCHANGED vars
  BY <1>1, <1>10 DEF vars, storeVars, flushVars
<1> QED BY <1>2, <1>3, <1>4, <1>5, <1>6, <1>7, <1>8, <1>9, <1>10 DEF Next

\* A flush that is pushing ends by its push, and by no other step.
LEMMA OverOnlyByPush ==
    ASSUME DeliveryTypes, [Next]_vars, NEW f \in Flushes,
           flush[f].pc = "push", flush'[f].pc = "over"
    PROVE  \E unsent \in SUBSET Range(queue) : Push(f, unsent)
<1>1. /\ flush \in [Flushes -> FlushRecords] /\ DOMAIN flush = Flushes
      /\ \A g \in Flushes : flush[g] \in FlushRecords
  BY DEF DeliveryTypes
<1>2. ~UNCHANGED flush
  OBVIOUS
<1>3. ASSUME NEW fs, StartFlush(fs) PROVE FALSE
  BY <1>3 DEF StartFlush, NoFlush
<1>4. ~StartupFlush
  <2> SUFFICES ASSUME StartupFlush PROVE FALSE
    OBVIOUS
  <2>1. PICK first \in Tracked \cup {NoSession} :
            /\ first = NoSession => Tracked = {}
            /\ flush' = [g \in Flushes |->
                IF g[1] \notin Tracked \/ g[2] = "bind" THEN flush[g]
                ELSE LET own == ~recovered /\ g[1] = first IN
                     [NoFlush EXCEPT !.pc = IF own THEN "select" ELSE "push",
                                     !.own = own]]
    BY Zenon DEF StartupFlush
  <2>2. \A b \in BOOLEAN :
            [NoFlush EXCEPT !.pc = IF b THEN "select" ELSE "push", !.own = b].pc # "over"
    BY DEF NoFlush
  <2>3. (~recovered /\ f[1] = first) \in BOOLEAN
    OBVIOUS
  <2> QED BY <2>1, <2>2, <2>3
<1>5. ~Restart
  BY DEF Restart, NoFlush
<1>6. ASSUME NEW g \in Flushes, RecoverRead(g) \/ RecoverEnqueue(g) \/ RecoverFault(g)
      PROVE  FALSE
  BY <1>1, <1>6 DEF RecoverRead, RecoverEnqueue, RecoverFault, Rejected, NoFlush, FlushRecords
<1>7. ASSUME NEW g \in Flushes, NEW unsent \in SUBSET Range(queue), Push(g, unsent)
      PROVE  g = f
  <2> SUFFICES ASSUME g # f PROVE FALSE
    OBVIOUS
  <2>1. CASE queue = <<>>
    BY <1>1, <1>7, <2>1 DEF Push
  <2>2. CASE queue # <<>>
    <3>1. flush' = Pushed(g)
      BY <1>7, <2>2 DEF Push
    <3>2. flush'[f] = [flush[f] EXCEPT !.robbed = TRUE]
      BY <3>1 DEF Pushed
    <3> QED BY <1>1, <3>2 DEF FlushRecords
  <2> QED BY <2>1, <2>2
<1>8. ~StoreStep
  BY <1>2 DEF StoreStep, flushVars
<1>9. ~\E s \in Sessions : Bind(s) \/ Resolve(s) \/ BindFault(s) \/ Break(s) \/ Close(s)
  BY <1>2, <1>3 DEF Bind, Resolve, BindFault, Break, Close, flushVars
<1>10. ~\E d \in Dlrs : UpdateRow(d) \/ Callback(d)
  BY <1>2 DEF UpdateRow, Callback, flushVars
<1>11. ~UNCHANGED vars
  BY <1>2 DEF vars, flushVars
<1> QED BY <1>4, <1>5, <1>6, <1>7, <1>8, <1>9, <1>10, <1>11 DEF Next, FlushStep

\* A flush that ran the recovery itself and was not emptied by another one brings its
\* client, over a connection that stands, every delivered receipt that was dealt with
\* when the rows were read (recoverMissedDlrs, which asks for 'DELIVERED' only).
THEOREM RecoveryReachesHolds ==
    ASSUME \A d \in Dlrs : RowOf[d] # "DELIVRD"
    PROVE  Spec /\ []Room => RecoveryReaches
<1> DEFINE Reaches ==
        \A f \in Flushes :
            /\ flush[f].pc = "push" /\ flush'[f].pc = "over"
            /\ flush[f].own /\ ~flush[f].robbed /\ wire[f[1]] = "open"
            => \A d \in flush[f].due : d \in got' \/ d \in delayed'
<1>1. Init => DueClaimed
  BY DEF Init, DueClaimed, NoFlush
<1>2. DeliveryTypes /\ DueClaimed /\ Room' /\ [Next]_vars => DueClaimed'
  BY StepClaims
<1>3. ASSUME DeliveryTypes, DueClaimed, [Next]_vars PROVE Reaches
  <2>1. ASSUME NEW f \in Flushes, flush[f].pc = "push", flush'[f].pc = "over"
        PROVE  \E unsent \in SUBSET Range(queue) : Push(f, unsent)
    BY <1>3, <2>1, OverOnlyByPush
  <2>2. ASSUME NEW f \in Flushes, NEW unsent \in SUBSET Range(queue), Push(f, unsent),
               flush[f].pc = "push", flush[f].own, ~flush[f].robbed, wire[f[1]] = "open",
               NEW d \in flush[f].due
        PROVE  d \in got' \/ d \in delayed'
    <3>1. d \in Range(queue)
      BY <1>3, <2>2 DEF DueClaimed
    <3>2. queue # <<>>
      BY <3>1 DEF Range
    <3>3. Flush(unsent) /\ Written(f[1], Without(queue, unsent))
      BY <2>2, <3>2 DEF Push
    <3>4. /\ Range(Without(queue, unsent)) = Range(queue) \ unsent
          /\ delayed' = delayed \cup unsent
      BY <1>3, <3>3, FlushSplits DEF DeliveryTypes
    <3> QED BY <2>2, <3>1, <3>3, <3>4 DEF Written
  <2> QED BY <2>1, <2>2
<1> QED BY <1>1, <1>2, <1>3, DeliveryTyped, PTL DEF Spec, RecoveryReaches

===============================================================================
