----------------------- MODULE EvaluationServicesProofs -----------------------
(***************************************************************************)
(* Proofs about the services of MCEvaluationServices, for every set of     *)
(* callers and every bound that module leaves open.                        *)
(*                                                                         *)
(* A behaviour is one of one service, so the invariant is one of each: of  *)
(* the coalescing one (CoInv), of the batching one (BaInv), of what the    *)
(* two inference services share (InAll, over the callers C), of the        *)
(* channels of the remote one (Channels), and of the table of turn solvers *)
(* (CaInv).  They say which calls are where between the threads, and what  *)
(* each thread holds; the properties of the runs follow from them.  Counts *)
(* and rows of sequences go by SeqInduction, an induction over a set of    *)
(* sequences.                                                              *)
(***************************************************************************)
EXTENDS MCEvaluationServices, FiniteSetTheorems, SequenceTheorems, WellFoundedInduction, TLAPS

(* Induction over the numbers and over the sequences, stated about sets:   *)
(* a set that holds the first and with each one the next holds them all.   *)
LEMMA SetInduction ==
  ASSUME NEW T, 0 \in T, \A n \in Nat : n \in T => n + 1 \in T
  PROVE  \A n \in Nat : n \in T
PROOF
  <1> SUFFICES ASSUME Nat \ T # {} PROVE FALSE
    OBVIOUS
  <1>1. PICK n \in Nat \ T : \A m \in Nat \ T : ~ (<<m, n>> \in OpToRel(<, Nat))
    BY NatLessThanWellFounded, WFMin
  <1>2. n # 0 /\ n - 1 \in Nat /\ n - 1 < n /\ (n - 1) + 1 = n
    OBVIOUS
  <1>3. n - 1 \in Nat \ T
    BY <1>2
  <1>4. <<n - 1, n>> \in OpToRel(<, Nat)
    BY <1>2 DEF OpToRel
  <1> QED
    BY <1>1, <1>3, <1>4

LEMMA SeqInduction ==
  ASSUME NEW S, NEW T, <<>> \in T,
         \A s \in Seq(S), e \in S : s \in T => Append(s, e) \in T
  PROVE  \A s \in Seq(S) : s \in T
PROOF
  <1> DEFINE N == {n \in Nat : \A s \in Seq(S) : Len(s) = n => s \in T}
  <1>1. 0 \in N
    BY EmptySeq
  <1>2. ASSUME NEW n \in Nat, n \in N
        PROVE  n + 1 \in N
    <2> SUFFICES ASSUME NEW s \in Seq(S), Len(s) = n + 1
                 PROVE  s \in T
      OBVIOUS
    <2>1. s # <<>>
      BY EmptySeq
    <2>2. PICK t \in Seq(S), e \in S : s = Append(t, e)
      BY <2>1, SequenceEmptyOrAppend
    <2>3. Len(t) = n
      BY <2>2, AppendProperties, LenProperties
    <2> QED
      BY <1>2, <2>2, <2>3
  <1> HIDE DEF N
  <1>3. \A n \in Nat : n \in N
    BY <1>1, <1>2, SetInduction
  <1> QED
    BY <1>3, LenProperties DEF N

----------------------------------------------------------------------------
(* Functions defined by recursion.                                         *)

(* f starts at b, and goes on by G[k] in its k-th step. *)
Follows(f, n, V, b, G) ==
    f[0] = b /\ \A k \in 1..n : f[k - 1] \in V => f[k] = G[k][f[k - 1]]

LEMMA RecursionExists ==
  ASSUME NEW V, NEW b \in V, NEW n \in Nat, NEW G \in [1..n -> [V -> V]]
  PROVE  \E f \in [0..n -> V] : Follows(f, n, V, b, G)
PROOF
  <1> DEFINE T == {m \in Nat : m <= n => \E f \in [0..m -> V] : Follows(f, m, V, b, G)}
  <1>1. 0 \in T
    <2> DEFINE f == [k \in 0..0 |-> b]
    <2>1. f \in [0..0 -> V] /\ f[0] = b /\ \A k \in 1..0 : FALSE
      OBVIOUS
    <2> HIDE DEF f
    <2>2. Follows(f, 0, V, b, G)
      BY <2>1 DEF Follows
    <2> QED
      BY <2>1, <2>2
  <1>2. ASSUME NEW m \in Nat, m \in T
        PROVE  m + 1 \in T
    <2> SUFFICES ASSUME m + 1 <= n
                 PROVE  \E f \in [0..m + 1 -> V] : Follows(f, m + 1, V, b, G)
      OBVIOUS
    <2>1. PICK f \in [0..m -> V] : Follows(f, m, V, b, G)
      BY <1>2
    <2> DEFINE e == G[m + 1][f[m]]
               g == [k \in 0..m + 1 |-> IF k = m + 1 THEN e ELSE f[k]]
    <2>2. e \in V
      <3>1. m \in 0..m /\ m + 1 \in 1..n
        OBVIOUS
      <3>2. f[m] \in V /\ G[m + 1] \in [V -> V]
        BY <3>1
      <3> QED
        BY <3>2
    <2>3. \A k \in 0..m : k \in 0..m + 1 /\ k # m + 1 /\ g[k] = f[k] /\ f[k] \in V
      OBVIOUS
    <2>4. g[m + 1] = e
      OBVIOUS
    <2>5. g \in [0..m + 1 -> V]
      <3>1. \A k \in 0..m + 1 : k = m + 1 \/ k \in 0..m
        OBVIOUS
      <3> HIDE DEF e
      <3> QED
        BY <2>2, <3>1
    <2> HIDE DEF g
    <2>6. ASSUME NEW k \in 1..m + 1, g[k - 1] \in V
          PROVE  g[k] = G[k][g[k - 1]]
      <3>1. CASE k = m + 1
        <4>1. k - 1 = m /\ m \in 0..m
          BY <3>1
        <4> QED
          BY <2>3, <2>4, <3>1, <4>1
      <3>2. CASE k # m + 1
        <4>1. k \in 1..m /\ k \in 0..m /\ k - 1 \in 0..m
          BY <3>2
        <4>2. f[k] = G[k][f[k - 1]]
          BY <2>1, <4>1 DEF Follows
        <4> QED
          BY <2>3, <4>1, <4>2
      <3> QED
        BY <3>1, <3>2
    <2>7. g[0] = b
      <3>1. 0 \in 0..m
        OBVIOUS
      <3> QED
        BY <2>1, <2>3, <3>1 DEF Follows
    <2>8. Follows(g, m + 1, V, b, G)
      BY <2>6, <2>7 DEF Follows
    <2> QED
      BY <2>5, <2>8
  <1>3. \A m \in Nat : m \in T
    <2> HIDE DEF T
    <2> QED
      BY <1>1, <1>2, SetInduction
  <1> QED
    BY <1>3

LEMMA RecursionUnique ==
  ASSUME NEW V, NEW b \in V, NEW n \in Nat, NEW G, \A k \in 1..n : G[k] \in [V -> V],
         NEW f, Follows(f, n, V, b, G), NEW g, Follows(g, n, V, b, G)
  PROVE  \A k \in 0..n : f[k] = g[k] /\ f[k] \in V
PROOF
  <1> DEFINE T == {m \in Nat : m <= n => f[m] = g[m] /\ f[m] \in V}
  <1>1. 0 \in T
    BY DEF Follows
  <1>2. ASSUME NEW m \in Nat, m \in T
        PROVE  m + 1 \in T
    <2> SUFFICES ASSUME m + 1 <= n
                 PROVE  f[m + 1] = g[m + 1] /\ f[m + 1] \in V
      OBVIOUS
    <2>1. m + 1 \in 1..n /\ (m + 1) - 1 = m /\ m <= n
      OBVIOUS
    <2>2. f[m] = g[m] /\ f[m] \in V
      BY <1>2, <2>1
    <2>3. f[m + 1] = G[m + 1][f[m]] /\ g[m + 1] = G[m + 1][g[m]]
      BY <2>1, <2>2 DEF Follows
    <2>4. G[m + 1][f[m]] \in V
      BY <2>1, <2>2
    <2> QED
      BY <2>2, <2>3, <2>4
  <1>3. \A m \in Nat : m \in T
    <2> HIDE DEF T
    <2> QED
      BY <1>1, <1>2, SetInduction
  <1> QED
    BY <1>3

----------------------------------------------------------------------------
(* The rows of the requests of a batch.                                    *)

(* Requests, and whatever else carries rows. *)
Carriers(R, S) == \A r \in R : r.rows \in Seq(S)

Joins(f, s) == f = [k \in 0..Len(s) |-> IF k = 0 THEN <<>> ELSE f[k - 1] \o s[k].rows]
Joining(s) == CHOOSE f : Joins(f, s)
Behind(s, S) == [k \in 1..Len(s) |-> [v \in Seq(S) |-> v \o s[k].rows]]

LEMMA JoiningIs ==
  ASSUME NEW S, NEW R, Carriers(R, S), NEW s \in Seq(R)
  PROVE  /\ Joined(s) = Joining(s)[Len(s)]
         /\ \A k \in 1..Len(s) : Behind(s, S)[k] \in [Seq(S) -> Seq(S)]
         /\ Follows(Joining(s), Len(s), Seq(S), <<>>, Behind(s, S))
PROOF
  <1> DEFINE n == Len(s)
             V == Seq(S)
             G == Behind(s, S)
  <1>1. n \in Nat /\ <<>> \in V /\ \A k \in 1..n : s[k].rows \in V
    BY LenProperties, ElementOfSeq, EmptySeq DEF Carriers
  <1>2. G = [k \in 1..n |-> [v \in V |-> v \o s[k].rows]]
    BY DEF Behind
  <1>3. \A k \in 1..n : \A v \in V : v \o s[k].rows \in V
    BY <1>1, ConcatProperties
  <1> HIDE DEF V, G
  <1>4. G \in [1..n -> [V -> V]]
    BY <1>2, <1>3
  <1>5. \E f \in [0..n -> V] : Follows(f, n, V, <<>>, G)
    BY <1>1, <1>4, RecursionExists
  <1>6. PICK f \in [0..n -> V] : Follows(f, n, V, <<>>, G)
    BY <1>5
  <1>7. Joins(f, s)
    <2>1. \A k \in 0..n : f[k] = IF k = 0 THEN <<>> ELSE f[k - 1] \o s[k].rows
      <3> SUFFICES ASSUME NEW k \in 0..n, k # 0
                   PROVE  f[k] = f[k - 1] \o s[k].rows
        BY <1>6 DEF Follows
      <3>1. k \in 1..n /\ k - 1 \in 0..n
        BY <1>1
      <3>2. f[k - 1] \in V
        BY <1>6, <3>1
      <3>3. f[k] = G[k][f[k - 1]]
        BY <1>6, <3>1, <3>2 DEF Follows
      <3> QED
        BY <1>2, <3>1, <3>2, <3>3
    <2>2. f = [k \in 0..n |-> f[k]]
      BY <1>6
    <2> QED
      BY <2>1, <2>2 DEF Joins
  <1> DEFINE g == Joining(s)
  <1>8. Joins(g, s)
    BY <1>7 DEF Joining
  <1> HIDE DEF g
  <1>9. Follows(g, n, V, <<>>, G)
    <2>1. \A k \in 0..n : g[k] = IF k = 0 THEN <<>> ELSE g[k - 1] \o s[k].rows
      BY <1>8 DEF Joins
    <2>2. g[0] = <<>>
      <3>1. 0 \in 0..n
        BY <1>1
      <3> QED
        BY <2>1, <3>1
    <2>3. ASSUME NEW k \in 1..n, g[k - 1] \in V
          PROVE  g[k] = G[k][g[k - 1]]
      <3>1. k \in 0..n /\ k # 0
        BY <1>1
      <3> QED
        BY <1>2, <2>1, <2>3, <3>1
    <2> QED
      BY <2>2, <2>3 DEF Follows
  <1>10. Joined(s) = Joining(s)[Len(s)]
    BY DEF Joined, Joining, Joins
  <1> QED
    BY <1>4, <1>9, <1>10 DEF V, G, g

LEMMA JoinedNone ==
  Joined(<<>>) = <<>>
PROOF
  <1> DEFINE R == {[rows |-> <<>>]}
             none == <<>>
  <1>1. Carriers(R, {}) /\ none \in Seq(R) /\ Len(none) = 0
    BY EmptySeq DEF Carriers
  <1> HIDE DEF R, none
  <1>2. /\ Joined(none) = Joining(none)[Len(none)]
        /\ Follows(Joining(none), Len(none), Seq({}), <<>>, Behind(none, {}))
    BY <1>1, JoiningIs
  <1> QED
    BY <1>1, <1>2 DEF none, Follows

LEMMA JoinedAppend ==
  ASSUME NEW S, NEW R, Carriers(R, S), NEW s \in Seq(R), NEW r \in R
  PROVE  /\ Joined(<<>>) = <<>>
         /\ Joined(s) \in Seq(S)
         /\ Joined(Append(s, r)) = Joined(s) \o r.rows
PROOF
  <1> DEFINE n == Len(s)
             t == Append(s, r)
             V == Seq(S)
             none == <<>>
  <1>1. /\ n \in Nat /\ t \in Seq(R) /\ Len(t) = n + 1 /\ t[n + 1] = r
        /\ \A i \in 1..n : t[i] = s[i]
        /\ none \in V /\ none \in Seq(R) /\ Len(none) = 0
    BY AppendProperties, LenProperties, EmptySeq
  <1> HIDE DEF t, V, none
  <1>2. /\ Joined(s) = Joining(s)[n]
        /\ \A k \in 1..n : Behind(s, S)[k] \in [V -> V]
        /\ Follows(Joining(s), n, V, none, Behind(s, S))
    BY JoiningIs DEF V, none
  <1>3. /\ Joined(t) = Joining(t)[n + 1]
        /\ Follows(Joining(t), n + 1, V, none, Behind(t, S))
    <2>1. /\ Joined(t) = Joining(t)[Len(t)]
          /\ Follows(Joining(t), Len(t), Seq(S), <<>>, Behind(t, S))
      BY <1>1, JoiningIs
    <2> QED
      BY <1>1, <2>1 DEF V, none
  <1>4. Joined(none) = none
    <2>1. /\ Joined(none) = Joining(none)[Len(none)]
          /\ Follows(Joining(none), Len(none), Seq(S), <<>>, Behind(none, S))
      BY <1>1, JoiningIs
    <2> QED
      BY <1>1, <2>1 DEF none, Follows
  <1> DEFINE f == Joining(s)
             g == Joining(t)
             G == Behind(s, S)
  <1>5. Follows(g, n, V, none, G)
    <2>1. \A k \in 1..n : Behind(t, S)[k] = Behind(s, S)[k]
      <3>1. \A k \in 1..n : k \in 1..n + 1 /\ t[k] = s[k]
        BY <1>1
      <3> QED
        BY <1>1, <3>1 DEF Behind
    <2>2. \A k \in 1..n : k \in 1..n + 1
      BY <1>1
    <2> HIDE DEF g
    <2> QED
      BY <1>3, <2>1, <2>2 DEF Follows, g
  <1>6. \A k \in 0..n : f[k] = g[k] /\ f[k] \in V
    <2> HIDE DEF f, g, G, n
    <2> QED
      BY <1>1, <1>2, <1>5, RecursionUnique DEF f, G
  <1>7. n \in 0..n /\ n + 1 \in 1..n + 1 /\ (n + 1) - 1 = n
    BY <1>1
  <1>8. g[n] = Joined(s) /\ g[n] \in V
    BY <1>2, <1>6, <1>7
  <1>9. g[n + 1] = Behind(t, S)[n + 1][g[n]]
    BY <1>3, <1>7, <1>8 DEF Follows
  <1>10. Behind(t, S)[n + 1] = [v \in V |-> v \o r.rows]
    BY <1>1, <1>7 DEF Behind, V
  <1> QED
    BY <1>3, <1>4, <1>8, <1>9, <1>10 DEF V, none, t

(* One batch behind another. *)
LEMMA JoinedConcatAll ==
  ASSUME NEW S, NEW R, Carriers(R, S), NEW s \in Seq(R)
  PROVE  \A t \in Seq(R) : /\ Joined(s \o t) = Joined(s) \o Joined(t)
                            /\ Joined(t) \in Seq(S)
PROOF
  <1> DEFINE T == {t \in Seq(R) : /\ Joined(s \o t) = Joined(s) \o Joined(t)
                                  /\ Joined(t) \in Seq(S)}
  <1>1. SUFFICES ASSUME R # {} PROVE \A t \in Seq(R) : t \in T
    <2> SUFFICES ASSUME R = {}, NEW t \in Seq(R) PROVE t \in T
      BY <1>1
    <2>1. s = <<>> /\ t = <<>>
      <3>1. \A u \in Seq(R) : u # <<>> => Len(u) \in 1..Len(u) /\ u[Len(u)] \in R
        BY EmptySeq, ElementOfSeq
      <3> QED
        BY <3>1
    <2>4. Joined(<<>>) = <<>>
      BY JoinedNone
    <2>5. <<>> \o <<>> = <<>> /\ <<>> \in Seq(S)
      BY EmptySeq, ConcatEmptySeq
    <2> QED
      BY <2>1, <2>4, <2>5
  <1>2. PICK r \in R : TRUE
    BY <1>1
  <1>3. Joined(s) \in Seq(S) /\ Joined(<<>>) = <<>> /\ <<>> \in Seq(R)
    BY <1>2, JoinedAppend, EmptySeq
  <1>4. <<>> \in T
    <2>1. s \o <<>> = s /\ Joined(s) \o <<>> = Joined(s) /\ <<>> \in Seq(S)
      BY <1>3, ConcatEmptySeq, EmptySeq
    <2> QED
      BY <1>3, <2>1
  <1>5. ASSUME NEW t \in Seq(R), NEW e \in R, t \in T
        PROVE  Append(t, e) \in T
    <2>1. Append(t, e) \in Seq(R) /\ s \o t \in Seq(R)
      BY AppendProperties, ConcatProperties
    <2>2. s \o Append(t, e) = Append(s \o t, e)
      <3>1. /\ Append(t, e) = t \o <<e>> /\ Append(s \o t, e) = (s \o t) \o <<e>>
            /\ <<e>> \in Seq(R)
        BY <2>1, AppendIsConcat
      <3> QED
        BY <3>1, ConcatAssociative
    <2>3. /\ Joined(Append(s \o t, e)) = Joined(s \o t) \o e.rows
          /\ Joined(Append(t, e)) = Joined(t) \o e.rows
          /\ Joined(t) \in Seq(S) /\ e.rows \in Seq(S)
          /\ Joined(Append(t, e)) \in Seq(S)
      <3>1. e.rows \in Seq(S)
        BY DEF Carriers
      <3>2. Joined(Append(s \o t, e)) = Joined(s \o t) \o e.rows
        <4>1. s \o t \in Seq(R) /\ e \in R
          BY <1>5, <2>1
        <4> DEFINE u == s \o t
        <4> HIDE DEF T, u
        <4>2. u \in Seq(R)
          BY <4>1 DEF u
        <4>3. Joined(Append(u, e)) = Joined(u) \o e.rows
          BY <4>1, <4>2, JoinedAppend
        <4> QED
          BY <4>3 DEF u
      <3>3. Joined(Append(t, e)) = Joined(t) \o e.rows /\ Joined(t) \in Seq(S)
        <4>1. t \in Seq(R) /\ e \in R
          BY <1>5
        <4> HIDE DEF T
        <4> QED
          BY <4>1, JoinedAppend
      <3>4. Joined(Append(t, e)) \in Seq(S)
        BY <3>1, <3>3, ConcatProperties
      <3> QED
        BY <3>1, <3>2, <3>3, <3>4
    <2>4. Joined(s \o t) = Joined(s) \o Joined(t)
      BY <1>5
    <2> DEFINE a == Joined(s)
               b == Joined(t)
               c == e.rows
    <2>5. a \in Seq(S) /\ b \in Seq(S) /\ c \in Seq(S)
      BY <1>3, <2>3
    <2> HIDE DEF a, b, c
    <2>6. (a \o b) \o c = a \o (b \o c)
      BY <2>5, ConcatAssociative
    <2>7. Joined(s \o Append(t, e)) = Joined(s) \o Joined(Append(t, e))
      BY <2>2, <2>3, <2>4, <2>6 DEF a, b, c
    <2> QED
      BY <2>1, <2>3, <2>7
  <1> HIDE DEF T
  <1> QED
    BY <1>4, <1>5, SeqInduction

LEMMA JoinedConcat ==
  ASSUME NEW S, NEW R, Carriers(R, S), NEW s \in Seq(R), NEW t \in Seq(R)
  PROVE  /\ Joined(s \o t) = Joined(s) \o Joined(t)
         /\ Joined(s) \in Seq(S) /\ Joined(t) \in Seq(S)
PROOF
  <1>1. \A u \in Seq(R) : /\ Joined(s \o u) = Joined(s) \o Joined(u)
                           /\ Joined(u) \in Seq(S)
    BY JoinedConcatAll
  <1> QED
    BY <1>1

LEMMA JoinedOne ==
  ASSUME NEW S, NEW R, Carriers(R, S), NEW r \in R
  PROVE  Joined(<<r>>) = r.rows /\ <<r>> \in Seq(R)
PROOF
  <1> DEFINE none == <<>>
  <1>1. none \in Seq(R) /\ <<r>> = Append(none, r) /\ <<r>> \in Seq(R)
    BY EmptySeq
  <1>2. r.rows \in Seq(S)
    BY DEF Carriers
  <1>3. none \o r.rows = r.rows
    BY <1>2, ConcatEmptySeq
  <1>4. Joined(none) = none
    BY <1>1, JoinedAppend
  <1> HIDE DEF none
  <1>5. Joined(Append(none, r)) = Joined(none) \o r.rows
    BY <1>1, JoinedAppend
  <1> QED
    BY <1>1, <1>3, <1>4, <1>5

LEMMA RowCounts ==
  ASSUME NEW S, NEW R, Carriers(R, S), NEW s \in Seq(R)
  PROVE  /\ Joined(s) \in Seq(S)
         /\ RowCount(s) \in Nat
         /\ RowCount(<<>>) = 0
         /\ \A r \in R : /\ Len(r.rows) \in Nat
                          /\ RowCount(<<r>>) = Len(r.rows)
                          /\ RowCount(Append(s, r)) = RowCount(s) + Len(r.rows)
         /\ s # <<>> => RowCount(s) = Len(Head(s).rows) + RowCount(Tail(s))
PROOF
  <1>1. Joined(s) \in Seq(S)
    BY JoinedConcat
  <1>2. RowCount(s) \in Nat
    BY <1>1, LenProperties DEF RowCount
  <1>3. RowCount(<<>>) = 0
    <2>2. Joined(<<>>) = <<>>
      BY JoinedNone
    <2> QED
      BY <2>2, EmptySeq DEF RowCount
  <1>4. ASSUME NEW r \in R
        PROVE  /\ Len(r.rows) \in Nat
               /\ RowCount(<<r>>) = Len(r.rows)
               /\ RowCount(Append(s, r)) = RowCount(s) + Len(r.rows)
    <2>1. r.rows \in Seq(S)
      BY DEF Carriers
    <2>2. Joined(<<r>>) = r.rows
      BY JoinedOne
    <2>3. Joined(Append(s, r)) = Joined(s) \o r.rows
      BY JoinedAppend
    <2>4. Len(Joined(s) \o r.rows) = Len(Joined(s)) + Len(r.rows)
      BY <1>1, <2>1, ConcatProperties
    <2> QED
      BY <2>1, <2>2, <2>3, <2>4, LenProperties DEF RowCount
  <1>5. ASSUME s # <<>>
        PROVE  RowCount(s) = Len(Head(s).rows) + RowCount(Tail(s))
    <2>1. Head(s) \in R /\ Tail(s) \in Seq(R)
      BY <1>5, HeadTailProperties
    <2>2. s = <<Head(s)>> \o Tail(s)
      BY <1>5
    <2>3. <<Head(s)>> \in Seq(R) /\ Joined(<<Head(s)>>) = Head(s).rows
      BY <2>1, JoinedOne
    <2> DEFINE h == Head(s)
               u == Tail(s)
               q == <<h>>
    <2>4. Joined(q \o u) = Joined(q) \o Joined(u) /\ Joined(u) \in Seq(S)
      <3>1. q \in Seq(R) /\ u \in Seq(R)
        BY <2>1, <2>3
      <3> HIDE DEF q, u
      <3> QED
        BY <3>1, JoinedConcat
    <2>5. h.rows \in Seq(S)
      BY <2>1 DEF Carriers
    <2>6. Joined(s) = h.rows \o Joined(u)
      BY <2>2, <2>3, <2>4
    <2>7. Len(h.rows \o Joined(u)) = Len(h.rows) + Len(Joined(u))
      BY <2>4, <2>5, ConcatProperties
    <2> QED
      BY <2>6, <2>7 DEF RowCount
  <1> QED
    BY <1>1, <1>2, <1>3, <1>4, <1>5

(* Every request of a batch gets the answers to its own rows. *)
LEMMA SliceIsOwn ==
  ASSUME NEW S, NEW R, Carriers(R, S), NEW s \in Seq(R), NEW k \in 1..Len(s)
  PROVE  Slice(Joined(s), s, k) = s[k].rows
PROOF
  <1> DEFINE n == Len(s)
             a == SubSeq(s, 1, k - 1)
             b == SubSeq(s, k + 1, n)
             r == s[k]
  <1>1. n \in Nat /\ k \in Nat /\ r \in R /\ \A i \in 1..n : s[i] \in R
    BY LenProperties, ElementOfSeq
  <1>2. a \in Seq(R) /\ b \in Seq(R)
    <2>1. /\ 1 \in Int /\ k - 1 \in Int /\ k + 1 \in Int /\ n \in Int
          /\ \A i \in 1..k - 1 : i \in 1..n
          /\ \A i \in k + 1..n : i \in 1..n
      BY <1>1
    <2>2. SubSeq(s, 1, k - 1) \in Seq(R)
      BY <1>1, <2>1, SubSeqProperties
    <2>3. SubSeq(s, k + 1, n) \in Seq(R)
      BY <1>1, <2>1, SubSeqProperties
    <2> QED
      BY <2>2, <2>3
  <1> DEFINE p == Append(a, r)
             A == Joined(a)
             B == Joined(b)
             u == r.rows
  <1>3. p \in Seq(R) /\ s = p \o b
    <2>1. SubSeq(s, 1, k) = a \o <<r>>
      BY <1>1, SubSeqRecursiveSecond
    <2>2. SubSeq(s, 1, k) \o b = SubSeq(s, 1, n)
      BY <1>1, ConcatAdjacentSubSeq
    <2>3. SubSeq(s, 1, n) = s
      BY SubSeqFull
    <2>4. p \in Seq(R) /\ p = a \o <<r>>
      <3> HIDE DEF a, r
      <3> QED
        BY <1>1, <1>2, AppendProperties, AppendIsConcat
    <2> QED
      BY <2>1, <2>2, <2>3, <2>4
  <1>4. u \in Seq(S)
    BY <1>1 DEF Carriers
  <1>5. RowCount(a) = Len(A) /\ Slice(Joined(s), s, k) =
          SubSeq(Joined(s), Len(A) + 1, Len(A) + Len(u))
    BY DEF Slice, RowCount
  <1> HIDE DEF n, a, b
  <1>6. Joined(p) = A \o u /\ A \in Seq(S)
    <2> HIDE DEF r
    <2> QED
      BY <1>1, <1>2, JoinedAppend
  <1> HIDE DEF r, p
  <1>7. A \in Seq(S) /\ B \in Seq(S) /\ u \in Seq(S) /\ Joined(s) = (A \o u) \o B
    <2>1. Joined(p \o b) = Joined(p) \o Joined(b) /\ Joined(b) \in Seq(S)
      BY <1>2, <1>3, JoinedConcat
    <2> QED
      BY <1>3, <1>4, <1>6, <2>1
  <1> HIDE DEF A, B, u
  <1>9. SubSeq((A \o u) \o B, Len(A) + 1, Len(A) + Len(u)) = u
    <2> DEFINE w == (A \o u) \o B
               z == SubSeq(w, Len(A) + 1, Len(A) + Len(u))
    <2>1. /\ A \o u \in Seq(S) /\ Len(A \o u) = Len(A) + Len(u)
          /\ \A i \in 1..Len(A) + Len(u) :
                (A \o u)[i] = IF i <= Len(A) THEN A[i] ELSE u[i - Len(A)]
      BY <1>7, ConcatProperties
    <2>2. /\ w \in Seq(S)
          /\ Len(w) = Len(A \o u) + Len(B)
          /\ \A i \in 1..Len(A \o u) + Len(B) :
                w[i] = IF i <= Len(A \o u) THEN (A \o u)[i] ELSE B[i - Len(A \o u)]
      BY <1>7, <2>1, ConcatProperties
    <2>3. Len(A) \in Nat /\ Len(u) \in Nat /\ Len(B) \in Nat
      BY <1>7, LenProperties
    <2> HIDE DEF w
    <2>4. \A i \in Len(A) + 1..Len(A) + Len(u) : w[i] = u[i - Len(A)] /\ w[i] \in S
      <3> SUFFICES ASSUME NEW i \in Len(A) + 1..Len(A) + Len(u)
                   PROVE  w[i] = u[i - Len(A)] /\ w[i] \in S
        OBVIOUS
      <3>1. /\ i \in 1..Len(A \o u) + Len(B) /\ i <= Len(A \o u)
            /\ i \in 1..Len(A) + Len(u) /\ ~(i <= Len(A)) /\ i - Len(A) \in 1..Len(u)
        BY <2>1, <2>3
      <3>2. w[i] = (A \o u)[i] /\ (A \o u)[i] = u[i - Len(A)]
        BY <2>1, <2>2, <3>1
      <3> QED
        BY <1>7, <3>1, <3>2, ElementOfSeq
    <2>5. /\ z \in Seq(S)
          /\ Len(z) = IF Len(A) + 1 <= Len(A) + Len(u)
                      THEN (Len(A) + Len(u)) - (Len(A) + 1) + 1 ELSE 0
          /\ \A i \in 1..(Len(A) + Len(u)) - (Len(A) + 1) + 1 : z[i] = w[(Len(A) + 1) + i - 1]
      BY <2>3, <2>4, SubSeqProperties
    <2>6. Len(z) = Len(u)
      BY <2>3, <2>5
    <2> HIDE DEF z
    <2>7. ASSUME NEW i \in 1..Len(z)
          PROVE  z[i] = u[i]
      <3>1. /\ i \in 1..(Len(A) + Len(u)) - (Len(A) + 1) + 1
            /\ (Len(A) + 1) + i - 1 = Len(A) + i
            /\ Len(A) + i \in Len(A) + 1..Len(A) + Len(u) /\ (Len(A) + i) - Len(A) = i
        BY <2>3, <2>6
      <3> QED
        BY <2>4, <2>5, <3>1
    <2>8. z = u
      BY <1>7, <2>5, <2>6, <2>7, SeqEqual
    <2> QED
      BY <2>8 DEF z, w
  <1> QED
    BY <1>5, <1>7, <1>9 DEF u, r

----------------------------------------------------------------------------
(* Sequences that grow at their end and shrink at their head.              *)

LEMMA AppendAt ==
  ASSUME NEW R, NEW s \in Seq(R), NEW e \in R, NEW t, t = Append(s, e)
  PROVE  /\ Len(s) \in Nat /\ DOMAIN s = 1..Len(s)
         /\ t \in Seq(R) /\ t # <<>> /\ Len(t) = Len(s) + 1 /\ DOMAIN t = 1..Len(s) + 1
         /\ \A k \in 1..Len(s) : t[k] = s[k]
         /\ t[Len(s) + 1] = e
BY AppendProperties, LenProperties

LEMMA TailAt ==
  ASSUME NEW R, NEW s \in Seq(R), s # <<>>, NEW t, t = Tail(s)
  PROVE  /\ Len(s) \in Nat \ {0} /\ DOMAIN s = 1..Len(s) /\ 1 \in DOMAIN s
         /\ Head(s) = s[1] /\ s[1] \in R
         /\ t \in Seq(R) /\ Len(t) = Len(s) - 1 /\ DOMAIN t = 1..Len(s) - 1
         /\ \A k \in 1..Len(s) - 1 : t[k] = s[k + 1] /\ k + 1 \in DOMAIN s
PROOF
  <1>1. Len(s) \in Nat \ {0}
    BY EmptySeq
  <1>2. Head(s) = s[1] /\ Head(s) \in R
    BY HeadTailProperties
  <1> QED
    BY <1>1, <1>2, HeadTailProperties, LenProperties

(* Two requests of one caller, in one queue and in two.                    *)
Twice(s) ==
    \E k, n \in DOMAIN s : k # n /\ s[k].by = s[n].by /\ s[k] # End /\ s[n] # End
Meet(s, t) ==
    \E k \in DOMAIN s, n \in DOMAIN t : s[k].by = t[n].by /\ s[k] # End /\ t[n] # End

(* A request of nobody in s. *)
Apart(s, e) == \A k \in DOMAIN s : s[k].by = e.by => s[k] = End \/ e = End

LEMMA OnceAppend ==
  ASSUME NEW R, NEW s \in Seq(R), NEW e \in R, ~Twice(s), Apart(s, e), NEW u,
         NEW t, t = Append(s, e)
  PROVE  /\ ~Twice(t)
         /\ ~Meet(s, u) /\ Apart(u, e) => ~Meet(t, u)
         /\ ~Meet(u, s) /\ Apart(u, e) => ~Meet(u, t)
PROOF
  <1>1. /\ Len(s) \in Nat /\ DOMAIN s = 1..Len(s) /\ DOMAIN t = 1..Len(s) + 1
        /\ \A k \in 1..Len(s) : t[k] = s[k]
        /\ t[Len(s) + 1] = e
    BY AppendAt
  <1>2. \A k \in DOMAIN t : (k \in DOMAIN s /\ t[k] = s[k]) \/ (k = Len(s) + 1 /\ t[k] = e)
    <2>1. \A k \in 1..Len(s) + 1 : k \in 1..Len(s) \/ k = Len(s) + 1
      BY <1>1
    <2> QED
      BY <1>1, <2>1
  <1>3. ~Twice(t)
    BY <1>2 DEF Twice, Apart
  <1>4. ASSUME ~Meet(s, u), Apart(u, e)
        PROVE  ~Meet(t, u)
    BY <1>2, <1>4 DEF Meet, Apart
  <1>5. ASSUME ~Meet(u, s), Apart(u, e)
        PROVE  ~Meet(u, t)
    BY <1>2, <1>5 DEF Meet, Apart
  <1> QED
    BY <1>3, <1>4, <1>5

LEMMA OnceTail ==
  ASSUME NEW R, NEW s \in Seq(R), s # <<>>, ~Twice(s), NEW u, NEW t, t = Tail(s)
  PROVE  /\ ~Twice(t) /\ Apart(t, Head(s))
         /\ ~Meet(s, u) => ~Meet(t, u) /\ Apart(u, Head(s))
         /\ ~Meet(u, s) => ~Meet(u, t) /\ Apart(u, Head(s))
PROOF
  <1>1. /\ 1 \in DOMAIN s /\ Head(s) = s[1]
        /\ \A k \in DOMAIN t : t[k] = s[k + 1] /\ k + 1 \in DOMAIN s /\ k \in Nat /\ k + 1 # 1
    BY TailAt
  <1>2. Apart(t, Head(s))
    BY <1>1 DEF Twice, Apart
  <1>3. ~Twice(t)
    <2> SUFFICES ASSUME NEW k \in DOMAIN t, NEW n \in DOMAIN t, k # n, t[k].by = t[n].by,
                        t[k] # End, t[n] # End
                 PROVE  FALSE
      BY DEF Twice
    <2>1. k + 1 # n + 1 /\ k + 1 \in DOMAIN s /\ n + 1 \in DOMAIN s
            /\ t[k] = s[k + 1] /\ t[n] = s[n + 1]
      BY <1>1
    <2> QED
      BY <2>1 DEF Twice
  <1>4. ASSUME ~Meet(s, u)
        PROVE  ~Meet(t, u) /\ Apart(u, Head(s))
    BY <1>1, <1>4 DEF Meet, Apart
  <1>5. ASSUME ~Meet(u, s)
        PROVE  ~Meet(u, t) /\ Apart(u, Head(s))
    BY <1>1, <1>5 DEF Meet, Apart
  <1> QED
    BY <1>2, <1>3, <1>4, <1>5

LEMMA RowsOfOne ==
  ASSUME NEW c, NEW k, NEW n \in Nat
  PROVE  /\ RowsOf(c, k, n) \in Seq({Row(c, k, i) : i \in 1..n})
         /\ Len(RowsOf(c, k, n)) = n
         /\ \A i \in 1..n : RowsOf(c, k, n)[i] = Row(c, k, i)
         /\ n # 0 => RowsOf(c, k, n) # <<>>
PROOF
  <1> DEFINE T == {Row(c, k, i) : i \in 1..n}
             s == RowsOf(c, k, n)
  <1>1. \A i \in 1..n : Row(c, k, i) \in T
    OBVIOUS
  <1>2. s = [i \in 1..n |-> Row(c, k, i)]
    BY DEF RowsOf
  <1> HIDE DEF T
  <1>3. [i \in 1..n |-> Row(c, k, i)] \in Seq(T)
    BY <1>1, IsASeq
  <1> HIDE DEF s
  <1>4. s \in Seq(T) /\ DOMAIN s = 1..n
    BY <1>2, <1>3
  <1>5. Len(s) = n
    BY <1>4, LenProperties
  <1>6. n # 0 => s # <<>>
    BY <1>4, <1>5, EmptySeq
  <1> QED
    BY <1>2, <1>4, <1>5, <1>6 DEF s, T

LEMMA RowsTyped ==
  ASSUME NEW c \in Callers, NEW k \in Nat, NEW n \in 0..MaxRows
  PROVE  RowsOf(c, k, n) \in Seq(Rows)
PROOF
  <1>1. n \in Nat /\ MaxRows \in Nat
    BY RowsAssumption
  <1>2. \A i \in 1..n : i \in 1..MaxRows
    BY <1>1
  <1>3. \A i \in 1..n : Row(c, k, i) \in Rows
    BY <1>2 DEF Row, Rows
  <1>4. {Row(c, k, i) : i \in 1..n} \subseteq Rows
    BY <1>3
  <1>5. RowsOf(c, k, n) \in Seq({Row(c, k, i) : i \in 1..n})
    BY <1>1, RowsOfOne
  <1> DEFINE T == {Row(c, k, i) : i \in 1..n}
             s == RowsOf(c, k, n)
  <1> HIDE DEF T, s
  <1>6. T \subseteq Rows /\ s \in Seq(T)
    BY <1>4, <1>5 DEF T, s
  <1>7. s \in Seq(Rows)
    BY <1>6, SeqMonotonic
  <1> QED
    BY <1>7 DEF s

LEMMA RequestsCarry ==
  Carriers(Requests, Rows) /\ Carriers(Requests \cup {End}, Rows)
PROOF
  <1>1. End.rows \in Seq(Rows)
    BY EmptySeq DEF End
  <1>2. \A r \in Requests : r.rows \in Seq(Rows)
    BY DEF Requests
  <1> QED
    BY <1>1, <1>2 DEF Carriers

LEMMA Bounds ==
  /\ MaxRows \in Nat /\ MaxRows # 0 /\ MaxBatch \in Nat /\ MaxBatch # 0
  /\ MaxPending \in Nat /\ MaxPending >= MaxBatch
  /\ 0 \in 0..MaxRows /\ \A n \in 1..MaxRows : n \in 0..MaxRows
  /\ \A c \in Callers : MaxCalls[c] \in Nat /\ 0 <= MaxCalls[c]
PROOF
  <1>1. MaxRows \in Nat \ {0} /\ MaxBatch \in Nat \ {0} /\ MaxPending \in Nat /\ MaxPending >= MaxBatch
    BY RowsAssumption, MaxPendingAssumption
  <1>2. MaxCalls \in [Callers -> Nat]
    BY RowsAssumption
  <1>3. \A c \in Callers : MaxCalls[c] \in Nat
    BY <1>2
  <1>4. \A n \in Nat : 0 <= n
    OBVIOUS
  <1> QED
    BY <1>1, <1>3, <1>4

----------------------------------------------------------------------------
(* The coalescing service.                                                 *)

(* The rows of a thread's latest call. *)
Mine(c) == RowsOf(c, round[c], size[c])

CoTyped ==
    /\ queue \in Seq(Requests \cup {End})
    /\ closed \in BOOLEAN
    /\ closer \in {"open", "closing", "joining", "closed", "gave up"}
    /\ caller \in [Callers -> {"idle", "checked", "waiting"}]
    /\ round \in [Callers -> Nat] /\ \A c \in Callers : round[c] <= MaxCalls[c]
    /\ \A c \in Callers : caller[c] # "idle" => round[c] # 0
    /\ size \in [Callers -> 0..MaxRows]
    /\ got \in [Callers -> Outcomes]
    /\ done \in [Callers -> BOOLEAN]
    /\ server \in {"getting", "gathering", "evaluating", "delivering", "stopped"}
    /\ batch \in Seq(Requests)
    /\ late \subseteq Callers

CoStages ==
    /\ closed <=> closer # "open"
    /\ server \in {"getting", "stopped"} <=> batch = <<>>
    /\ server = "stopped" => closed

CoAsked(r) ==
    /\ r.by \in Callers
    /\ caller[r.by] = "waiting" /\ ~done[r.by]
    /\ size[r.by] \in 1..MaxRows
    /\ r = Request(r.by, Mine(r.by))

CoRequests ==
    /\ \A k \in DOMAIN queue : queue[k] = End \/ CoAsked(queue[k])
    /\ \A k \in DOMAIN batch : CoAsked(batch[k])
    /\ ~Twice(queue) /\ ~Twice(batch) /\ ~Meet(queue, batch)

(* Behind the end marker come only calls that were late. *)
CoEnd ==
    \A k \in DOMAIN queue : queue[k] = End =>
        /\ closed
        /\ \A n \in DOMAIN queue : n > k => queue[n] = End \/ queue[n].by \in late

CoCalls ==
    \A c \in Callers :
         /\ got[c].ok => got[c].rows = Mine(c)
         /\ caller[c] # "idle" => size[c] \in 1..MaxRows
         /\ caller[c] = "checked" => ~done[c]
         /\ caller[c] = "waiting" /\ ~done[c] =>
              \/ \E k \in DOMAIN queue : queue[k] # End /\ queue[k].by = c
              \/ \E k \in DOMAIN batch : batch[k].by = c

CoInv ==
    /\ CoTyped /\ Coalescing!EndsAfterServing
    /\ CoStages /\ CoRequests /\ CoEnd /\ CoCalls

(* The service computes with the operators of this module. *)
LEMMA CoSame ==
  /\ Coalescing!Rows = Rows /\ Coalescing!Requests = Requests
  /\ Coalescing!End = End /\ Coalescing!Error = Error /\ Coalescing!Outcomes = Outcomes
  /\ \A c, k, n : Coalescing!RowsOf(c, k, n) = RowsOf(c, k, n)
  /\ \A c, rows : Coalescing!Request(c, rows) = Request(c, rows)
  /\ \A rows : Coalescing!Result(rows) = Result(rows)
  /\ \A s : Coalescing!Joined(s) = Joined(s)
  /\ \A s, results, k : Coalescing!Slice(results, s, k) = Slice(results, s, k)
PROOF
  <1>1. Coalescing!Rows = Rows
    BY DEF Coalescing!Rows, Rows
  <1>2. Coalescing!Requests = Requests
    BY <1>1 DEF Coalescing!Requests, Requests
  <1>3. Coalescing!End = End /\ Coalescing!Error = Error
    BY DEF Coalescing!End, End, Coalescing!Error, Error
  <1>4. Coalescing!Outcomes = Outcomes
    BY <1>1 DEF Coalescing!Outcomes, Outcomes
  <1>5. \A c, k, n : Coalescing!RowsOf(c, k, n) = RowsOf(c, k, n)
    BY DEF Coalescing!RowsOf, RowsOf, Coalescing!Row, Row
  <1>6. /\ \A c, rows : Coalescing!Request(c, rows) = Request(c, rows)
        /\ \A rows : Coalescing!Result(rows) = Result(rows)
    BY DEF Coalescing!Request, Request, Coalescing!Result, Result
  <1>8. \A s : Coalescing!Joined(s) = Joined(s)
    BY DEF Coalescing!Joined, Joined
  <1>9. \A s : Coalescing!RowCount(s) = RowCount(s)
    BY <1>8 DEF Coalescing!RowCount, RowCount
  <1>10. \A s, results, k : Coalescing!Slice(results, s, k) = Slice(results, s, k)
    BY <1>9 DEF Coalescing!Slice, Slice
  <1> QED
    BY <1>1, <1>2, <1>3, <1>4, <1>5, <1>6, <1>8, <1>10

LEMMA CoTypeOK ==
  CoTyped /\ CoRequests => Coalescing!TypeOK
PROOF
  <1> SUFFICES ASSUME CoTyped, CoRequests PROVE Coalescing!TypeOK
    OBVIOUS
  <1>1. \A c \in Callers : round[c] \in 0..MaxCalls[c]
    <2>1. \A c \in Callers : round[c] \in Nat /\ round[c] <= MaxCalls[c]
      BY DEF CoTyped
    <2> QED
      BY <2>1, Bounds
  <1>2. ASSUME NEW c \in Callers, caller[c] # "waiting"
        PROVE  c \notin {r.by : r \in Coalescing!Range(queue)}
    <2> SUFFICES ASSUME NEW k \in DOMAIN queue, queue[k].by = c
                 PROVE  FALSE
      BY DEF Coalescing!Range
    <2>1. queue[k] = End \/ caller[queue[k].by] = "waiting"
      BY DEF CoRequests, CoAsked
    <2> QED
      BY <1>2, <2>1, MarkerAssumption DEF End
  <1> QED
    BY <1>1, <1>2, CoSame DEF CoTyped, Coalescing!TypeOK

LEMMA CoInit ==
  Coalescing!Init => CoInv
PROOF
  <1> SUFFICES ASSUME Coalescing!Init PROVE CoInv
    OBVIOUS
  <1>1. Error \in Outcomes /\ ~Error.ok
    BY EmptySeq DEF Error, Outcomes
  <1>2. queue = <<>> /\ batch = <<>> /\ queue \in Seq(Requests \cup {End}) /\ batch \in Seq(Requests)
    BY EmptySeq DEF Coalescing!Init
  <1>3. got = [c \in Callers |-> Error]
    BY CoSame DEF Coalescing!Init
  <1>4. CoTyped
    BY <1>1, <1>2, <1>3, Bounds DEF Coalescing!Init, CoTyped
  <1>5. CoRequests /\ CoEnd /\ CoStages /\ Coalescing!EndsAfterServing
    BY <1>2 DEF Coalescing!Init, CoRequests, Twice, Meet, CoEnd, CoStages,
                Coalescing!EndsAfterServing
  <1>6. CoCalls
    BY <1>1, <1>3 DEF Coalescing!Init, CoCalls
  <1> QED
    BY <1>4, <1>5, <1>6 DEF CoInv

(* No request of a call that is not waiting. *)
LEMMA CoApart ==
  ASSUME CoInv, NEW c \in Callers, caller[c] # "waiting", NEW rows
  PROVE  /\ Apart(queue, Request(c, rows)) /\ Apart(batch, Request(c, rows))
         /\ \A k \in DOMAIN queue : queue[k] # End => queue[k].by # c
         /\ \A k \in DOMAIN batch : batch[k].by # c
BY DEF CoInv, CoRequests, CoAsked, Apart, Request

LEMMA CoEvaluate ==
  ASSUME CoInv, NEW c \in Callers, Coalescing!Evaluate(c)
  PROVE  CoInv'
PROOF
  <1>1. /\ caller[c] = "idle"
        /\ UNCHANGED <<queue, closed, closer, server, batch, late>>
    BY DEF Coalescing!Evaluate, Coalescing!service
  <1>2. /\ \A d \in Callers : d # c => /\ caller'[d] = caller[d] /\ size'[d] = size[d]
                                        /\ round'[d] = round[d] /\ done'[d] = done[d]
                                        /\ got'[d] = got[d]
        /\ ~done'[c] /\ got'[c] = Error
        /\ caller'[c] = IF closed THEN "idle" ELSE "checked"
        /\ size'[c] \in 1..MaxRows
    BY CoSame DEF CoInv, CoTyped, Coalescing!Evaluate
  <1>3. Error \in Outcomes /\ ~Error.ok
    BY EmptySeq DEF Error, Outcomes
  <1>4. CoTyped'
    <2>1. /\ round' \in [Callers -> Nat] /\ \A d \in Callers : round'[d] <= MaxCalls[d]
          /\ round'[c] # 0
      <3>1. /\ round \in [Callers -> Nat] /\ \A d \in Callers : round[d] <= MaxCalls[d]
            /\ round[c] < MaxCalls[c] /\ round' = [round EXCEPT ![c] = round[c] + 1]
        BY DEF CoInv, CoTyped, Coalescing!Evaluate
      <3>2. /\ round' \in [Callers -> Nat] /\ round'[c] = round[c] + 1 /\ round[c] \in Nat
            /\ \A d \in Callers : d # c => round'[d] = round[d]
        BY <3>1
      <3>3. round[c] + 1 <= MaxCalls[c] /\ round[c] + 1 # 0
        BY <3>1, <3>2, Bounds
      <3> QED
        BY <3>1, <3>2, <3>3
    <2>2. size' \in [Callers -> 0..MaxRows]
      BY Bounds DEF CoInv, CoTyped, Coalescing!Evaluate
    <2>3. got' \in [Callers -> Outcomes]
      BY <1>3, CoSame DEF CoInv, CoTyped, Coalescing!Evaluate
    <2>4. /\ done' \in [Callers -> BOOLEAN]
          /\ caller' \in [Callers -> {"idle", "checked", "waiting"}]
      BY DEF CoInv, CoTyped, Coalescing!Evaluate
    <2> QED
      BY <1>1, <1>2, <2>1, <2>2, <2>3, <2>4 DEF CoInv, CoTyped
  <1>5. /\ \A k \in DOMAIN queue : queue[k] # End => queue[k].by # c
        /\ \A k \in DOMAIN batch : batch[k].by # c
    BY <1>1, CoApart
  <1>6. CoRequests'
    BY <1>1, <1>2, <1>5 DEF CoInv, CoRequests, CoAsked, Mine, Twice, Meet
  <1>7. CoStages' /\ CoEnd'
    BY <1>1 DEF CoInv, CoStages, CoEnd
  <1>8. CoCalls'
    BY <1>1, <1>2, <1>3 DEF CoInv, CoCalls, Mine
  <1>9. Coalescing!EndsAfterServing'
    BY <1>1, <1>2 DEF CoInv, Coalescing!EndsAfterServing
  <1> QED
    BY <1>4, <1>6, <1>7, <1>8, <1>9 DEF CoInv

LEMMA CoEnqueue ==
  ASSUME CoInv, NEW c \in Callers, Coalescing!Enqueue(c)
  PROVE  CoInv'
PROOF
  <1> DEFINE r == Request(c, Mine(c))
  <1>1. /\ caller[c] = "checked" /\ queue' = Append(queue, r)
        /\ late' = IF closed THEN late \cup {c} ELSE late \ {c}
        /\ UNCHANGED <<closed, closer, round, size, got, done, server, batch>>
    BY CoSame DEF Coalescing!Enqueue, Coalescing!service, Mine
  <1>2. /\ \A d \in Callers : d # c => caller'[d] = caller[d]
        /\ caller'[c] = "waiting" /\ caller' \in [Callers -> {"idle", "checked", "waiting"}]
    BY DEF CoInv, CoTyped, Coalescing!Enqueue
  <1>3. Apart(queue, r) /\ Apart(batch, r)
    BY <1>1, CoApart
  <1>4. size[c] \in 1..MaxRows /\ ~done[c]
    BY <1>1 DEF CoInv, CoCalls
  <1>5. r.by = c /\ r # End /\ r = Request(r.by, Mine(r.by))
    BY MarkerAssumption DEF Request, End
  <1>6. r \in Requests
    <2>1. Mine(c) \in Seq(Rows)
      <3>1. round[c] \in Nat /\ size[c] \in 0..MaxRows
        BY DEF CoInv, CoTyped
      <3> QED
        BY <3>1, RowsTyped DEF Mine
    <2> QED
      BY <2>1 DEF Requests, Request
  <1> HIDE DEF r
  <1>7. /\ Len(queue) \in Nat /\ DOMAIN queue = 1..Len(queue)
        /\ queue' \in Seq(Requests \cup {End}) /\ DOMAIN queue' = 1..Len(queue) + 1
        /\ \A k \in 1..Len(queue) : queue'[k] = queue[k]
        /\ queue'[Len(queue) + 1] = r
    <2>1. queue \in Seq(Requests \cup {End}) /\ r \in Requests \cup {End}
      BY <1>6 DEF CoInv, CoTyped
    <2> QED
      BY <1>1, <2>1, AppendAt
  <1>8. /\ \A k \in DOMAIN queue' : (k \in DOMAIN queue /\ queue'[k] = queue[k])
                                     \/ (k = Len(queue) + 1 /\ queue'[k] = r)
        /\ \A k \in DOMAIN queue : k \in DOMAIN queue' /\ queue'[k] = queue[k]
        /\ Len(queue) + 1 \in DOMAIN queue'
    <2>1. /\ \A k \in 1..Len(queue) + 1 : k \in 1..Len(queue) \/ k = Len(queue) + 1
          /\ \A k \in 1..Len(queue) : k \in 1..Len(queue) + 1
          /\ Len(queue) + 1 \in 1..Len(queue) + 1
      BY <1>7
    <2> QED
      BY <1>7, <2>1
  <1>9. CoTyped'
    BY <1>1, <1>2, <1>7 DEF CoInv, CoTyped
  <1>10. CoRequests'
    <2>1. \A k \in DOMAIN queue' : queue'[k] = End \/ CoAsked(queue[k])'
      BY <1>1, <1>2, <1>4, <1>5, <1>8 DEF CoInv, CoRequests, CoAsked, Mine
    <2>2. \A k \in DOMAIN batch' : CoAsked(batch[k])'
      BY <1>1, <1>2 DEF CoInv, CoRequests, CoAsked, Mine
    <2>3. ~Twice(queue') /\ ~Meet(queue', batch)
      <3>1. queue \in Seq(Requests \cup {End}) /\ r \in Requests \cup {End}
              /\ ~Twice(queue) /\ ~Meet(queue, batch)
        BY <1>6 DEF CoInv, CoTyped, CoRequests
      <3> DEFINE t == queue'
      <3>2. t = Append(queue, r)
        BY <1>1
      <3> HIDE DEF t
      <3>3. ~Twice(t) /\ ~Meet(t, batch)
        BY <1>3, <3>1, <3>2, OnceAppend
      <3> QED
        BY <3>3 DEF t
    <2> QED
      BY <1>1, <2>1, <2>2, <2>3 DEF CoInv, CoRequests, Twice, Meet
  <1>11. CoEnd'
    <2> SUFFICES ASSUME NEW k \in DOMAIN queue', queue'[k] = End
                 PROVE  /\ closed'
                        /\ \A n \in DOMAIN queue' : n > k =>
                              queue'[n] = End \/ queue'[n].by \in late'
      BY DEF CoEnd
    <2>1. k \in DOMAIN queue /\ queue[k] = End
      BY <1>5, <1>8
    <2>2. closed /\ \A n \in DOMAIN queue : n > k => queue[n] = End \/ queue[n].by \in late
      BY <2>1 DEF CoInv, CoEnd
    <2> QED
      BY <1>1, <1>5, <1>8, <2>2
  <1>12. CoStages'
    BY <1>1 DEF CoInv, CoStages
  <1>13. CoCalls'
    <2> SUFFICES ASSUME NEW d \in Callers
                 PROVE  /\ got'[d].ok => got'[d].rows = RowsOf(d, round'[d], size'[d])
                        /\ caller'[d] # "idle" => size'[d] \in 1..MaxRows
                        /\ caller'[d] = "checked" => ~done'[d]
                        /\ caller'[d] = "waiting" /\ ~done'[d] =>
                             \/ \E k \in DOMAIN queue' : queue'[k] # End /\ queue'[k].by = d
                             \/ \E k \in DOMAIN batch' : batch'[k].by = d
      BY DEF CoCalls, Mine
    <2>1. CASE d = c
      BY <1>1, <1>2, <1>4, <1>5, <1>7, <1>8, <2>1 DEF CoInv, CoCalls, Mine
    <2>2. CASE d # c
      BY <1>1, <1>2, <1>8, <2>2 DEF CoInv, CoCalls, Mine
    <2> QED
      BY <2>1, <2>2
  <1>14. Coalescing!EndsAfterServing'
    BY <1>1, <1>2 DEF CoInv, Coalescing!EndsAfterServing, CoStages
  <1> QED
    BY <1>9, <1>10, <1>11, <1>12, <1>13, <1>14 DEF CoInv

LEMMA CoReturn ==
  ASSUME CoInv, NEW c \in Callers, Coalescing!Return(c)
  PROVE  CoInv'
PROOF
  <1>1. /\ caller[c] = "waiting" /\ done[c]
        /\ UNCHANGED <<queue, closed, closer, round, size, got, done, server, batch, late>>
    BY DEF Coalescing!Return, Coalescing!service
  <1>2. /\ \A d \in Callers : d # c => caller'[d] = caller[d]
        /\ caller'[c] = "idle" /\ caller' \in [Callers -> {"idle", "checked", "waiting"}]
    BY DEF CoInv, CoTyped, Coalescing!Return
  <1>3. CoTyped' /\ CoStages' /\ CoEnd'
    BY <1>1, <1>2 DEF CoInv, CoTyped, CoStages, CoEnd
  <1>4. CoRequests'
    BY <1>1, <1>2 DEF CoInv, CoRequests, CoAsked, Mine, Twice, Meet
  <1>5. CoCalls' /\ Coalescing!EndsAfterServing'
    BY <1>1, <1>2 DEF CoInv, CoCalls, Mine, Coalescing!EndsAfterServing
  <1> QED
    BY <1>3, <1>4, <1>5 DEF CoInv

(* The steps that touch neither the queue nor a call. *)
LEMMA CoElsewhere ==
  ASSUME CoInv, UNCHANGED <<queue, caller, round, size, done, batch, late>>,
         closed => closed',
         got' \in [Callers -> Outcomes],
         \A c \in Callers : got'[c].ok => got'[c].rows = Mine(c),
         closer' \in {"open", "closing", "joining", "closed", "gave up"},
         closed' \in BOOLEAN, closed' <=> closer' # "open",
         server' \in {"getting", "gathering", "evaluating", "delivering", "stopped"},
         server' \in {"getting", "stopped"} <=> server \in {"getting", "stopped"},
         server' = "stopped" => server = "stopped"
  PROVE  CoInv'
PROOF
  <1>1. CoTyped' /\ CoStages'
    BY DEF CoInv, CoTyped, CoStages
  <1>2. CoRequests' /\ CoEnd'
    BY DEF CoInv, CoRequests, CoAsked, Mine, Twice, Meet, CoEnd
  <1>3. CoCalls' /\ Coalescing!EndsAfterServing'
    BY DEF CoInv, CoCalls, Mine, Coalescing!EndsAfterServing
  <1> QED
    BY <1>1, <1>2, <1>3 DEF CoInv

LEMMA CoQuiet ==
  ASSUME CoInv, Coalescing!Close \/ Coalescing!Join \/ Coalescing!EndGathering
  PROVE  CoInv'
PROOF
  <1>1. /\ UNCHANGED <<queue, caller, round, size, done, batch, late, got>>
        /\ closed => closed'
        /\ closer' \in {"open", "closing", "joining", "closed", "gave up"}
        /\ closed' \in BOOLEAN /\ (closed' <=> closer' # "open")
        /\ server' \in {"getting", "gathering", "evaluating", "delivering", "stopped"}
        /\ server' \in {"getting", "stopped"} <=> server \in {"getting", "stopped"}
        /\ server' = "stopped" => server = "stopped"
    <2>1. /\ closer \in {"open", "closing", "joining", "closed", "gave up"}
          /\ closed \in BOOLEAN /\ (closed <=> closer # "open")
          /\ server \in {"getting", "gathering", "evaluating", "delivering", "stopped"}
      BY DEF CoInv, CoTyped, CoStages
    <2>2. CASE Coalescing!Close
      BY <2>1, <2>2 DEF Coalescing!Close, Coalescing!service, Coalescing!calls
    <2>3. CASE Coalescing!Join
      BY <2>1, <2>3 DEF Coalescing!Join, Coalescing!service, Coalescing!calls
    <2>4. CASE Coalescing!EndGathering
      BY <2>1, <2>4 DEF Coalescing!EndGathering, Coalescing!calls
    <2> QED
      BY <2>2, <2>3, <2>4
  <1>2. /\ got' \in [Callers -> Outcomes]
        /\ \A c \in Callers : got'[c].ok => got'[c].rows = Mine(c)
    BY <1>1 DEF CoInv, CoTyped, CoCalls
  <1> QED
    BY <1>1, <1>2, CoElsewhere

LEMMA CoModel ==
  ASSUME CoInv, Coalescing!Succeed \/ Coalescing!Raise
  PROVE  CoInv'
PROOF
  <1>1. /\ UNCHANGED <<queue, caller, round, size, done, batch, late, closed, closer>>
        /\ server = "evaluating" /\ server' = "delivering"
    BY DEF Coalescing!Succeed, Coalescing!Raise, Coalescing!calls
  <1>2. Error \in Outcomes /\ ~Error.ok
    BY EmptySeq DEF Error, Outcomes
  <1>3. ASSUME NEW c \in Callers, c \in Coalescing!Everyone
        PROVE  Slice(Joined(batch), batch, CHOOSE k \in DOMAIN batch : batch[k].by = c) = Mine(c)
    <2> DEFINE n == CHOOSE k \in DOMAIN batch : batch[k].by = c
    <2>1. n \in DOMAIN batch /\ batch[n].by = c
      BY <1>3 DEF Coalescing!Everyone, Coalescing!Range
    <2> HIDE DEF n
    <2>2. batch \in Seq(Requests) /\ n \in 1..Len(batch)
      BY <2>1, LenProperties DEF CoInv, CoTyped
    <2>3. Slice(Joined(batch), batch, n) = batch[n].rows
      BY <2>2, RequestsCarry, SliceIsOwn
    <2>4. batch[n] = Request(c, Mine(c))
      BY <2>1 DEF CoInv, CoRequests, CoAsked
    <2> QED
      BY <2>3, <2>4 DEF n, Request
  <1>4. ASSUME NEW c \in Callers
        PROVE  Mine(c) \in Seq(Rows)
    <2>1. round[c] \in Nat /\ size[c] \in 0..MaxRows
      BY DEF CoInv, CoTyped
    <2> QED
      BY <2>1, RowsTyped DEF Mine
  <1>5. ASSUME NEW c \in Callers
        PROVE  Result(Mine(c)) \in Outcomes /\ Result(Mine(c)).rows = Mine(c)
    BY <1>4 DEF Result, Outcomes
  <1>6. \A c \in Callers : got'[c] \in {got[c], Error, Result(Mine(c))}
    <2>1. CASE Coalescing!Succeed
      <3>1. got' = [c \in Callers |->
              IF c \in Coalescing!Everyone
              THEN Result(Slice(Joined(batch), batch,
                                CHOOSE k \in DOMAIN batch : batch[k].by = c))
              ELSE got[c]]
        BY <2>1, CoSame DEF Coalescing!Succeed
      <3> QED
        BY <3>1, <1>3
    <2>2. CASE Coalescing!Raise
      BY <2>2, CoSame DEF Coalescing!Raise
    <2> QED
      BY <2>1, <2>2
  <1>7. got' \in [Callers -> Outcomes]
    <2>1. DOMAIN got' = Callers /\ got' = [c \in Callers |-> got'[c]]
      BY DEF Coalescing!Succeed, Coalescing!Raise
    <2>2. \A c \in Callers : got[c] \in Outcomes
      BY DEF CoInv, CoTyped
    <2> QED
      BY <1>2, <1>5, <1>6, <2>1, <2>2
  <1>8. \A c \in Callers : got'[c].ok => got'[c].rows = Mine(c)
    BY <1>2, <1>5, <1>6 DEF CoInv, CoCalls
  <1>9. closed \in BOOLEAN /\ (closed <=> closer # "open")
          /\ closer \in {"open", "closing", "joining", "closed", "gave up"}
    BY DEF CoInv, CoTyped, CoStages
  <1> QED
    BY <1>1, <1>7, <1>8, <1>9, CoElsewhere

LEMMA CoPutEnd ==
  ASSUME CoInv, Coalescing!PutEnd
  PROVE  CoInv'
PROOF
  <1>1. /\ closer = "closing" /\ closer' = "joining" /\ queue' = Append(queue, End)
        /\ UNCHANGED <<closed, caller, round, size, got, done, server, batch, late>>
    BY CoSame DEF Coalescing!PutEnd, Coalescing!service, Coalescing!calls
  <1>2. queue \in Seq(Requests \cup {End}) /\ End \in Requests \cup {End}
    BY DEF CoInv, CoTyped
  <1>3. /\ Len(queue) \in Nat /\ DOMAIN queue = 1..Len(queue)
        /\ queue' \in Seq(Requests \cup {End}) /\ DOMAIN queue' = 1..Len(queue) + 1
        /\ \A k \in 1..Len(queue) : queue'[k] = queue[k]
        /\ queue'[Len(queue) + 1] = End
    BY <1>1, <1>2, AppendAt
  <1>4. /\ \A k \in DOMAIN queue' : (k \in DOMAIN queue /\ queue'[k] = queue[k])
                                     \/ (k = Len(queue) + 1 /\ queue'[k] = End)
        /\ \A k \in DOMAIN queue : k \in DOMAIN queue' /\ queue'[k] = queue[k]
        /\ \A n \in DOMAIN queue' : ~(n > Len(queue) + 1)
    <2>1. /\ \A k \in 1..Len(queue) + 1 : k \in 1..Len(queue) \/ k = Len(queue) + 1
          /\ \A k \in 1..Len(queue) : k \in 1..Len(queue) + 1
          /\ \A n \in 1..Len(queue) + 1 : ~(n > Len(queue) + 1)
      BY <1>3
    <2> QED
      BY <1>3, <2>1
  <1>5. CoTyped' /\ CoStages'
    BY <1>1, <1>3 DEF CoInv, CoTyped, CoStages
  <1>6. CoRequests'
    <2>1. \A k \in DOMAIN queue' : queue'[k] = End \/ CoAsked(queue[k])'
      BY <1>1, <1>4 DEF CoInv, CoRequests, CoAsked, Mine
    <2>2. \A k \in DOMAIN batch' : CoAsked(batch[k])'
      BY <1>1 DEF CoInv, CoRequests, CoAsked, Mine
    <2>3. ~Twice(queue') /\ ~Twice(batch') /\ ~Meet(queue', batch')
      BY <1>1, <1>4 DEF CoInv, CoRequests, Twice, Meet
    <2> QED
      BY <2>1, <2>2, <2>3 DEF CoRequests
  <1>7. CoEnd'
    <2> SUFFICES ASSUME NEW k \in DOMAIN queue', queue'[k] = End
                 PROVE  /\ closed'
                        /\ \A n \in DOMAIN queue' : n > k =>
                              queue'[n] = End \/ queue'[n].by \in late'
      BY DEF CoEnd
    <2>1. closed'
      BY <1>1 DEF CoInv, CoStages
    <2>2. CASE k \in DOMAIN queue /\ queue[k] = End
      BY <1>1, <1>4, <2>1, <2>2 DEF CoInv, CoEnd
    <2>3. CASE k = Len(queue) + 1
      BY <1>4, <2>1, <2>3
    <2> QED
      BY <1>4, <2>2, <2>3
  <1>8. CoCalls'
    BY <1>1, <1>4 DEF CoInv, CoCalls, Mine
  <1>9. Coalescing!EndsAfterServing'
    BY <1>1 DEF CoInv, Coalescing!EndsAfterServing
  <1> QED
    BY <1>5, <1>6, <1>7, <1>8, <1>9 DEF CoInv

(* The first element is taken out of the queue. *)
LEMMA CoHead ==
  ASSUME CoInv, queue # <<>>
  PROVE  /\ Head(queue) = queue[1] /\ 1 \in DOMAIN queue
         /\ Head(queue) = End \/ (Head(queue) \in Requests /\ CoAsked(Head(queue)))
         /\ Tail(queue) \in Seq(Requests \cup {End})
         /\ \A k \in DOMAIN Tail(queue) :
               k \in Nat /\ k + 1 \in DOMAIN queue /\ k + 1 > 1 /\ Tail(queue)[k] = queue[k + 1]
         /\ \A k \in DOMAIN queue : k # 1 => k > 1 /\ \E n \in DOMAIN Tail(queue) : k = n + 1
         /\ ~Twice(Tail(queue)) /\ ~Meet(Tail(queue), batch)
         /\ Apart(Tail(queue), Head(queue)) /\ Apart(batch, Head(queue))
PROOF
  <1> DEFINE t == Tail(queue)
  <1>1. queue \in Seq(Requests \cup {End}) /\ queue # <<>> /\ ~Twice(queue) /\ ~Meet(queue, batch)
    BY DEF CoInv, CoTyped, CoRequests
  <1>2. t = Tail(queue)
    OBVIOUS
  <1> HIDE DEF t
  <1>3. /\ Len(queue) \in Nat \ {0} /\ DOMAIN queue = 1..Len(queue) /\ 1 \in DOMAIN queue
        /\ Head(queue) = queue[1] /\ queue[1] \in Requests \cup {End}
        /\ t \in Seq(Requests \cup {End}) /\ DOMAIN t = 1..Len(queue) - 1
        /\ \A k \in 1..Len(queue) - 1 : t[k] = queue[k + 1] /\ k + 1 \in DOMAIN queue
    BY <1>1, <1>2, TailAt
  <1>4. ~Twice(t) /\ Apart(t, Head(queue)) /\ ~Meet(t, batch) /\ Apart(batch, Head(queue))
    BY <1>1, <1>2, OnceTail
  <1>5. ASSUME NEW k \in DOMAIN queue, k # 1
        PROVE  k > 1 /\ \E n \in DOMAIN t : k = n + 1
    <2>1. k - 1 \in 1..Len(queue) - 1 /\ k = (k - 1) + 1 /\ k > 1
      BY <1>3, <1>5
    <2> QED
      BY <1>3, <2>1
  <1>6. \A k \in DOMAIN t : k \in Nat /\ k + 1 > 1
    BY <1>3
  <1>7. Head(queue) = End \/ (Head(queue) \in Requests /\ CoAsked(Head(queue)))
    BY <1>3 DEF CoInv, CoRequests
  <1> QED
    BY <1>3, <1>4, <1>5, <1>6, <1>7 DEF t

LEMMA CoGetFirst ==
  ASSUME CoInv, Coalescing!GetFirst
  PROVE  CoInv'
PROOF
  <1> DEFINE h == Head(queue)
  <1>1. /\ server = "getting" /\ queue # <<>> /\ queue' = Tail(queue)
        /\ \/ h = End /\ server' = "stopped" /\ batch' = batch
           \/ h # End /\ server' = "gathering" /\ batch' = <<h>>
        /\ UNCHANGED <<closed, closer, caller, round, size, got, done, late>>
    BY CoSame DEF Coalescing!GetFirst, Coalescing!calls
  <1>2. /\ h = queue[1] /\ 1 \in DOMAIN queue
        /\ h = End \/ (h \in Requests /\ CoAsked(h))
        /\ queue' \in Seq(Requests \cup {End})
        /\ \A k \in DOMAIN queue' :
              k \in Nat /\ k + 1 \in DOMAIN queue /\ k + 1 > 1 /\ queue'[k] = queue[k + 1]
        /\ \A k \in DOMAIN queue : k # 1 => k > 1 /\ \E n \in DOMAIN queue' : k = n + 1
        /\ ~Twice(queue') /\ Apart(queue', h)
    BY <1>1, CoHead
  <1>3. batch = <<>>
    BY <1>1 DEF CoInv, CoStages
  <1> HIDE DEF h
  <1>4. /\ h # End => batch' \in Seq(Requests) /\ batch' # <<>> /\ DOMAIN batch' = {1} /\ batch'[1] = h
        /\ h = End => batch' = <<>>
    <2>1. ASSUME h # End
          PROVE  batch' \in Seq(Requests) /\ batch' # <<>> /\ DOMAIN batch' = {1} /\ batch'[1] = h
      <3>1. h \in Requests /\ batch' = <<h>>
        BY <1>1, <1>2, <2>1
      <3> QED
        BY <3>1
    <2> QED
      BY <1>1, <1>3, <2>1
  <1>5. CoTyped'
    BY <1>1, <1>2, <1>4 DEF CoInv, CoTyped
  <1>6. CoEnd'
    <2> SUFFICES ASSUME NEW k \in DOMAIN queue', queue'[k] = End
                 PROVE  /\ closed'
                        /\ \A n \in DOMAIN queue' : n > k =>
                              queue'[n] = End \/ queue'[n].by \in late'
      BY DEF CoEnd
    <2>1. k + 1 \in DOMAIN queue /\ queue[k + 1] = End /\ k \in Nat
      BY <1>2
    <2>2. closed /\ \A n \in DOMAIN queue : n > k + 1 => queue[n] = End \/ queue[n].by \in late
      BY <2>1 DEF CoInv, CoEnd
    <2>3. \A n \in DOMAIN queue' : n > k => n + 1 > k + 1 /\ n + 1 \in DOMAIN queue /\ queue'[n] = queue[n + 1]
      BY <1>2, <2>1
    <2> QED
      BY <1>1, <2>2, <2>3
  <1>7. h = End => closed /\ \A n \in DOMAIN queue' : queue'[n] = End \/ queue'[n].by \in late
    <2> SUFFICES ASSUME h = End
                 PROVE  closed /\ \A n \in DOMAIN queue' : queue'[n] = End \/ queue'[n].by \in late
      OBVIOUS
    <2>1. closed /\ \A n \in DOMAIN queue : n > 1 => queue[n] = End \/ queue[n].by \in late
      BY <1>2 DEF CoInv, CoEnd
    <2> QED
      BY <1>2, <2>1
  <1>8. CoStages'
    BY <1>1, <1>4, <1>7 DEF CoInv, CoStages
  <1>9. CoRequests'
    <2>1. \A k \in DOMAIN queue' : queue'[k] = End \/ CoAsked(queue[k])'
      BY <1>1, <1>2 DEF CoInv, CoRequests, CoAsked, Mine
    <2>2. \A k \in DOMAIN batch' : CoAsked(batch[k])'
      BY <1>1, <1>2, <1>4 DEF CoAsked, Mine
    <2>3. ~Twice(batch') /\ ~Meet(queue', batch')
      BY <1>2, <1>4 DEF Twice, Meet, Apart
    <2> QED
      BY <1>2, <2>1, <2>2, <2>3 DEF CoRequests
  <1>10. CoCalls'
    <2> SUFFICES ASSUME NEW c \in Callers
                 PROVE  /\ got'[c].ok => got'[c].rows = RowsOf(c, round'[c], size'[c])
                        /\ caller'[c] # "idle" => size'[c] \in 1..MaxRows
                        /\ caller'[c] = "checked" => ~done'[c]
                        /\ caller'[c] = "waiting" /\ ~done'[c] =>
                             \/ \E k \in DOMAIN queue' : queue'[k] # End /\ queue'[k].by = c
                             \/ \E k \in DOMAIN batch' : batch'[k].by = c
      BY DEF CoCalls, Mine
    <2>1. /\ got[c].ok => got[c].rows = Mine(c)
          /\ caller[c] # "idle" => size[c] \in 1..MaxRows
          /\ caller[c] = "checked" => ~done[c]
          /\ caller[c] = "waiting" /\ ~done[c] =>
               \E k \in DOMAIN queue : queue[k] # End /\ queue[k].by = c
      BY <1>3 DEF CoInv, CoCalls
    <2>2. ASSUME caller[c] = "waiting" /\ ~done[c]
          PROVE  \/ \E k \in DOMAIN queue' : queue'[k] # End /\ queue'[k].by = c
                 \/ \E k \in DOMAIN batch' : batch'[k].by = c
      <3>1. PICK k \in DOMAIN queue : queue[k] # End /\ queue[k].by = c
        BY <2>1, <2>2
      <3>2. CASE k = 1
        BY <1>2, <1>4, <3>1, <3>2
      <3>3. CASE k # 1
        BY <1>2, <3>1, <3>3
      <3> QED
        BY <3>2, <3>3
    <2> QED
      BY <1>1, <2>1, <2>2 DEF Mine
  <1>11. Coalescing!EndsAfterServing'
    <2> SUFFICES ASSUME server' = "stopped", NEW c \in Callers, caller'[c] = "waiting", ~done'[c]
                 PROVE  c \in late'
      BY DEF Coalescing!EndsAfterServing
    <2>1. h = End /\ batch' = <<>>
      BY <1>1, <1>4
    <2>2. \E k \in DOMAIN queue' : queue'[k] # End /\ queue'[k].by = c
      BY <1>10, <2>1 DEF CoCalls
    <2> QED
      BY <1>1, <1>7, <2>1, <2>2
  <1> QED
    BY <1>5, <1>6, <1>8, <1>9, <1>10, <1>11 DEF CoInv

LEMMA CoGather ==
  ASSUME CoInv, Coalescing!Gather
  PROVE  CoInv'
PROOF
  <1> DEFINE h == Head(queue)
             t == Tail(queue)
  <1>1. /\ server = "gathering" /\ queue # <<>>
        /\ \/ /\ h = End /\ queue' = Append(t, End)
              /\ server' = "evaluating" /\ batch' = batch
           \/ /\ h # End /\ queue' = t /\ batch' = Append(batch, h) /\ server' = server
        /\ UNCHANGED <<closed, closer, caller, round, size, got, done, late>>
    BY CoSame DEF Coalescing!Gather, Coalescing!calls
  <1>2. /\ h = queue[1] /\ 1 \in DOMAIN queue
        /\ h = End \/ (h \in Requests /\ CoAsked(h))
        /\ t \in Seq(Requests \cup {End})
        /\ \A k \in DOMAIN t : k \in Nat /\ k + 1 \in DOMAIN queue /\ k + 1 > 1 /\ t[k] = queue[k + 1]
        /\ \A k \in DOMAIN queue : k # 1 => k > 1 /\ \E n \in DOMAIN t : k = n + 1
        /\ ~Twice(t) /\ ~Meet(t, batch) /\ Apart(t, h) /\ Apart(batch, h)
    BY <1>1, CoHead
  <1>3. batch \in Seq(Requests) /\ batch # <<>> /\ ~Twice(batch)
          /\ \A k \in DOMAIN batch : CoAsked(batch[k])
    BY <1>1 DEF CoInv, CoTyped, CoStages, CoRequests
  <1>4. \A r : CoAsked(r) => r # End
    BY MarkerAssumption DEF CoAsked, End
  <1> HIDE DEF h, t
  <1>5. ASSUME h # End
        PROVE  CoInv'
    <2>1. /\ queue' = t /\ batch' = Append(batch, h) /\ server' = server /\ h \in Requests /\ CoAsked(h)
      BY <1>1, <1>2, <1>5
    <2> DEFINE b == batch'
    <2>2. b = Append(batch, h)
      BY <2>1
    <2> HIDE DEF b
    <2>3. /\ b \in Seq(Requests) /\ b # <<>> /\ DOMAIN b = 1..Len(batch) + 1
          /\ DOMAIN batch = 1..Len(batch) /\ Len(batch) \in Nat
          /\ \A k \in 1..Len(batch) : b[k] = batch[k]
          /\ b[Len(batch) + 1] = h
      BY <1>3, <2>1, <2>2, AppendAt
    <2>4. /\ \A k \in DOMAIN b : (k \in DOMAIN batch /\ b[k] = batch[k]) \/ b[k] = h
          /\ \A k \in DOMAIN batch : k \in DOMAIN b /\ b[k] = batch[k]
          /\ \E k \in DOMAIN b : b[k] = h
      <3>1. /\ \A k \in 1..Len(batch) + 1 : k \in 1..Len(batch) \/ k = Len(batch) + 1
            /\ \A k \in 1..Len(batch) : k \in 1..Len(batch) + 1
            /\ Len(batch) + 1 \in 1..Len(batch) + 1
        BY <2>3
      <3> QED
        BY <2>3, <3>1
    <2>5. ~Twice(b) /\ ~Meet(t, b)
      BY <1>2, <1>3, <2>1, <2>2, OnceAppend
    <2>6. CoTyped' /\ CoStages'
      BY <1>1, <1>2, <1>3, <2>1, <2>3 DEF CoInv, CoTyped, CoStages, b
    <2>7. CoRequests'
      <3>1. \A k \in DOMAIN queue' : queue'[k] = End \/ CoAsked(queue[k])'
        BY <1>1, <1>2, <2>1 DEF CoInv, CoRequests, CoAsked, Mine
      <3>2. \A k \in DOMAIN b : CoAsked(b[k])
        BY <1>3, <2>1, <2>4
      <3>3. \A k \in DOMAIN batch' : CoAsked(batch[k])'
        BY <1>1, <3>2 DEF b, CoAsked, Mine
      <3> QED
        BY <1>2, <2>1, <2>5, <3>1, <3>3 DEF CoRequests, b
    <2>8. CoEnd'
      <3> SUFFICES ASSUME NEW k \in DOMAIN t, t[k] = End
                   PROVE  closed /\ \A n \in DOMAIN t : n > k => t[n] = End \/ t[n].by \in late
        BY <1>1, <2>1 DEF CoEnd
      <3>1. k + 1 \in DOMAIN queue /\ queue[k + 1] = End /\ k \in Nat
        BY <1>2
      <3>2. closed /\ \A n \in DOMAIN queue : n > k + 1 => queue[n] = End \/ queue[n].by \in late
        BY <3>1 DEF CoInv, CoEnd
      <3>3. \A n \in DOMAIN t : n > k => n + 1 > k + 1 /\ n + 1 \in DOMAIN queue /\ t[n] = queue[n + 1]
        BY <1>2, <3>1
      <3> QED
        BY <3>2, <3>3
    <2>9. CoCalls'
      <3>1. \A k \in DOMAIN queue : queue[k] = h \/ \E n \in DOMAIN t : t[n] = queue[k]
        BY <1>2
      <3> SUFFICES ASSUME NEW c \in Callers
                   PROVE  /\ got'[c].ok => got'[c].rows = RowsOf(c, round'[c], size'[c])
                          /\ caller'[c] # "idle" => size'[c] \in 1..MaxRows
                          /\ caller'[c] = "checked" => ~done'[c]
                          /\ caller'[c] = "waiting" /\ ~done'[c] =>
                               \/ \E k \in DOMAIN t : t[k] # End /\ t[k].by = c
                               \/ \E k \in DOMAIN b : b[k].by = c
        BY <2>1 DEF CoCalls, Mine, b
      <3> QED
        BY <1>1, <2>4, <3>1 DEF CoInv, CoCalls, Mine
    <2>10. Coalescing!EndsAfterServing'
      BY <1>1, <2>1 DEF Coalescing!EndsAfterServing
    <2> QED
      BY <2>6, <2>7, <2>8, <2>9, <2>10 DEF CoInv
  <1>6. ASSUME h = End
        PROVE  CoInv'
    <2>1. queue' = Append(t, End) /\ server' = "evaluating" /\ batch' = batch
      BY <1>1, <1>6
    <2> DEFINE q == queue'
    <2>2. q = Append(t, End) /\ End \in Requests \cup {End}
      BY <2>1
    <2> HIDE DEF q
    <2>3. /\ q \in Seq(Requests \cup {End}) /\ DOMAIN q = 1..Len(t) + 1
          /\ DOMAIN t = 1..Len(t) /\ Len(t) \in Nat
          /\ \A k \in 1..Len(t) : q[k] = t[k]
          /\ q[Len(t) + 1] = End
      BY <1>2, <2>2, AppendAt
    <2>4. /\ \A k \in DOMAIN q : (k \in DOMAIN t /\ q[k] = t[k]) \/ q[k] = End
          /\ \A k \in DOMAIN t : k \in DOMAIN q /\ q[k] = t[k]
      <3>1. /\ \A k \in 1..Len(t) + 1 : k \in 1..Len(t) \/ k = Len(t) + 1
            /\ \A k \in 1..Len(t) : k \in 1..Len(t) + 1
        BY <2>3
      <3> QED
        BY <2>3, <3>1
    <2>5. ~Twice(q) /\ ~Meet(q, batch)
      <3>1. Apart(t, End) /\ Apart(batch, End)
        BY DEF Apart
      <3> QED
        BY <1>2, <2>2, <3>1, OnceAppend
    <2>6. CoTyped' /\ CoStages'
      BY <1>1, <1>3, <2>1, <2>3 DEF CoInv, CoTyped, CoStages, q
    <2>7. CoRequests'
      <3>1. \A k \in DOMAIN t : t[k] = End \/ CoAsked(t[k])
        BY <1>2 DEF CoInv, CoRequests
      <3>2. \A k \in DOMAIN q : q[k] = End \/ CoAsked(q[k])
        BY <2>4, <3>1
      <3>3. \A k \in DOMAIN queue' : queue'[k] = End \/ CoAsked(queue[k])'
        BY <1>1, <3>2 DEF CoAsked, Mine, q
      <3>4. \A k \in DOMAIN batch' : CoAsked(batch[k])'
        BY <1>1, <1>3, <2>1 DEF CoAsked, Mine
      <3> QED
        BY <1>3, <2>1, <2>5, <3>3, <3>4 DEF CoRequests, q
    <2>8. closed /\ \A n \in DOMAIN q : q[n] = End \/ q[n].by \in late
      <3>1. closed /\ \A n \in DOMAIN queue : n > 1 => queue[n] = End \/ queue[n].by \in late
        BY <1>2, <1>6 DEF CoInv, CoEnd
      <3>2. \A n \in DOMAIN t : t[n] = End \/ t[n].by \in late
        BY <1>2, <3>1
      <3> QED
        BY <2>4, <3>1, <3>2
    <2>9. CoEnd'
      BY <1>1, <2>8 DEF CoEnd, q
    <2>10. CoCalls'
      <3>1. \A k \in DOMAIN queue : queue[k] = End \/ \E n \in DOMAIN t : t[n] = queue[k]
        BY <1>2, <1>6
      <3>2. \A k \in DOMAIN queue : queue[k] = End \/ \E n \in DOMAIN q : q[n] = queue[k]
        BY <2>4, <3>1
      <3> SUFFICES ASSUME NEW c \in Callers
                   PROVE  /\ got'[c].ok => got'[c].rows = RowsOf(c, round'[c], size'[c])
                          /\ caller'[c] # "idle" => size'[c] \in 1..MaxRows
                          /\ caller'[c] = "checked" => ~done'[c]
                          /\ caller'[c] = "waiting" /\ ~done'[c] =>
                               \/ \E k \in DOMAIN q : q[k] # End /\ q[k].by = c
                               \/ \E k \in DOMAIN batch : batch[k].by = c
        BY <2>1 DEF CoCalls, Mine, q
      <3> QED
        BY <1>1, <3>2 DEF CoInv, CoCalls, Mine
    <2>11. Coalescing!EndsAfterServing'
      BY <2>1 DEF Coalescing!EndsAfterServing
    <2> QED
      BY <2>6, <2>7, <2>9, <2>10, <2>11 DEF CoInv
  <1> QED
    BY <1>5, <1>6

LEMMA CoSetDone ==
  ASSUME CoInv, Coalescing!SetDone
  PROVE  CoInv'
PROOF
  <1> DEFINE h == Head(batch)
             t == Tail(batch)
             d == h.by
  <1>1. /\ server = "delivering" /\ done' = [done EXCEPT ![d] = TRUE] /\ batch' = t
        /\ server' = IF t = <<>> THEN "getting" ELSE "delivering"
        /\ UNCHANGED <<queue, closed, closer, caller, round, size, got, late>>
    BY DEF Coalescing!SetDone, Coalescing!calls
  <1>2. batch \in Seq(Requests) /\ batch # <<>> /\ ~Twice(batch) /\ ~Meet(queue, batch)
          /\ \A k \in DOMAIN batch : CoAsked(batch[k])
    BY <1>1 DEF CoInv, CoTyped, CoStages, CoRequests
  <1>3. t = Tail(batch)
    OBVIOUS
  <1> HIDE DEF t
  <1>4. /\ Len(batch) \in Nat \ {0} /\ DOMAIN batch = 1..Len(batch) /\ 1 \in DOMAIN batch
        /\ h = batch[1] /\ batch[1] \in Requests
        /\ t \in Seq(Requests) /\ DOMAIN t = 1..Len(batch) - 1
        /\ \A k \in 1..Len(batch) - 1 : t[k] = batch[k + 1] /\ k + 1 \in DOMAIN batch
    BY <1>2, <1>3, TailAt
  <1>5. ~Twice(t) /\ Apart(t, h) /\ ~Meet(queue, t) /\ Apart(queue, h)
    BY <1>2, <1>3, OnceTail
  <1>6. \A k \in DOMAIN batch : k = 1 \/ \E n \in DOMAIN t : t[n] = batch[k]
    <2> SUFFICES ASSUME NEW k \in DOMAIN batch, k # 1
                 PROVE  \E n \in DOMAIN t : t[n] = batch[k]
      OBVIOUS
    <2>1. k - 1 \in 1..Len(batch) - 1 /\ (k - 1) + 1 = k
      BY <1>4
    <2> QED
      BY <1>4, <2>1
  <1>7. CoAsked(h) /\ d \in Callers /\ h # End
    BY <1>2, <1>4, MarkerAssumption DEF CoAsked, End
  <1>8. /\ \A k \in DOMAIN t : CoAsked(t[k]) /\ t[k] # End /\ t[k].by # d
        /\ \A k \in DOMAIN queue : queue[k] # End => queue[k].by # d
    <2>1. \A k \in DOMAIN t : CoAsked(t[k])
      BY <1>2, <1>4
    <2>2. \A k \in DOMAIN t : t[k] # End
      BY <2>1, MarkerAssumption DEF CoAsked, End
    <2> QED
      BY <1>5, <1>7, <2>1, <2>2 DEF Apart
  <1> HIDE DEF h
  <1>9. /\ done' \in [Callers -> BOOLEAN] /\ done'[d]
        /\ \A c \in Callers : c # d => done'[c] = done[c]
    BY <1>1, <1>7 DEF CoInv, CoTyped
  <1> HIDE DEF d
  <1>10. CoTyped' /\ CoStages'
    BY <1>1, <1>2, <1>4, <1>9 DEF CoInv, CoTyped, CoStages
  <1>11. CoRequests'
    <2>1. \A k \in DOMAIN queue : queue[k] = End \/ CoAsked(queue[k])
      BY DEF CoInv, CoRequests
    <2>2. \A k \in DOMAIN queue' : queue'[k] = End \/ CoAsked(queue[k])'
      BY <1>1, <1>8, <1>9, <2>1 DEF CoAsked, Mine
    <2>3. \A k \in DOMAIN batch' : CoAsked(batch[k])'
      BY <1>1, <1>8, <1>9 DEF CoAsked, Mine
    <2> QED
      BY <1>1, <1>5, <2>2, <2>3 DEF CoInv, CoRequests
  <1>12. CoEnd' /\ Coalescing!EndsAfterServing'
    BY <1>1 DEF CoInv, CoEnd, Coalescing!EndsAfterServing
  <1>13. CoCalls'
    <2> SUFFICES ASSUME NEW c \in Callers
                 PROVE  /\ got'[c].ok => got'[c].rows = RowsOf(c, round'[c], size'[c])
                        /\ caller'[c] # "idle" => size'[c] \in 1..MaxRows
                        /\ caller'[c] = "checked" => ~done'[c]
                        /\ caller'[c] = "waiting" /\ ~done'[c] =>
                             \/ \E k \in DOMAIN queue : queue[k] # End /\ queue[k].by = c
                             \/ \E k \in DOMAIN t : t[k].by = c
      BY <1>1 DEF CoCalls, Mine
    <2>1. /\ got[c].ok => got[c].rows = Mine(c)
          /\ caller[c] # "idle" => size[c] \in 1..MaxRows
          /\ caller[c] = "checked" => ~done[c]
          /\ caller[c] = "waiting" /\ ~done[c] =>
               \/ \E k \in DOMAIN queue : queue[k] # End /\ queue[k].by = c
               \/ \E k \in DOMAIN batch : batch[k].by = c
      BY DEF CoInv, CoCalls
    <2>2. CASE c = d
      <3>1. caller[c] = "waiting"
        BY <1>7, <2>2 DEF CoAsked, d
      <3> QED
        BY <1>1, <1>9, <2>1, <2>2, <3>1 DEF Mine
    <2>3. CASE c # d
      <3>1. batch[1].by = d
        BY <1>4 DEF d
      <3> QED
        BY <1>1, <1>6, <1>9, <2>1, <2>3, <3>1 DEF Mine
    <2> QED
      BY <2>2, <2>3
  <1> QED
    BY <1>10, <1>11, <1>12, <1>13 DEF CoInv

LEMMA CoUnchanged ==
  ASSUME CoInv, UNCHANGED <<queue, closed, closer, caller, round, size, got, server, batch, done, late>>
  PROVE  CoInv'
PROOF
  <1>1. /\ CoTyped /\ Coalescing!EndsAfterServing
        /\ CoStages /\ CoRequests /\ CoEnd /\ CoCalls
    BY DEF CoInv
  <1>2. /\ queue' = queue /\ closed' = closed /\ closer' = closer /\ caller' = caller
        /\ round' = round /\ size' = size /\ got' = got /\ server' = server /\ batch' = batch
        /\ done' = done /\ late' = late
    OBVIOUS
  <1>3. CoTyped'
    BY <1>1, <1>2 DEF CoTyped
  <1>4. Coalescing!EndsAfterServing' /\ CoStages'
    BY <1>1, <1>2 DEF Coalescing!EndsAfterServing, CoStages
  <1>5. CoRequests'
    BY <1>1, <1>2 DEF CoRequests, CoAsked, Mine, Twice, Meet
  <1>6. CoEnd'
    BY <1>1, <1>2 DEF CoEnd
  <1>7. CoCalls'
    BY <1>1, <1>2 DEF CoCalls, Mine
  <1> QED
    BY <1>3, <1>4, <1>5, <1>6, <1>7 DEF CoInv

LEMMA CoInductive ==
  ASSUME CoInv, Coalescing!Next
  PROVE  CoInv'
PROOF
  <1>1. ASSUME NEW c \in Callers,
               Coalescing!Evaluate(c) \/ Coalescing!Enqueue(c) \/ Coalescing!Return(c)
        PROVE  CoInv'
    BY <1>1, CoEvaluate, CoEnqueue, CoReturn
  <1> QED
    BY <1>1, CoQuiet, CoModel, CoPutEnd, CoGetFirst, CoGather, CoSetDone
       DEF Coalescing!Next, Coalescing!Proceed, Coalescing!Finish, Coalescing!Serve

----------------------------------------------------------------------------
(* What every service promises.                                            *)

(* The phases of the callers, as the abstract service has them. *)
Phases == [c \in Callers |-> IF c \in DOMAIN caller THEN PhaseIn(c) ELSE "none"]

(* A call goes from one phase to another; o is whether the service is open *)
Goes(p, q, o) ==
    \/ p \in {"none", "answered", "failed"} /\ q = "failed"
    \/ p \in {"none", "answered", "failed"} /\ q = "waiting" /\ o
    \/ p = "waiting" /\ q \in {"answered", "failed"}

LEMMA PromiseKept ==
  ASSUME \/ Phases' = Phases /\ closed' \in {closed, TRUE}
         \/ /\ closed' = closed
            /\ \E c \in Callers : /\ Goes(Phases[c], Phases'[c], ~closed)
                                  /\ \A d \in Callers : d # c => Phases'[d] = Phases[d]
  PROVE  [Abstract!Next]_(Abstract!vars)
PROOF
  <1>1. Abstract!vars = <<Phases, ~closed>> /\ Abstract!vars' = <<Phases', ~closed'>>
    BY DEF Abstract!vars, Phases
  <1>2. CASE Phases' = Phases /\ closed' = closed
    BY <1>1, <1>2
  <1>3. CASE Phases' = Phases /\ closed' = TRUE
    BY <1>3 DEF Abstract!Next, Abstract!Close, Phases
  <1>4. CASE /\ closed' = closed
             /\ \E c \in Callers : /\ Goes(Phases[c], Phases'[c], ~closed)
                                   /\ \A d \in Callers : d # c => Phases'[d] = Phases[d]
    <2>1. PICK c \in Callers : /\ Goes(Phases[c], Phases'[c], ~closed)
                               /\ \A d \in Callers : d # c => Phases'[d] = Phases[d]
      BY <1>4
    <2> DEFINE p == Phases
               q == Phases'
    <2>2. p = [d \in Callers |-> p[d]] /\ q = [d \in Callers |-> q[d]]
      BY DEF Phases
    <2>3. Abstract!Returned = {"none", "answered", "failed"}
      BY DEF Abstract!Returned
    <2>4. Abstract!Next <=>
            \/ (~closed)' = FALSE /\ q = p
            \/ \E d \in Callers :
                 \/ p[d] \in Abstract!Returned /\ ~closed /\ q = [p EXCEPT ![d] = "waiting"] /\ (~closed)' = ~closed
                 \/ p[d] \in Abstract!Returned /\ q = [p EXCEPT ![d] = "failed"] /\ (~closed)' = ~closed
                 \/ p[d] = "waiting" /\ q = [p EXCEPT ![d] = "answered"] /\ (~closed)' = ~closed
                 \/ p[d] = "waiting" /\ q = [p EXCEPT ![d] = "failed"] /\ (~closed)' = ~closed
      BY DEF Abstract!Next, Abstract!Close, Abstract!Ask, Abstract!Refuse, Abstract!Answer,
             Abstract!Fail, Abstract!Becomes, Phases
    <2>5. Goes(p[c], q[c], ~closed) /\ \A d \in Callers : d # c => q[d] = p[d]
      BY <2>1
    <2> HIDE DEF p, q
    <2>6. q = [p EXCEPT ![c] = q[c]]
      BY <2>2, <2>5
    <2>7. (~closed)' = ~closed
      BY <1>4
    <2> QED
      BY <2>3, <2>4, <2>5, <2>6, <2>7 DEF Goes
  <1> QED
    BY <1>2, <1>3, <1>4

(* The phases of the coalescing service. *)
CoPhase(c) == PhaseOf(caller[c] # "idle", c, round[c], size[c], got[c])

LEMMA CoPhases ==
  /\ CoTyped /\ which = "coalescing" => Phases = [c \in Callers |-> CoPhase(c)]
  /\ CoTyped' /\ which' = "coalescing" => Phases' = [c \in Callers |-> CoPhase(c)']
PROOF
  <1>1. \A b, c, k, n, g : Coalescing!PhaseOf(b, c, k, n, g) = PhaseOf(b, c, k, n, g)
    BY CoSame DEF Coalescing!PhaseOf, PhaseOf
  <1>2. ASSUME CoTyped, which = "coalescing"
        PROVE  Phases = [c \in Callers |-> CoPhase(c)]
    <2>1. DOMAIN caller = Callers
      BY <1>2 DEF CoTyped
    <2>2. \A c \in Callers : PhaseIn(c) = CoPhase(c)
      BY <1>1, <1>2 DEF PhaseIn, Coalescing!Phase, CoPhase
    <2> QED
      BY <2>1, <2>2 DEF Phases
  <1>3. ASSUME CoTyped', which' = "coalescing"
        PROVE  Phases' = [c \in Callers |-> CoPhase(c)']
    <2>1. DOMAIN caller' = Callers
      BY <1>3 DEF CoTyped
    <2>2. \A c \in Callers : PhaseIn(c)' = CoPhase(c)'
      BY <1>1, <1>3 DEF PhaseIn, Coalescing!Phase, CoPhase
    <2> QED
      BY <2>1, <2>2 DEF Phases
  <1> QED
    BY <1>2, <1>3

LEMMA CoPromise ==
  ASSUME CoInv, CoInv', which = "coalescing", which' = "coalescing", Coalescing!Next
  PROVE  [Abstract!Next]_(Abstract!vars)
PROOF
  <1> DEFINE p == Phases
             q == Phases'
  <1>1. p = [c \in Callers |-> CoPhase(c)]
    BY CoPhases DEF CoInv
  <1>2. q = [c \in Callers |-> CoPhase(c)']
    BY CoPhases DEF CoInv
  <1>3. \A c \in Callers : p[c] = CoPhase(c) /\ q[c] = CoPhase(c)'
    BY <1>1, <1>2
  <1>4. ASSUME \A c \in Callers : CoPhase(c)' = CoPhase(c)
        PROVE  p = q
    BY <1>1, <1>2, <1>4
  <1> HIDE DEF p, q
  <1>5. closed \in BOOLEAN
    BY DEF CoInv, CoTyped
  <1>6. \A c \in Callers : caller[c] = "idle" => CoPhase(c) \in {"none", "answered", "failed"}
    BY DEF CoInv, CoCalls, CoPhase, PhaseOf, Mine
  <1>7. \A c \in Callers : caller[c] # "idle" => CoPhase(c) = "waiting"
    BY DEF CoPhase, PhaseOf
  <1>8. \A c \in Callers : caller'[c] # "idle" => CoPhase(c)' = "waiting"
    BY DEF CoPhase, PhaseOf
  <1>9. \A c \in Callers : caller'[c] = "idle" /\ round'[c] # 0 =>
           CoPhase(c)' = IF got'[c].ok THEN "answered" ELSE "failed"
    BY DEF CoInv, CoCalls, CoPhase, PhaseOf, Mine
  <1>10. ASSUME NEW c \in Callers, Goes(p[c], q[c], ~closed), closed' = closed,
                \A d \in Callers : d # c => CoPhase(d)' = CoPhase(d)
         PROVE  [Abstract!Next]_(Abstract!vars)
    <2>1. /\ Goes(Phases[c], Phases'[c], ~closed)
          /\ \A d \in Callers : d # c => Phases'[d] = Phases[d]
      BY <1>3, <1>10 DEF p, q
    <2> QED
      BY <1>10, <2>1, PromiseKept
  <1>11. ASSUME closed' \in {closed, TRUE}, \A c \in Callers : CoPhase(c)' = CoPhase(c)
         PROVE  [Abstract!Next]_(Abstract!vars)
    <2>1. Phases' = Phases
      BY <1>4, <1>11 DEF p, q
    <2> QED
      BY <1>11, <2>1, PromiseKept
  <1>12. ASSUME NEW c \in Callers, Coalescing!Evaluate(c)
         PROVE  [Abstract!Next]_(Abstract!vars)
    <2>1. /\ caller[c] = "idle" /\ closed' = closed
          /\ \A d \in Callers : d # c => /\ caller'[d] = caller[d] /\ round'[d] = round[d]
                                         /\ size'[d] = size[d] /\ got'[d] = got[d]
          /\ caller'[c] = IF closed THEN "idle" ELSE "checked"
          /\ got'[c] = Error /\ round'[c] = round[c] + 1 /\ round[c] \in Nat
      BY <1>12, CoSame DEF CoInv, CoTyped, Coalescing!Evaluate
    <2>2. round'[c] # 0 /\ ~Error.ok
      BY <2>1 DEF Error
    <2>3. Goes(p[c], q[c], ~closed)
      BY <1>3, <1>5, <1>6, <1>8, <1>9, <2>1, <2>2 DEF Goes
    <2>4. \A d \in Callers : d # c => CoPhase(d)' = CoPhase(d)
      BY <2>1 DEF CoPhase
    <2> QED
      BY <1>10, <2>1, <2>3, <2>4
  <1>13. ASSUME NEW c \in Callers, Coalescing!Return(c)
         PROVE  [Abstract!Next]_(Abstract!vars)
    <2>1. /\ caller[c] = "waiting" /\ closed' = closed
          /\ \A d \in Callers : d # c => /\ caller'[d] = caller[d]
          /\ UNCHANGED <<round, size, got>>
          /\ caller'[c] = "idle" /\ round[c] # 0
      BY <1>13 DEF CoInv, CoTyped, Coalescing!Return
    <2>2. Goes(p[c], q[c], ~closed)
      BY <1>3, <1>7, <1>9, <2>1 DEF Goes
    <2>3. \A d \in Callers : d # c => CoPhase(d)' = CoPhase(d)
      BY <2>1 DEF CoPhase
    <2> QED
      BY <1>10, <2>1, <2>2, <2>3
  <1>14. ASSUME NEW c \in Callers, Coalescing!Enqueue(c)
         PROVE  [Abstract!Next]_(Abstract!vars)
    <2>1. /\ \A d \in Callers : caller'[d] = caller[d] \/ (caller[d] # "idle" /\ caller'[d] # "idle")
          /\ UNCHANGED <<round, size, got, closed>>
      BY <1>14 DEF CoInv, CoTyped, Coalescing!Enqueue
    <2>2. \A d \in Callers : CoPhase(d)' = CoPhase(d)
      BY <1>7, <1>8, <2>1 DEF CoPhase
    <2> QED
      BY <1>11, <2>1, <2>2
  <1>15. ASSUME Coalescing!Succeed \/ Coalescing!Raise
         PROVE  [Abstract!Next]_(Abstract!vars)
    <2>1. UNCHANGED <<caller, round, size, closed>>
      BY <1>15 DEF Coalescing!Succeed, Coalescing!Raise, Coalescing!calls
    <2>2. \A c \in Callers : c \in Coalescing!Everyone \/ got'[c] = got[c]
      BY <1>15 DEF Coalescing!Succeed, Coalescing!Raise
    <2>3. \A c \in Callers : c \in Coalescing!Everyone => caller[c] # "idle"
      BY DEF Coalescing!Everyone, Coalescing!Range, CoInv, CoRequests, CoAsked
    <2>4. \A d \in Callers : CoPhase(d)' = CoPhase(d)
      BY <1>7, <1>8, <2>1, <2>2, <2>3 DEF CoPhase
    <2> QED
      BY <1>11, <2>1, <2>4
  <1>16. ASSUME UNCHANGED <<caller, round, size, got>>, closed' \in {closed, TRUE}
         PROVE  [Abstract!Next]_(Abstract!vars)
    <2>1. \A d \in Callers : CoPhase(d)' = CoPhase(d)
      BY <1>16 DEF CoPhase
    <2> QED
      BY <1>11, <1>16, <2>1
  <1>17. ASSUME \/ Coalescing!Close \/ Coalescing!PutEnd \/ Coalescing!Join
                \/ Coalescing!GetFirst \/ Coalescing!Gather \/ Coalescing!EndGathering
                \/ Coalescing!SetDone
         PROVE  [Abstract!Next]_(Abstract!vars)
    <2>1. UNCHANGED <<caller, round, size, got>> /\ closed' \in {closed, TRUE}
      BY <1>17 DEF Coalescing!Close, Coalescing!PutEnd, Coalescing!Join, Coalescing!GetFirst,
                   Coalescing!Gather, Coalescing!EndGathering, Coalescing!SetDone,
                   Coalescing!calls, Coalescing!service
    <2> QED
      BY <1>16, <2>1
  <1> QED
    BY <1>12, <1>13, <1>14, <1>15, <1>17
       DEF Coalescing!Next, Coalescing!Proceed, Coalescing!Finish, Coalescing!Serve

----------------------------------------------------------------------------
(* The batching service.                                                   *)

(* The future of a call that nobody has answered. *)
Unanswered == [ok |-> FALSE, rows |-> <<Row("none", 0, 0)>>]

(* Where the chunk after the first start rows ends. *)
ChunkEnd(start, n) == IF start + MaxBatch < n THEN start + MaxBatch ELSE n

ChunkOf(s, start, n) == SubSeq(s, start + 1, ChunkEnd(start, n))
FirstOf(s, n) == SubSeq(s, 1, n)

(* The next chunk of a thread's call. *)
NextRows(c) == ChunkOf(Mine(c), Len(got[c].rows), size[c])

BaTyped ==
    /\ queue \in Seq(Requests \cup {End})
    /\ closed \in BOOLEAN
    /\ closer \in {"open", "closing", "joining", "closed"}
    /\ caller \in [Callers -> {"idle", "entering", "blocked", "waiting"}]
    /\ round \in [Callers -> Nat] /\ \A c \in Callers : round[c] <= MaxCalls[c]
    /\ \A c \in Callers : caller[c] # "idle" => round[c] # 0
    /\ size \in [Callers -> 0..MaxRows]
    /\ got \in [Callers -> Outcomes]
    /\ future \in [Callers -> Outcomes \cup {Unanswered}]
    /\ pendingRows \in 0..MaxPending
    /\ server \in {"getting", "gathering", "evaluating", "delivering", "stopped"}
    /\ batch \in Seq(Requests) /\ RowCount(batch) <= MaxBatch
    /\ settled \in 0..Len(batch)
    /\ answer \in Outcomes
    /\ carry \in Seq(Requests) /\ Len(carry) <= 1
    /\ stopping \in BOOLEAN
    /\ pendingRows = RowCount(queue) + RowCount(carry) + RowCount(batch)

BaStages ==
    /\ server \in {"getting", "stopped"} => batch = <<>>
    /\ server # "delivering" => settled = 0
    /\ server = "gathering" => carry = <<>>
    /\ server = "delivering" /\ answer.ok => answer.rows = Joined(batch)

(* A request whose caller waits for it. *)
BaOffered(r) ==
    /\ r.by \in Callers
    /\ caller[r.by] = "waiting" /\ future[r.by] = Unanswered
    /\ r = Request(r.by, NextRows(r.by))
    /\ Len(r.rows) \in 1..MaxBatch

(* The requests of the batch whose futures are not set. *)
OpenAt == settled + 1..Len(batch)

BaRequests ==
    /\ \A k \in DOMAIN queue : queue[k] = End \/ BaOffered(queue[k])
    /\ \A k \in DOMAIN carry : BaOffered(carry[k])
    /\ \A k \in OpenAt : BaOffered(batch[k])

BaApart ==
    /\ ~Twice(queue)
    /\ \A k \in DOMAIN queue, n \in DOMAIN carry : queue[k] # End => queue[k].by # carry[n].by
    /\ \A k, n \in OpenAt : k # n => batch[k].by # batch[n].by
    /\ \A k \in DOMAIN queue, n \in OpenAt : queue[k] # End => queue[k].by # batch[n].by
    /\ \A k \in DOMAIN carry, n \in OpenAt : carry[k].by # batch[n].by

BaCalls ==
    \A c \in Callers :
         /\ caller[c] = "idle" /\ got[c].ok => got[c].rows = Mine(c)
         /\ caller[c] # "idle" =>
              /\ size[c] \in 1..MaxRows
              /\ Len(got[c].rows) < size[c]
              /\ got[c].rows = FirstOf(Mine(c), Len(got[c].rows))
         /\ future[c] # Unanswered =>
              /\ caller[c] = "waiting"
              /\ future[c].ok => future[c].rows = NextRows(c)

BaInv == BaTyped /\ BaStages /\ BaRequests /\ BaApart /\ BaCalls

LEMMA BaSame ==
  /\ Batching!Rows = Rows /\ Batching!Requests = Requests
  /\ Batching!End = End /\ Batching!Error = Error /\ Batching!Outcomes = Outcomes
  /\ Batching!Unset = Unanswered
  /\ \A c, k, n : Batching!RowsOf(c, k, n) = RowsOf(c, k, n)
  /\ \A c, rows : Batching!Request(c, rows) = Request(c, rows)
  /\ \A rows : Batching!Result(rows) = Result(rows)
  /\ \A s : Batching!Joined(s) = Joined(s)
  /\ \A s : Batching!RowCount(s) = RowCount(s)
  /\ \A s, results, k : Batching!Slice(results, s, k) = Slice(results, s, k)
  /\ \A b, c, k, n, g : Batching!PhaseOf(b, c, k, n, g) = PhaseOf(b, c, k, n, g)
PROOF
  <1>1. Batching!Rows = Rows
    BY DEF Batching!Rows, Rows
  <1>2. Batching!Requests = Requests
    BY <1>1 DEF Batching!Requests, Requests
  <1>3. Batching!End = End /\ Batching!Error = Error /\ Batching!Unset = Unanswered
    BY DEF Batching!End, End, Batching!Error, Error, Batching!Unset, Unanswered, Batching!Row, Row
  <1>4. Batching!Outcomes = Outcomes
    BY <1>1 DEF Batching!Outcomes, Outcomes
  <1>5. \A c, k, n : Batching!RowsOf(c, k, n) = RowsOf(c, k, n)
    BY DEF Batching!RowsOf, RowsOf, Batching!Row, Row
  <1>6. /\ \A c, rows : Batching!Request(c, rows) = Request(c, rows)
        /\ \A rows : Batching!Result(rows) = Result(rows)
    BY DEF Batching!Request, Request, Batching!Result, Result
  <1>7. \A s : Batching!Joined(s) = Joined(s)
    BY DEF Batching!Joined, Joined
  <1>8. \A s : Batching!RowCount(s) = RowCount(s)
    BY <1>7 DEF Batching!RowCount, RowCount
  <1>9. \A s, results, k : Batching!Slice(results, s, k) = Slice(results, s, k)
    BY <1>8 DEF Batching!Slice, Slice
  <1>10. \A b, c, k, n, g : Batching!PhaseOf(b, c, k, n, g) = PhaseOf(b, c, k, n, g)
    BY <1>5 DEF Batching!PhaseOf, PhaseOf
  <1> QED
    BY <1>1, <1>2, <1>3, <1>4, <1>5, <1>6, <1>7, <1>8, <1>9, <1>10

LEMMA BaTypeOK ==
  BaTyped => Batching!TypeOK /\ Batching!RowsAccounted
PROOF
  <1> SUFFICES ASSUME BaTyped PROVE Batching!TypeOK /\ Batching!RowsAccounted
    OBVIOUS
  <1>1. \A c \in Callers : round[c] \in 0..MaxCalls[c]
    <2>1. \A c \in Callers : round[c] \in Nat /\ round[c] <= MaxCalls[c]
      BY DEF BaTyped
    <2> QED
      BY <2>1, Bounds
  <1> QED
    BY <1>1, BaSame DEF BaTyped, Batching!TypeOK, Batching!RowsAccounted

LEMMA EmptyCounts ==
  RowCount(<<>>) = 0 /\ <<>> \in Seq(Requests) /\ Len(<<>>) = 0
PROOF
  <1>1. <<>> \in Seq(Requests) /\ Len(<<>>) = 0
    BY EmptySeq
  <1> QED
    BY <1>1, JoinedNone DEF RowCount

LEMMA RowCountAppend ==
  ASSUME NEW S, NEW R, Carriers(R, S), NEW s \in Seq(R), NEW r \in R
  PROVE  Len(r.rows) \in Nat /\ RowCount(Append(s, r)) = RowCount(s) + Len(r.rows)
PROOF
  <1>1. r.rows \in Seq(S)
    BY DEF Carriers
  <1>2. Joined(s) \in Seq(S)
    BY JoinedConcat
  <1>3. Joined(Append(s, r)) = Joined(s) \o r.rows
    BY JoinedAppend
  <1>4. Len(Joined(s) \o r.rows) = Len(Joined(s)) + Len(r.rows)
    BY <1>1, <1>2, ConcatProperties
  <1> QED
    BY <1>1, <1>3, <1>4, LenProperties DEF RowCount

LEMMA QueueCounts ==
  ASSUME NEW s \in Seq(Requests \cup {End})
  PROVE  /\ RowCount(s) \in Nat
         /\ \A r \in Requests \cup {End} :
               Len(r.rows) \in Nat /\ RowCount(Append(s, r)) = RowCount(s) + Len(r.rows)
         /\ s # <<>> => RowCount(s) = Len(Head(s).rows) + RowCount(Tail(s))
PROOF
  <1>1. Carriers(Requests \cup {End}, Rows)
    BY RequestsCarry
  <1>2. PICK R : R = Requests \cup {End}
    OBVIOUS
  <1>3. Carriers(R, Rows) /\ s \in Seq(R)
    BY <1>1, <1>2
  <1>4. /\ RowCount(s) \in Nat
        /\ s # <<>> => RowCount(s) = Len(Head(s).rows) + RowCount(Tail(s))
    BY <1>3, RowCounts
  <1>5. ASSUME NEW r \in R
        PROVE  Len(r.rows) \in Nat /\ RowCount(Append(s, r)) = RowCount(s) + Len(r.rows)
    BY <1>3, <1>5, RowCountAppend
  <1> QED
    BY <1>2, <1>4, <1>5

LEMMA BatchCounts ==
  ASSUME NEW s \in Seq(Requests)
  PROVE  /\ RowCount(s) \in Nat
         /\ \A r \in Requests : /\ Len(r.rows) \in Nat
                                 /\ RowCount(<<r>>) = Len(r.rows)
                                 /\ RowCount(Append(s, r)) = RowCount(s) + Len(r.rows)
PROOF
  <1>1. Carriers(Requests, Rows)
    BY RequestsCarry
  <1>2. PICK R : R = Requests
    OBVIOUS
  <1>3. Carriers(R, Rows) /\ s \in Seq(R)
    BY <1>1, <1>2
  <1>4. RowCount(s) \in Nat
    BY <1>3, RowCounts
  <1>5. ASSUME NEW r \in R
        PROVE  Len(r.rows) \in Nat /\ RowCount(Append(s, r)) = RowCount(s) + Len(r.rows)
    BY <1>3, <1>5, RowCountAppend
  <1>6. ASSUME NEW r \in R
        PROVE  RowCount(<<r>>) = Len(r.rows)
    <2>1. Joined(<<r>>) = r.rows
      BY <1>3, <1>6, JoinedOne
    <2> QED
      BY <2>1 DEF RowCount
  <1> QED
    BY <1>2, <1>4, <1>5, <1>6

LEMMA BaInit ==
  Batching!Init => BaInv
PROOF
  <1> SUFFICES ASSUME Batching!Init PROVE BaInv
    OBVIOUS
  <1>1. Error \in Outcomes /\ ~Error.ok
    BY EmptySeq DEF Error, Outcomes
  <1>2. queue = <<>> /\ batch = <<>> /\ carry = <<>> /\ settled = 0 /\ pendingRows = 0
        /\ queue \in Seq(Requests \cup {End})
    BY EmptySeq DEF Batching!Init
  <1>3. got = [c \in Callers |-> Error] /\ future = [c \in Callers |-> Unanswered] /\ answer = Error
    BY BaSame DEF Batching!Init
  <1>4. BaTyped
    <2>1. 0 \in 0..MaxPending /\ 0 <= MaxBatch /\ 0 \in 0..Len(<<>>) /\ Len(<<>>) <= 1
      BY Bounds, EmptyCounts
    <2>2. /\ caller = [c \in Callers |-> "idle"] /\ round = [c \in Callers |-> 0]
          /\ size = [c \in Callers |-> 0] /\ closed = FALSE /\ closer = "open"
          /\ server = "getting" /\ stopping = FALSE
      BY DEF Batching!Init
    <2>3. RowCount(queue) = 0 /\ RowCount(carry) = 0 /\ RowCount(batch) = 0 /\ 0 + 0 + 0 = 0
      BY <1>2, EmptyCounts
    <2> QED
      BY <1>1, <1>2, <1>3, <2>1, <2>2, <2>3, Bounds, EmptyCounts DEF BaTyped
  <1>5. \A k \in OpenAt : FALSE
    BY <1>2, EmptyCounts DEF OpenAt
  <1>6. BaStages /\ BaRequests /\ BaApart
    BY <1>2, <1>5 DEF Batching!Init, BaStages, BaRequests, BaApart, Twice
  <1>7. BaCalls
    BY <1>1, <1>3 DEF Batching!Init, BaCalls
  <1> QED
    BY <1>4, <1>6, <1>7 DEF BaInv

(* A call of n rows that has its first rows already, and its next chunk. *)
LEMMA ChunkIs ==
  ASSUME NEW s \in Seq(Rows), NEW n \in Nat, Len(s) = n, NEW start \in Nat, start < n
  PROVE  /\ ChunkOf(s, start, n) \in Seq(Rows)
         /\ Len(ChunkOf(s, start, n)) \in 1..MaxBatch
         /\ FirstOf(s, start) \in Seq(Rows) /\ Len(FirstOf(s, start)) = start
         /\ FirstOf(FirstOf(s, start), start) = FirstOf(s, start)
         /\ FirstOf(s, start) \o ChunkOf(s, start, n) \in Seq(Rows)
         /\ FirstOf(s, start) \o ChunkOf(s, start, n) =
               FirstOf(s, Len(FirstOf(s, start) \o ChunkOf(s, start, n)))
         /\ ~(Len(FirstOf(s, start) \o ChunkOf(s, start, n)) < n) =>
               FirstOf(s, start) \o ChunkOf(s, start, n) = s
PROOF
  <1> DEFINE e == ChunkEnd(start, n)
  <1>1. n \in Nat /\ \A i \in 1..n : s[i] \in Rows
    BY LenProperties, ElementOfSeq
  <1>2. e \in Nat /\ start < e /\ e <= n /\ e - (start + 1) + 1 \in 1..MaxBatch
    BY <1>1, Bounds DEF ChunkEnd
  <1>3. /\ \A i \in start + 1..e : i \in 1..n
        /\ \A i \in 1..start : i \in 1..n
        /\ \A i \in 1..e : i \in 1..n
    BY <1>1, <1>2
  <1>4. /\ SubSeq(s, start + 1, e) \in Seq(Rows)
        /\ Len(SubSeq(s, start + 1, e)) = IF start + 1 <= e THEN e - (start + 1) + 1 ELSE 0
    BY <1>1, <1>2, <1>3, SubSeqProperties
  <1>5. /\ SubSeq(s, 1, start) \in Seq(Rows)
        /\ Len(SubSeq(s, 1, start)) = IF 1 <= start THEN start - 1 + 1 ELSE 0
    BY <1>1, <1>3, SubSeqProperties
  <1>6. /\ SubSeq(s, 1, e) \in Seq(Rows)
        /\ Len(SubSeq(s, 1, e)) = IF 1 <= e THEN e - 1 + 1 ELSE 0
    BY <1>1, <1>2, <1>3, SubSeqProperties
  <1>7. Len(SubSeq(s, start + 1, e)) \in 1..MaxBatch
    <2>1. start + 1 <= e
      BY <1>2
    <2> QED
      BY <1>2, <1>4, <2>1
  <1>8. Len(SubSeq(s, 1, start)) = start /\ Len(SubSeq(s, 1, e)) = e
    BY <1>2, <1>5, <1>6
  <1>9. SubSeq(s, 1, start) \o SubSeq(s, start + 1, e) = SubSeq(s, 1, e)
    <2>1. 1 \in 1..Len(s) + 1 /\ start \in 1 - 1..Len(s) /\ e \in start..Len(s)
      BY <1>1, <1>2
    <2> QED
      BY <2>1, ConcatAdjacentSubSeq
  <1>10. e = n => SubSeq(s, 1, e) = s
    BY SubSeqFull
  <1>11. SubSeq(SubSeq(s, 1, start), 1, start) = SubSeq(s, 1, start)
    <2> DEFINE t == SubSeq(s, 1, start)
    <2>1. t \in Seq(Rows) /\ Len(t) = start
      BY <1>5, <1>8
    <2> HIDE DEF t
    <2>2. SubSeq(t, 1, Len(t)) = t
      BY <2>1, SubSeqFull
    <2> QED
      BY <2>1, <2>2 DEF t
  <1>12. ~(e < n) => e = n
    BY <1>1, <1>2
  <1>13. ChunkOf(s, start, n) = SubSeq(s, start + 1, e)
    BY DEF ChunkOf
  <1> HIDE DEF e
  <1> QED
    BY <1>4, <1>5, <1>6, <1>7, <1>8, <1>9, <1>10, <1>11, <1>12, <1>13 DEF FirstOf

LEMMA MineIs ==
  ASSUME NEW c \in Callers, NEW k \in Nat, NEW n \in 0..MaxRows
  PROVE  RowsOf(c, k, n) \in Seq(Rows) /\ Len(RowsOf(c, k, n)) = n /\ n \in Nat
PROOF
  <1>1. n \in Nat
    BY Bounds
  <1> QED
    BY <1>1, RowsTyped, RowsOfOne

(* Nobody has asked for c. *)
LEMMA BaNotAsked ==
  ASSUME BaInv, NEW c \in Callers, caller[c] # "waiting" \/ future[c] # Unanswered
  PROVE  /\ \A k \in DOMAIN queue : queue[k] # End => queue[k].by # c
         /\ \A k \in DOMAIN carry : carry[k].by # c
         /\ \A k \in OpenAt : batch[k].by # c
BY DEF BaInv, BaRequests, BaOffered

(* A chunk is offered: it is refused, has to wait, or is put into the queue. *)
LEMMA BaOffer ==
  ASSUME BaInv, NEW c \in Callers, NEW n \in 1..MaxRows, NEW start \in Nat, start < n,
         caller[c] \in {"idle", "entering"},
         round' \in [Callers -> Nat], round'[c] # 0,
         \A d \in Callers : round'[d] <= MaxCalls[d],
         size' \in [Callers -> 0..MaxRows], size'[c] = n,
         \A d \in Callers : d # c => round'[d] = round[d] /\ size'[d] = size[d],
         FirstOf(got[c].rows, start) = FirstOf(RowsOf(c, round'[c], n), start),
         UNCHANGED <<closed, closer, server, settled, batch, answer, carry, stopping>>,
         Batching!Offer(c, n, start)
  PROVE  BaInv'
PROOF
  <1>0. PICK m : m = RowsOf(c, round'[c], n)
    OBVIOUS
  <1> DEFINE rows == ChunkOf(m, start, n)
             first == FirstOf(m, start)
             r == Request(c, rows)
  <1>1. m \in Seq(Rows) /\ Len(m) = n /\ n \in Nat
    <2>1. round'[c] \in Nat /\ n \in 0..MaxRows
      BY Bounds
    <2> QED
      BY <1>0, <2>1, MineIs
  <1>2. /\ rows \in Seq(Rows) /\ Len(rows) \in 1..MaxBatch
        /\ first \in Seq(Rows) /\ Len(first) = start
        /\ FirstOf(first, start) = first
    BY <1>1, ChunkIs
  <1>3. Batching!Chunk(c, n, start) = rows
    BY <1>0, BaSame DEF Batching!Chunk, ChunkOf, ChunkEnd
  <1>4. /\ \/ /\ caller' = [caller EXCEPT ![c] = "idle"]
              /\ got' = [got EXCEPT ![c] = Error]
              /\ UNCHANGED <<queue, future, pendingRows>>
           \/ /\ caller' = [caller EXCEPT ![c] = "blocked"]
              /\ got' = [got EXCEPT ![c] = Result(first)]
              /\ UNCHANGED <<queue, future, pendingRows>>
           \/ /\ pendingRows + Len(rows) <= MaxPending
              /\ caller' = [caller EXCEPT ![c] = "waiting"]
              /\ got' = [got EXCEPT ![c] = Result(first)]
              /\ pendingRows' = pendingRows + Len(rows)
              /\ queue' = Append(queue, r)
              /\ future' = [future EXCEPT ![c] = Unanswered]
    BY <1>0, <1>3, BaSame DEF Batching!Offer, FirstOf
  <1> HIDE DEF rows, first
  <1>5. Error \in Outcomes /\ ~Error.ok /\ Result(first) \in Outcomes /\ Result(first).rows = first
    BY <1>2, EmptySeq DEF Error, Outcomes, Result
  <1>6. /\ caller \in [Callers -> {"idle", "entering", "blocked", "waiting"}]
        /\ got \in [Callers -> Outcomes] /\ future \in [Callers -> Outcomes \cup {Unanswered}]
    BY DEF BaInv, BaTyped
  <1>7. /\ caller' \in [Callers -> {"idle", "entering", "blocked", "waiting"}]
        /\ got' \in [Callers -> Outcomes] /\ future' \in [Callers -> Outcomes \cup {Unanswered}]
        /\ \A d \in Callers : d # c =>
              caller'[d] = caller[d] /\ got'[d] = got[d] /\ future'[d] = future[d]
    BY <1>4, <1>5, <1>6
  <1>8. future[c] = Unanswered /\ future'[c] = Unanswered
    BY <1>4, <1>6 DEF BaInv, BaCalls
  <1>9. /\ \A k \in DOMAIN queue : queue[k] # End => queue[k].by # c
        /\ \A k \in DOMAIN carry : carry[k].by # c
        /\ \A k \in OpenAt : batch[k].by # c
    BY BaNotAsked
  <1>10. OpenAt' = OpenAt
    BY DEF OpenAt
  <1>11. /\ \A k \in DOMAIN queue : queue[k] = End \/ BaOffered(queue[k])
         /\ \A k \in DOMAIN carry : BaOffered(carry[k])
         /\ \A k \in OpenAt : BaOffered(batch[k])
    BY DEF BaInv, BaRequests
  <1>12. ASSUME NEW q, BaOffered(q), q.by # c
         PROVE  /\ q.by \in Callers /\ caller'[q.by] = "waiting" /\ future'[q.by] = Unanswered
                /\ q = Request(q.by, ChunkOf(RowsOf(q.by, round'[q.by], size'[q.by]),
                                             Len(got'[q.by].rows), size'[q.by]))
                /\ Len(q.rows) \in 1..MaxBatch
    BY <1>7, <1>12 DEF BaOffered, NextRows, Mine
  <1>13. /\ \A k \in DOMAIN carry' : BaOffered(carry[k])'
         /\ \A k \in OpenAt' : BaOffered(batch[k])'
    BY <1>9, <1>10, <1>11, <1>12 DEF BaOffered, NextRows, Mine
  <1>14. BaStages'
    BY DEF BaInv, BaStages
  <1>15. ASSUME NEW d \in Callers, d # c
         PROVE  /\ caller'[d] = "idle" /\ got'[d].ok => got'[d].rows = Mine(d)'
                /\ caller'[d] # "idle" =>
                     /\ size'[d] \in 1..MaxRows
                     /\ Len(got'[d].rows) < size'[d]
                     /\ got'[d].rows = FirstOf(Mine(d)', Len(got'[d].rows))
                /\ future'[d] # Unanswered =>
                     /\ caller'[d] = "waiting"
                     /\ future'[d].ok => future'[d].rows = NextRows(d)'
    <2>1. Mine(d)' = Mine(d) /\ size'[d] = size[d] /\ got'[d] = got[d]
      BY <1>7, <1>15 DEF Mine
    <2>2. NextRows(d)' = NextRows(d)
      BY <2>1 DEF NextRows
    <2> QED
      BY <1>7, <1>15, <2>1, <2>2 DEF BaInv, BaCalls
  <1>16. BaCalls'
    <2>1. /\ caller'[c] = "idle" /\ got'[c].ok => got'[c].rows = Mine(c)'
          /\ caller'[c] # "idle" =>
               /\ size'[c] \in 1..MaxRows
               /\ Len(got'[c].rows) < size'[c]
               /\ got'[c].rows = FirstOf(Mine(c)', Len(got'[c].rows))
      <3>1. Mine(c)' = m
        BY <1>0 DEF Mine
      <3>2. \/ caller'[c] = "idle" /\ got'[c] = Error
            \/ caller'[c] # "idle" /\ got'[c] = Result(first)
        BY <1>4, <1>6
      <3>3. CASE caller'[c] = "idle" /\ got'[c] = Error
        BY <1>5, <3>3
      <3>4. CASE caller'[c] # "idle" /\ got'[c] = Result(first)
        BY <1>2, <1>5, <3>1, <3>4 DEF first
      <3> QED
        BY <3>2, <3>3, <3>4
    <2> QED
      BY <1>8, <1>15, <2>1 DEF BaCalls
  <1>17. \A d \in Callers : caller'[d] # "idle" => round'[d] # 0
    BY <1>7 DEF BaInv, BaTyped
  <1>18. CASE UNCHANGED <<queue, future, pendingRows>>
    <2>1. BaTyped'
      BY <1>7, <1>17, <1>18 DEF BaInv, BaTyped
    <2>2. \A k \in DOMAIN queue' : queue'[k] = End \/ BaOffered(queue[k])'
      BY <1>9, <1>11, <1>12, <1>18 DEF BaOffered, NextRows, Mine
    <2>3. BaApart'
      BY <1>10, <1>18 DEF BaInv, BaApart, Twice
    <2> QED
      BY <1>13, <1>14, <1>16, <2>1, <2>2, <2>3 DEF BaInv, BaRequests
  <1>19. CASE /\ pendingRows + Len(rows) <= MaxPending
              /\ caller'[c] = "waiting" /\ got'[c] = Result(first)
              /\ pendingRows' = pendingRows + Len(rows)
              /\ queue' = Append(queue, r)
    <2> DEFINE q == queue'
    <2>1. r.by = c /\ r.rows = rows /\ r \in Requests /\ r \in Requests \cup {End} /\ r # End
      BY <1>2, MarkerAssumption DEF Request, Requests, End
    <2>2. queue \in Seq(Requests \cup {End}) /\ q = Append(queue, r)
      BY <1>19 DEF BaInv, BaTyped
    <2> HIDE DEF q, r
    <2>3. /\ Len(queue) \in Nat /\ DOMAIN queue = 1..Len(queue)
          /\ q \in Seq(Requests \cup {End}) /\ DOMAIN q = 1..Len(queue) + 1
          /\ \A k \in 1..Len(queue) : q[k] = queue[k]
          /\ q[Len(queue) + 1] = r
      BY <2>1, <2>2, AppendAt
    <2>4. \A k \in DOMAIN q : (k \in DOMAIN queue /\ q[k] = queue[k]) \/ q[k] = r
      <3>1. \A k \in 1..Len(queue) + 1 : k \in 1..Len(queue) \/ k = Len(queue) + 1
        BY <2>3
      <3> QED
        BY <2>3, <3>1
    <2>5. BaTyped'
      <3>1. RowCount(q) = RowCount(queue) + Len(rows) /\ Len(rows) \in Nat
              /\ RowCount(queue) \in Nat
        <4>1. \A x \in Requests \cup {End} :
                  Len(x.rows) \in Nat /\ RowCount(Append(queue, x)) = RowCount(queue) + Len(x.rows)
          BY <2>2, QueueCounts
        <4>2. RowCount(queue) \in Nat
          BY <2>2, QueueCounts
        <4> QED
          BY <2>1, <2>2, <4>1, <4>2
      <3>2. RowCount(carry) \in Nat /\ RowCount(batch) \in Nat
        <4>1. carry \in Seq(Requests) /\ batch \in Seq(Requests)
          BY DEF BaInv, BaTyped
        <4>2. RowCount(carry) \in Nat
          BY <4>1, BatchCounts
        <4>3. RowCount(batch) \in Nat
          BY <4>1, BatchCounts
        <4> QED
          BY <4>2, <4>3
      <3>3. pendingRows' \in 0..MaxPending
              /\ pendingRows' = RowCount(q) + RowCount(carry) + RowCount(batch)
        <4>1. pendingRows \in 0..MaxPending
                /\ pendingRows = RowCount(queue) + RowCount(carry) + RowCount(batch)
          BY DEF BaInv, BaTyped
        <4>2. pendingRows' = pendingRows + Len(rows) /\ pendingRows + Len(rows) <= MaxPending
          BY <1>19
        <4>3. pendingRows \in Nat /\ pendingRows' \in Nat
          BY <3>1, <4>1, <4>2
        <4> DEFINE a == RowCount(queue)
                   b == RowCount(carry)
                   d == RowCount(batch)
                   l == Len(rows)
        <4>4. a \in Nat /\ b \in Nat /\ d \in Nat /\ l \in Nat /\ pendingRows = a + b + d
                /\ RowCount(q) = a + l /\ pendingRows' = pendingRows + l
          BY <3>1, <3>2, <4>1, <4>2
        <4> HIDE DEF a, b, d, l
        <4>5. pendingRows' = RowCount(q) + b + d
          BY <4>3, <4>4
        <4> QED
          BY <4>2, <4>3, <4>5, Bounds DEF b, d
      <3> QED
        BY <1>7, <1>17, <2>3, <3>3 DEF BaInv, BaTyped, q
    <2>6. BaOffered(r)'
      <3>0. Mine(c)' = m
        BY <1>0 DEF Mine
      <3>1. NextRows(c)' = rows
        BY <3>0, <1>2, <1>5, <1>19 DEF NextRows, rows
      <3>2. r = Request(r.by, NextRows(r.by)')
        BY <2>1, <3>1 DEF r
      <3> QED
        BY <1>2, <1>8, <1>19, <2>1, <3>2 DEF BaOffered
    <2>7. \A k \in DOMAIN queue' : queue'[k] = End \/ BaOffered(queue[k])'
      <3> SUFFICES ASSUME NEW k \in DOMAIN queue', queue'[k] # End
                   PROVE  BaOffered(queue[k])'
        OBVIOUS
      <3>1. CASE k \in DOMAIN queue /\ queue'[k] = queue[k]
        <4>1. BaOffered(queue[k]) /\ queue[k].by # c
          BY <1>9, <1>11, <3>1
        <4> QED
          BY <1>12, <3>1, <4>1 DEF BaOffered, NextRows, Mine
      <3>2. CASE queue'[k] = r
        BY <2>6, <3>2 DEF BaOffered, NextRows, Mine
      <3> QED
        BY <2>4, <3>1, <3>2 DEF q
    <2>8. BaApart'
      <3>1. Apart(queue, r) /\ ~Twice(queue)
        BY <1>9, <2>1 DEF Apart, BaInv, BaApart
      <3>2. ~Twice(q)
        BY <2>1, <2>2, <3>1, OnceAppend
      <3> QED
        BY <1>9, <1>10, <2>1, <2>4, <3>2 DEF BaInv, BaApart, q
    <2> QED
      BY <1>13, <1>14, <1>16, <2>5, <2>7, <2>8 DEF BaInv, BaRequests
  <1> QED
    BY <1>4, <1>6, <1>18, <1>19

LEMMA BaEvaluate ==
  ASSUME BaInv, NEW c \in Callers, Batching!Evaluate(c)
  PROVE  BaInv'
PROOF
  <1>1. PICK n \in 1..MaxRows : size' = [size EXCEPT ![c] = n] /\ Batching!Offer(c, n, 0)
    BY DEF Batching!Evaluate
  <1>2. /\ caller[c] = "idle" /\ round[c] < MaxCalls[c] /\ round' = [round EXCEPT ![c] = round[c] + 1]
        /\ UNCHANGED <<closed, closer, server, settled, batch, answer, carry, stopping>>
    BY DEF Batching!Evaluate, Batching!working
  <1>3. /\ round \in [Callers -> Nat] /\ \A d \in Callers : round[d] <= MaxCalls[d]
        /\ size \in [Callers -> 0..MaxRows] /\ got[c] \in Outcomes
    BY DEF BaInv, BaTyped
  <1>4. /\ round' \in [Callers -> Nat] /\ round'[c] = round[c] + 1 /\ round[c] \in Nat
        /\ \A d \in Callers : d # c => round'[d] = round[d]
    BY <1>2, <1>3
  <1>5. round'[c] # 0 /\ \A d \in Callers : round'[d] <= MaxCalls[d]
    <2>1. round[c] + 1 <= MaxCalls[c] /\ round[c] + 1 # 0
      BY <1>2, <1>4, Bounds
    <2> QED
      BY <1>3, <1>4, <2>1
  <1>6. /\ size' \in [Callers -> 0..MaxRows] /\ size'[c] = n
        /\ \A d \in Callers : d # c => size'[d] = size[d]
    BY <1>1, <1>3, Bounds
  <1>7. 0 < n /\ 0 \in Nat /\ caller[c] \in {"idle", "entering"}
    BY <1>2
  <1>8. FirstOf(got[c].rows, 0) = FirstOf(RowsOf(c, round'[c], n), 0)
    BY SubSeqEmpty DEF FirstOf
  <1> QED
    BY <1>1, <1>2, <1>4, <1>5, <1>6, <1>7, <1>8, BaOffer

LEMMA BaOfferAgain ==
  ASSUME BaInv, NEW c \in Callers, Batching!OfferAgain(c)
  PROVE  BaInv'
PROOF
  <1> DEFINE n == size[c]
             start == Len(got[c].rows)
             s == Mine(c)
  <1>1. /\ caller[c] = "entering" /\ Batching!Offer(c, n, start)
        /\ UNCHANGED <<round, size, closed, closer, server, settled, batch, answer, carry, stopping>>
    BY DEF Batching!OfferAgain, Batching!calls, Batching!working
  <1>2. /\ round \in [Callers -> Nat] /\ \A d \in Callers : round[d] <= MaxCalls[d]
        /\ size \in [Callers -> 0..MaxRows] /\ got[c].rows \in Seq(Rows) /\ round[c] # 0
    BY <1>1 DEF BaInv, BaTyped, Outcomes
  <1>3. start \in Nat
    BY <1>2, LenProperties
  <1>4. n \in 1..MaxRows /\ start < n /\ got[c].rows = FirstOf(s, start)
    BY <1>1 DEF BaInv, BaCalls
  <1>5. FirstOf(got[c].rows, start) = FirstOf(RowsOf(c, round'[c], n), start)
    <2>1. RowsOf(c, round'[c], n) = s
      BY <1>1 DEF Mine
    <2>2. FirstOf(got[c].rows, start) = got[c].rows
      BY <1>2, SubSeqFull DEF FirstOf
    <2> QED
      BY <1>4, <2>1, <2>2
  <1>6. /\ round' \in [Callers -> Nat] /\ round'[c] # 0
        /\ \A d \in Callers : round'[d] <= MaxCalls[d]
        /\ size' \in [Callers -> 0..MaxRows] /\ size'[c] = n
        /\ \A d \in Callers : d # c => round'[d] = round[d] /\ size'[d] = size[d]
        /\ caller[c] \in {"idle", "entering"}
    BY <1>1, <1>2
  <1> HIDE DEF n, start
  <1>7. UNCHANGED <<closed, closer, server, settled, batch, answer, carry, stopping>>
    BY <1>1
  <1> QED
    BY <1>1, <1>3, <1>4, <1>5, <1>6, <1>7, BaOffer

LEMMA BaTake ==
  ASSUME BaInv, NEW c \in Callers, Batching!Take(c)
  PROVE  BaInv'
PROOF
  <1> DEFINE all == got[c].rows \o future[c].rows
  <1>1. /\ caller[c] = "waiting" /\ future[c] # Unanswered
        /\ \/ /\ ~future[c].ok /\ got' = [got EXCEPT ![c] = Error]
              /\ caller' = [caller EXCEPT ![c] = "idle"]
           \/ /\ future[c].ok /\ got' = [got EXCEPT ![c] = Result(all)]
              /\ caller' = [caller EXCEPT ![c] = IF Len(all) < size[c] THEN "entering" ELSE "idle"]
        /\ future' = [future EXCEPT ![c] = Unanswered]
        /\ UNCHANGED <<queue, closed, closer, round, size, pendingRows, server, settled, batch,
                       answer, carry, stopping>>
    BY BaSame DEF Batching!Take, Batching!calls, Batching!working
  <1>2. /\ caller \in [Callers -> {"idle", "entering", "blocked", "waiting"}]
        /\ got \in [Callers -> Outcomes] /\ future \in [Callers -> Outcomes \cup {Unanswered}]
        /\ future[c] \in Outcomes /\ round[c] \in Nat /\ size[c] \in 0..MaxRows
        /\ got[c].rows \in Seq(Rows) /\ round[c] # 0
    BY <1>1 DEF BaInv, BaTyped, Outcomes
  <1>3. Error \in Outcomes /\ ~Error.ok
    BY EmptySeq DEF Error, Outcomes
  <1>4. future[c].ok => /\ all \in Seq(Rows)
                        /\ Len(all) \in Nat /\ all = FirstOf(Mine(c), Len(all))
                        /\ ~(Len(all) < size[c]) => all = Mine(c)
    <2> SUFFICES ASSUME future[c].ok
                 PROVE  /\ all \in Seq(Rows)
                        /\ Len(all) \in Nat /\ all = FirstOf(Mine(c), Len(all))
                        /\ ~(Len(all) < size[c]) => all = Mine(c)
      OBVIOUS
    <2> DEFINE s == Mine(c)
               n == size[c]
               start == Len(got[c].rows)
    <2>1. s \in Seq(Rows) /\ Len(s) = n /\ n \in Nat
      BY <1>2, MineIs DEF Mine
    <2>2. start \in Nat
      BY <1>2, LenProperties
    <2>3. start < n /\ got[c].rows = FirstOf(s, start)
      BY <1>1 DEF BaInv, BaCalls
    <2>4. future[c].rows = ChunkOf(s, start, n)
      BY <1>1 DEF BaInv, BaCalls, NextRows
    <2>5. all = FirstOf(s, start) \o ChunkOf(s, start, n)
      BY <2>3, <2>4
    <2>6. start \in Nat /\ start < n
      BY <2>2, <2>3
    <2> HIDE DEF s, n, start, all
    <2>7. /\ all \in Seq(Rows) /\ all = FirstOf(s, Len(all))
          /\ ~(Len(all) < n) => all = s
      BY <2>1, <2>5, <2>6, ChunkIs
    <2> QED
      BY <2>7, LenProperties DEF s, n
  <1> HIDE DEF all
  <1>5. future[c].ok => Result(all) \in Outcomes
    BY <1>4 DEF Result, Outcomes
  <1>6. /\ caller' \in [Callers -> {"idle", "entering", "blocked", "waiting"}]
        /\ got' \in [Callers -> Outcomes] /\ future' \in [Callers -> Outcomes \cup {Unanswered}]
        /\ future'[c] = Unanswered
        /\ \A d \in Callers : d # c =>
              caller'[d] = caller[d] /\ got'[d] = got[d] /\ future'[d] = future[d]
    <2>1. CASE ~future[c].ok
      BY <1>1, <1>2, <1>3, <2>1
    <2>2. CASE future[c].ok
      BY <1>1, <1>2, <1>5, <2>2
    <2> QED
      BY <2>1, <2>2
  <1>7. /\ \A k \in DOMAIN queue : queue[k] # End => queue[k].by # c
        /\ \A k \in DOMAIN carry : carry[k].by # c
        /\ \A k \in OpenAt : batch[k].by # c
    BY <1>1, BaNotAsked
  <1>8. OpenAt' = OpenAt
    BY <1>1 DEF OpenAt
  <1>9. BaTyped'
    BY <1>1, <1>2, <1>6 DEF BaInv, BaTyped
  <1>10. BaStages' /\ BaApart'
    BY <1>1, <1>8 DEF BaInv, BaStages, BaApart, Twice
  <1>11. BaRequests'
    BY <1>1, <1>6, <1>7, <1>8 DEF BaInv, BaRequests, BaOffered, NextRows, Mine
  <1>12. ASSUME NEW d \in Callers, d # c
         PROVE  /\ caller'[d] = "idle" /\ got'[d].ok => got'[d].rows = Mine(d)'
                /\ caller'[d] # "idle" =>
                     /\ size'[d] \in 1..MaxRows
                     /\ Len(got'[d].rows) < size'[d]
                     /\ got'[d].rows = FirstOf(Mine(d)', Len(got'[d].rows))
                /\ future'[d] # Unanswered =>
                     /\ caller'[d] = "waiting"
                     /\ future'[d].ok => future'[d].rows = NextRows(d)'
    <2>1. Mine(d)' = Mine(d) /\ size'[d] = size[d] /\ got'[d] = got[d]
      BY <1>1, <1>6, <1>12 DEF Mine
    <2>2. NextRows(d)' = NextRows(d)
      BY <2>1 DEF NextRows
    <2> QED
      BY <1>1, <1>6, <1>12, <2>1, <2>2 DEF BaInv, BaCalls
  <1>13. Mine(c)' = Mine(c) /\ size'[c] \in 1..MaxRows /\ size'[c] = size[c]
    BY <1>1 DEF Mine, BaInv, BaCalls
  <1>14. /\ caller'[c] = "idle" /\ got'[c].ok => got'[c].rows = Mine(c)'
         /\ caller'[c] # "idle" =>
              /\ Len(got'[c].rows) < size'[c]
              /\ got'[c].rows = FirstOf(Mine(c)', Len(got'[c].rows))
    <2>1. CASE ~future[c].ok
      BY <1>1, <1>2, <1>3, <2>1
    <2>2. CASE future[c].ok
      <3>1. got'[c] = Result(all) /\ got'[c].rows = all
              /\ caller'[c] = IF Len(all) < size[c] THEN "entering" ELSE "idle"
        BY <1>1, <1>2, <2>2 DEF Result
      <3> QED
        BY <1>4, <1>13, <2>2, <3>1
    <2> QED
      BY <2>1, <2>2
  <1>15. BaCalls'
    BY <1>6, <1>12, <1>13, <1>14 DEF BaCalls
  <1> QED
    BY <1>9, <1>10, <1>11, <1>15 DEF BaInv

(* The steps that touch no request; a search that waits for room may be    *)
(* notified.                                                               *)
LEMMA BaElsewhere ==
  ASSUME BaInv, UNCHANGED <<queue, round, size, got, future, pendingRows, settled, batch, carry>>,
         closed' \in BOOLEAN, stopping' \in BOOLEAN, answer' \in Outcomes,
         closer' \in {"open", "closing", "joining", "closed"},
         caller' \in [Callers -> {"idle", "entering", "blocked", "waiting"}],
         \A c \in Callers : \/ caller'[c] = caller[c]
                            \/ caller[c] = "blocked" /\ caller'[c] = "entering",
         server' \in {"getting", "gathering", "evaluating", "delivering", "stopped"},
         BaStages'
  PROVE  BaInv'
PROOF
  <1>1. \A c \in Callers : /\ caller'[c] = "idle" <=> caller[c] = "idle"
                           /\ caller'[c] = "waiting" <=> caller[c] = "waiting"
    OBVIOUS
  <1>2. BaTyped'
    BY <1>1 DEF BaInv, BaTyped
  <1>3. BaRequests' /\ BaApart'
    BY <1>1 DEF BaInv, BaRequests, BaOffered, OpenAt, NextRows, Mine, BaApart, Twice
  <1>4. BaCalls'
    <2>1. \A c \in Callers : Mine(c)' = Mine(c)
      BY DEF Mine
    <2>2. \A c \in Callers : NextRows(c)' = NextRows(c)
      BY <2>1 DEF NextRows
    <2> QED
      BY <1>1, <2>1, <2>2 DEF BaInv, BaCalls
  <1> QED
    BY <1>2, <1>3, <1>4 DEF BaInv

LEMMA NotifiedIs ==
  ASSUME BaInv
  PROVE  /\ Batching!Notified \in [Callers -> {"idle", "entering", "blocked", "waiting"}]
         /\ \A c \in Callers : \/ Batching!Notified[c] = caller[c]
                               \/ caller[c] = "blocked" /\ Batching!Notified[c] = "entering"
BY DEF BaInv, BaTyped, Batching!Notified

LEMMA BaQuiet ==
  ASSUME BaInv, Batching!Close \/ Batching!Join \/ Batching!EndGathering
  PROVE  BaInv'
PROOF
  <1>1. /\ UNCHANGED <<queue, round, size, got, future, pendingRows, settled, batch, carry,
                       answer, stopping>>
        /\ closed' \in {closed, TRUE} /\ closer' \in {closer, "closing", "closed"}
        /\ caller' \in {caller, Batching!Notified}
        /\ server' = server \/ (server = "gathering" /\ server' = "evaluating")
    <2>1. CASE Batching!Close
      BY <2>1 DEF Batching!Close, Batching!calls, Batching!working
    <2>2. CASE Batching!Join
      BY <2>2 DEF Batching!Join, Batching!calls, Batching!working
    <2>3. CASE Batching!EndGathering
      BY <2>3 DEF Batching!EndGathering, Batching!asked, Batching!calls, Batching!working
    <2> QED
      BY <2>1, <2>2, <2>3
  <1>2. /\ caller' \in [Callers -> {"idle", "entering", "blocked", "waiting"}]
        /\ \A c \in Callers : \/ caller'[c] = caller[c]
                              \/ caller[c] = "blocked" /\ caller'[c] = "entering"
    <2>1. caller \in [Callers -> {"idle", "entering", "blocked", "waiting"}]
      BY DEF BaInv, BaTyped
    <2> QED
      BY <1>1, <2>1, NotifiedIs
  <1>3. /\ closed' \in BOOLEAN /\ stopping' \in BOOLEAN /\ answer' \in Outcomes
        /\ closer' \in {"open", "closing", "joining", "closed"}
        /\ server' \in {"getting", "gathering", "evaluating", "delivering", "stopped"}
    BY <1>1 DEF BaInv, BaTyped
  <1>4. BaStages'
    BY <1>1 DEF BaInv, BaStages
  <1> QED
    BY <1>1, <1>2, <1>3, <1>4, BaElsewhere

LEMMA BaModel ==
  ASSUME BaInv, Batching!Model
  PROVE  BaInv'
PROOF
  <1>1. /\ UNCHANGED <<queue, round, size, got, future, pendingRows, settled, batch, carry,
                       closed, closer, caller, stopping>>
        /\ server = "evaluating" /\ server' = "delivering"
        /\ answer' \in {Result(Joined(batch)), Error}
    BY BaSame DEF Batching!Model, Batching!asked, Batching!calls
  <1>2. batch \in Seq(Requests)
    BY DEF BaInv, BaTyped
  <1>3. Joined(batch) \in Seq(Rows)
    BY <1>2, RequestsCarry, JoinedConcat
  <1>4. /\ Error \in Outcomes /\ ~Error.ok
        /\ Result(Joined(batch)) \in Outcomes /\ Result(Joined(batch)).rows = Joined(batch)
    BY <1>3, EmptySeq DEF Error, Outcomes, Result
  <1>5. BaStages'
    BY <1>1, <1>4 DEF BaInv, BaStages
  <1>6. /\ closed' \in BOOLEAN /\ stopping' \in BOOLEAN /\ answer' \in Outcomes
        /\ closer' \in {"open", "closing", "joining", "closed"}
        /\ caller' \in [Callers -> {"idle", "entering", "blocked", "waiting"}]
        /\ caller' = caller
        /\ server' \in {"getting", "gathering", "evaluating", "delivering", "stopped"}
    BY <1>1, <1>4 DEF BaInv, BaTyped
  <1> QED
    BY <1>1, <1>5, <1>6, BaElsewhere

(* The steps that move requests, and end no call. *)
LEMMA BaMove ==
  ASSUME BaInv, UNCHANGED <<closed, closer, caller, round, size, got, pendingRows, future, answer>>,
         server' \in {"getting", "gathering", "evaluating", "delivering", "stopped"},
         stopping' \in BOOLEAN, settled' = 0,
         queue' \in Seq(Requests \cup {End}), batch' \in Seq(Requests), carry' \in Seq(Requests),
         Len(carry') <= 1, RowCount(batch') <= MaxBatch,
         pendingRows = RowCount(queue') + RowCount(carry') + RowCount(batch'),
         \A k \in DOMAIN queue' : queue'[k] = End \/ BaOffered(queue'[k]),
         \A k \in DOMAIN carry' : BaOffered(carry'[k]),
         \A k \in OpenAt' : BaOffered(batch'[k]),
         BaStages', BaApart'
  PROVE  BaInv'
PROOF
  <1>1. BaTyped'
    <2>1. Len(batch') \in Nat
      BY LenProperties
    <2>2. settled' \in 0..Len(batch')
      BY <2>1
    <2> QED
      BY <2>2 DEF BaInv, BaTyped
  <1>2. BaRequests'
    BY DEF BaRequests, BaOffered, NextRows, Mine
  <1>3. BaCalls'
    <2>1. \A c \in Callers : Mine(c)' = Mine(c)
      BY DEF Mine
    <2>2. \A c \in Callers : NextRows(c)' = NextRows(c)
      BY <2>1 DEF NextRows
    <2> QED
      BY <2>1, <2>2 DEF BaInv, BaCalls
  <1> QED
    BY <1>1, <1>2, <1>3 DEF BaInv

LEMMA BaPutEnd ==
  ASSUME BaInv, Batching!PutEnd
  PROVE  BaInv'
PROOF
  <1>1. /\ closer' = "joining" /\ queue' = Append(queue, End)
        /\ UNCHANGED <<closed, caller, round, size, got, future, pendingRows, server, settled,
                       batch, answer, carry, stopping>>
    BY BaSame DEF Batching!PutEnd, Batching!calls, Batching!working
  <1>2. queue \in Seq(Requests \cup {End}) /\ End \in Requests \cup {End}
    BY DEF BaInv, BaTyped
  <1>3. /\ Len(queue) \in Nat /\ DOMAIN queue = 1..Len(queue)
        /\ queue' \in Seq(Requests \cup {End}) /\ DOMAIN queue' = 1..Len(queue) + 1
        /\ \A k \in 1..Len(queue) : queue'[k] = queue[k]
        /\ queue'[Len(queue) + 1] = End
    BY <1>1, <1>2, AppendAt
  <1>4. \A k \in DOMAIN queue' : (k \in DOMAIN queue /\ queue'[k] = queue[k]) \/ queue'[k] = End
    <2>1. \A k \in 1..Len(queue) + 1 : k \in 1..Len(queue) \/ k = Len(queue) + 1
      BY <1>3
    <2> QED
      BY <1>3, <2>1
  <1>5. RowCount(queue') = RowCount(queue)
    <2>1. Len(End.rows) = 0 /\ RowCount(queue) \in Nat
      BY <1>2, EmptyCounts, QueueCounts DEF End
    <2>2. RowCount(Append(queue, End)) = RowCount(queue) + Len(End.rows)
      BY <1>2, QueueCounts
    <2> QED
      BY <1>1, <2>1, <2>2
  <1>6. BaTyped'
    BY <1>1, <1>3, <1>5 DEF BaInv, BaTyped
  <1>7. BaStages'
    BY <1>1 DEF BaInv, BaStages
  <1>8. BaRequests'
    BY <1>1, <1>4 DEF BaInv, BaRequests, BaOffered, OpenAt, NextRows, Mine
  <1>9. BaApart'
    BY <1>1, <1>4 DEF BaInv, BaApart, OpenAt, Twice
  <1>10. BaCalls'
    <2>1. \A c \in Callers : Mine(c)' = Mine(c)
      BY <1>1 DEF Mine
    <2>2. \A c \in Callers : NextRows(c)' = NextRows(c)
      BY <1>1, <2>1 DEF NextRows
    <2> QED
      BY <1>1, <2>1, <2>2 DEF BaInv, BaCalls
  <1> QED
    BY <1>6, <1>7, <1>8, <1>9, <1>10 DEF BaInv

(* The first element is taken out of the queue. *)
LEMMA BaHead ==
  ASSUME BaInv, queue # <<>>
  PROVE  /\ Head(queue) = queue[1] /\ 1 \in DOMAIN queue
         /\ Head(queue) \in Requests \cup {End}
         /\ Head(queue) # End => Head(queue) \in Requests /\ BaOffered(Head(queue))
         /\ Tail(queue) \in Seq(Requests \cup {End})
         /\ \A k \in DOMAIN Tail(queue) : k + 1 \in DOMAIN queue /\ Tail(queue)[k] = queue[k + 1]
         /\ \A k \in DOMAIN Tail(queue) : Tail(queue)[k] = End \/ BaOffered(Tail(queue)[k])
         /\ ~Twice(Tail(queue)) /\ Apart(Tail(queue), Head(queue))
         /\ RowCount(queue) = Len(Head(queue).rows) + RowCount(Tail(queue))
PROOF
  <1> DEFINE t == Tail(queue)
  <1>1. queue \in Seq(Requests \cup {End}) /\ queue # <<>> /\ ~Twice(queue)
    BY DEF BaInv, BaTyped, BaApart
  <1>2. t = Tail(queue)
    OBVIOUS
  <1>3. RowCount(queue) = Len(Head(queue).rows) + RowCount(t)
    BY <1>1, QueueCounts
  <1> HIDE DEF t
  <1>4. /\ DOMAIN queue = 1..Len(queue) /\ 1 \in DOMAIN queue
        /\ Head(queue) = queue[1] /\ queue[1] \in Requests \cup {End}
        /\ t \in Seq(Requests \cup {End}) /\ DOMAIN t = 1..Len(queue) - 1
        /\ \A k \in 1..Len(queue) - 1 : t[k] = queue[k + 1] /\ k + 1 \in DOMAIN queue
    BY <1>1, <1>2, TailAt
  <1>5. ~Twice(t) /\ Apart(t, Head(queue))
    BY <1>1, <1>2, OnceTail
  <1>6. Head(queue) # End => Head(queue) \in Requests /\ BaOffered(Head(queue))
    BY <1>4 DEF BaInv, BaRequests
  <1>7. \A k \in DOMAIN t : t[k] = End \/ BaOffered(t[k])
    BY <1>4 DEF BaInv, BaRequests
  <1> QED
    BY <1>3, <1>4, <1>5, <1>6, <1>7 DEF t

LEMMA CarryIs ==
  ASSUME BaInv, carry # <<>>
  PROVE  /\ 1 \in DOMAIN carry /\ carry = <<carry[1]>> /\ carry[1] \in Requests
         /\ carry[1] # End /\ RowCount(carry) = Len(carry[1].rows)
PROOF
  <1>1. carry \in Seq(Requests) /\ Len(carry) <= 1
    BY DEF BaInv, BaTyped
  <1>2. Len(carry) \in Nat /\ Len(carry) # 0
    BY <1>1, EmptySeq, LenProperties
  <1>3. Len(carry) = 1 /\ DOMAIN carry = {1}
    <2> DEFINE l == Len(carry)
    <2>0. l \in Nat /\ l # 0 /\ l <= 1
      BY <1>1, <1>2
    <2> HIDE DEF l
    <2>1. l = 1
      BY <2>0
    <2>2. DOMAIN carry = 1..1
      BY <1>1, <2>1, LenProperties DEF l
    <2> QED
      BY <2>1, <2>2 DEF l
  <1>4. carry[1] \in Requests
    BY <1>1, <1>3, ElementOfSeq
  <1>5. carry = <<carry[1]>>
    BY <1>1, <1>3
  <1>6. carry[1] # End
    BY <1>4, MarkerAssumption DEF Requests, End
  <1>7. RowCount(carry) = Len(carry[1].rows)
    <2> DEFINE r == carry[1]
    <2>1. r \in Requests /\ carry = <<r>>
      BY <1>4, <1>5
    <2> HIDE DEF r
    <2>2. RowCount(<<r>>) = Len(r.rows)
      BY <1>1, <2>1, BatchCounts
    <2> QED
      BY <2>1, <2>2 DEF r
  <1> QED
    BY <1>3, <1>4, <1>5, <1>6, <1>7

(* The thread takes what it carries over, or the first of the queue. *)
LEMMA BaGet ==
  ASSUME BaInv, Batching!Get
  PROVE  BaInv'
PROOF
  <1>1. /\ UNCHANGED <<closed, closer, caller, round, size, got, pendingRows, future, answer,
                       settled, stopping>>
        /\ server = "getting" /\ carry' = <<>>
    BY DEF Batching!Get, Batching!asked, Batching!calls
  <1>2. /\ batch = <<>> /\ settled = 0 /\ settled' = 0 /\ stopping' \in BOOLEAN
        /\ queue \in Seq(Requests \cup {End}) /\ carry \in Seq(Requests)
        /\ pendingRows = RowCount(queue) + RowCount(carry) + RowCount(batch)
        /\ \A k \in DOMAIN queue : queue[k] = End \/ BaOffered(queue[k])
        /\ \A k \in DOMAIN carry : BaOffered(carry[k])
    BY <1>1 DEF BaInv, BaStages, BaTyped, BaRequests
  <1>3. RowCount(batch) = 0 /\ RowCount(carry') = 0 /\ Len(carry') <= 1
          /\ carry' \in Seq(Requests) /\ RowCount(queue) \in Nat /\ RowCount(carry) \in Nat
    <2>1. RowCount(queue) \in Nat
      BY <1>2, QueueCounts
    <2>2. RowCount(carry) \in Nat
      BY <1>2, BatchCounts
    <2>3. Len(<<>>) <= 1
      BY EmptyCounts
    <2> QED
      BY <1>1, <1>2, <2>1, <2>2, <2>3, EmptyCounts
  <1>4. \A k \in DOMAIN carry' : FALSE
    <2>1. DOMAIN carry' = 1..0
      BY <1>1, <1>3, EmptyCounts, LenProperties
    <2> QED
      BY <2>1
  <1>5. CASE carry # <<>>
    <2> DEFINE r == carry[1]
    <2>1. /\ r \in Requests /\ r # End /\ RowCount(carry) = Len(r.rows) /\ BaOffered(r)
          /\ 1 \in DOMAIN carry
      BY <1>2, <1>5, CarryIs
    <2>2. queue' = queue /\ server' = "gathering" /\ batch' = <<r>>
      BY <1>5, <2>1, BaSame DEF Batching!Get, Batching!First
    <2>3. \A k \in DOMAIN queue : queue[k] # End => queue[k].by # r.by
      BY <2>1 DEF BaInv, BaApart
    <2> HIDE DEF r
    <2>4. batch' \in Seq(Requests) /\ Len(batch') = 1 /\ batch'[1] = r
      BY <2>1, <2>2
    <2>5. RowCount(batch') = Len(r.rows) /\ RowCount(batch') <= MaxBatch
      <3>1. RowCount(<<r>>) = Len(r.rows)
        BY <1>2, <2>1, BatchCounts
      <3>2. Len(r.rows) \in 1..MaxBatch
        BY <2>1 DEF BaOffered
      <3> QED
        BY <2>2, <3>1, <3>2, Bounds
    <2>6. pendingRows = RowCount(queue') + RowCount(carry') + RowCount(batch')
      <3>1. pendingRows = RowCount(queue) + RowCount(carry) + 0
        BY <1>2, <1>3
      <3>2. pendingRows = RowCount(queue) + 0 + RowCount(carry)
        BY <1>3, <3>1
      <3> QED
        BY <1>3, <2>1, <2>2, <2>5, <3>2
    <2>7. \A k \in OpenAt' : k = 1
      BY <1>2, <2>4 DEF OpenAt
    <2>8. \A k \in OpenAt' : BaOffered(batch'[k])
      BY <2>1, <2>4, <2>7
    <2>9. BaStages'
      BY <1>1, <1>2, <2>2 DEF BaStages
    <2>10. BaApart'
      BY <1>4, <2>2, <2>3, <2>4, <2>7 DEF BaInv, BaApart, Twice
    <2>11. queue' \in Seq(Requests \cup {End}) /\ \A k \in DOMAIN queue' : queue'[k] = End \/ BaOffered(queue'[k])
      BY <1>2, <2>2
    <2>12. /\ \A k \in DOMAIN carry' : BaOffered(carry'[k])
           /\ server' \in {"getting", "gathering", "evaluating", "delivering", "stopped"}
      BY <1>4, <2>2
    <2> QED
      BY <1>1, <1>2, <1>3, <2>4, <2>5, <2>6, <2>8, <2>9, <2>10, <2>11, <2>12, BaMove
  <1>6. CASE carry = <<>>
    <2> DEFINE r == Head(queue)
    <2>1. queue # <<>>
      <3>1. carry \o queue = queue
        BY <1>2, <1>6, ConcatEmptySeq
      <3> QED
        BY <3>1 DEF Batching!Get
    <2>2. /\ r = queue[1] /\ r \in Requests \cup {End}
          /\ r # End => r \in Requests /\ BaOffered(r)
          /\ Tail(queue) \in Seq(Requests \cup {End})
          /\ \A k \in DOMAIN Tail(queue) : Tail(queue)[k] = End \/ BaOffered(Tail(queue)[k])
          /\ ~Twice(Tail(queue)) /\ Apart(Tail(queue), r)
          /\ RowCount(queue) = Len(r.rows) + RowCount(Tail(queue))
      BY <2>1, BaHead
    <2>3. /\ queue' = Tail(queue)
          /\ \/ r = End /\ server' = "stopped" /\ batch' = batch
             \/ r # End /\ server' = "gathering" /\ batch' = <<r>>
      BY <1>6, <2>2, BaSame DEF Batching!Get, Batching!First
    <2> HIDE DEF r
    <2>4. RowCount(carry) = 0
      BY <1>6, EmptyCounts
    <2>5. RowCount(queue') \in Nat
      BY <2>2, <2>3, QueueCounts
    <2>6. /\ \A k \in DOMAIN carry' : BaOffered(carry'[k])
          /\ server' \in {"getting", "gathering", "evaluating", "delivering", "stopped"}
      BY <1>4, <2>3
    <2>7. BaStages'
      BY <1>1, <1>2, <2>3 DEF BaStages
    <2>8. CASE r = End
      <3>1. batch' = <<>> /\ batch' \in Seq(Requests) /\ RowCount(batch') = 0 /\ RowCount(batch') <= MaxBatch
              /\ Len(batch') = 0
        BY <1>2, <2>3, <2>8, EmptyCounts, Bounds
      <3>2. Len(r.rows) = 0
        BY <2>8, EmptyCounts DEF End
      <3>3. pendingRows = RowCount(queue') + RowCount(carry') + RowCount(batch')
        <4>1. pendingRows = RowCount(queue) + 0 + 0 /\ RowCount(queue) = 0 + RowCount(queue')
          BY <1>2, <1>3, <2>2, <2>3, <2>4, <3>2
        <4> QED
          BY <1>3, <2>5, <3>1, <4>1
      <3>4. \A k \in OpenAt' : FALSE
        BY <1>2, <3>1 DEF OpenAt
      <3>5. BaApart'
        BY <1>4, <2>2, <2>3, <3>4 DEF BaApart
      <3>6. queue' \in Seq(Requests \cup {End}) /\ \A k \in DOMAIN queue' : queue'[k] = End \/ BaOffered(queue'[k])
        BY <2>2, <2>3
      <3>7. \A k \in OpenAt' : BaOffered(batch'[k])
        BY <3>4
      <3> QED
        BY <1>1, <1>2, <1>3, <2>6, <2>7, <3>1, <3>3, <3>5, <3>6, <3>7, BaMove
    <2>9. CASE r # End
      <3>1. r \in Requests /\ BaOffered(r) /\ batch' = <<r>>
        BY <2>2, <2>3, <2>9
      <3>2. batch' \in Seq(Requests) /\ Len(batch') = 1 /\ batch'[1] = r
        BY <3>1
      <3>3. RowCount(batch') = Len(r.rows) /\ RowCount(batch') <= MaxBatch /\ RowCount(batch') \in Nat
        <4>1. RowCount(<<r>>) = Len(r.rows)
          BY <1>2, <3>1, BatchCounts
        <4>2. Len(r.rows) \in 1..MaxBatch
          BY <3>1 DEF BaOffered
        <4> QED
          BY <3>1, <4>1, <4>2, Bounds
      <3>4. pendingRows = RowCount(queue') + RowCount(carry') + RowCount(batch')
        <4>1. pendingRows = RowCount(queue) + 0 + 0 /\ RowCount(queue) = RowCount(batch') + RowCount(queue')
          BY <1>2, <1>3, <2>2, <2>3, <2>4, <3>3
        <4> QED
          BY <1>3, <2>5, <3>3, <4>1
      <3>5. \A k \in OpenAt' : k = 1
        BY <1>2, <3>2 DEF OpenAt
      <3>6. \A k \in OpenAt' : BaOffered(batch'[k])
        BY <3>1, <3>2, <3>5
      <3>7. BaApart'
        BY <1>4, <2>2, <2>3, <2>9, <3>2, <3>5 DEF BaApart, Apart
      <3>8. queue' \in Seq(Requests \cup {End}) /\ \A k \in DOMAIN queue' : queue'[k] = End \/ BaOffered(queue'[k])
        BY <2>2, <2>3
      <3> QED
        BY <1>1, <1>2, <1>3, <2>6, <2>7, <3>2, <3>3, <3>4, <3>6, <3>7, <3>8, BaMove
    <2> QED
      BY <2>8, <2>9
  <1> QED
    BY <1>5, <1>6

LEMMA BaGather ==
  ASSUME BaInv, Batching!Gather
  PROVE  BaInv'
PROOF
  <1> DEFINE r == Head(queue)
  <1>1. /\ UNCHANGED <<closed, closer, caller, round, size, got, pendingRows, future, answer, settled>>
        /\ server = "gathering" /\ queue # <<>> /\ queue' = Tail(queue)
        /\ \/ /\ r = End /\ stopping' = TRUE /\ server' = "evaluating" /\ UNCHANGED <<batch, carry>>
           \/ /\ r # End /\ carry' = <<r>> /\ server' = "evaluating" /\ UNCHANGED <<batch, stopping>>
           \/ /\ r # End /\ RowCount(batch) + Len(r.rows) <= MaxBatch
              /\ batch' = Append(batch, r) /\ UNCHANGED <<carry, stopping, server>>
    BY BaSame DEF Batching!Gather, Batching!Gathers, Batching!Fits, Batching!asked, Batching!calls
  <1>2. /\ carry = <<>> /\ settled = 0 /\ settled' = 0 /\ stopping \in BOOLEAN
        /\ batch \in Seq(Requests) /\ RowCount(batch) <= MaxBatch /\ carry \in Seq(Requests)
        /\ pendingRows = RowCount(queue) + RowCount(carry) + RowCount(batch)
        /\ \A k \in OpenAt : BaOffered(batch[k])
    BY <1>1 DEF BaInv, BaStages, BaTyped, BaRequests
  <1>3. /\ r = queue[1] /\ 1 \in DOMAIN queue /\ r \in Requests \cup {End}
        /\ r # End => r \in Requests /\ BaOffered(r)
        /\ Tail(queue) \in Seq(Requests \cup {End})
        /\ \A k \in DOMAIN Tail(queue) : k + 1 \in DOMAIN queue /\ Tail(queue)[k] = queue[k + 1]
        /\ \A k \in DOMAIN Tail(queue) : Tail(queue)[k] = End \/ BaOffered(Tail(queue)[k])
        /\ ~Twice(Tail(queue)) /\ Apart(Tail(queue), r)
        /\ RowCount(queue) = Len(r.rows) + RowCount(Tail(queue))
    BY <1>1, BaHead
  <1> HIDE DEF r
  <1>4. /\ RowCount(queue') \in Nat /\ RowCount(batch) \in Nat /\ RowCount(carry) = 0
        /\ r # End => Len(r.rows) \in Nat
    <2>1. RowCount(queue') \in Nat
      BY <1>1, <1>3, QueueCounts
    <2>2. RowCount(batch) \in Nat
      BY <1>2, BatchCounts
    <2>3. r # End => Len(r.rows) \in Nat
      BY <1>2, <1>3, BatchCounts
    <2> QED
      BY <1>2, <2>1, <2>2, <2>3, EmptyCounts
  <1>5. queue' \in Seq(Requests \cup {End}) /\ \A k \in DOMAIN queue' : queue'[k] = End \/ BaOffered(queue'[k])
    BY <1>1, <1>3
  <1>6. \A k \in DOMAIN carry : FALSE
    <2>1. DOMAIN carry = 1..0
      BY <1>2, EmptyCounts, LenProperties
    <2> QED
      BY <2>1
  <1>7. /\ \A k, n \in OpenAt : k # n => batch[k].by # batch[n].by
        /\ \A k \in DOMAIN queue, n \in OpenAt : queue[k] # End => queue[k].by # batch[n].by
    BY DEF BaInv, BaApart
  <1>8. \A k \in DOMAIN queue', n \in OpenAt : queue'[k] # End => queue'[k].by # batch[n].by
    BY <1>1, <1>3, <1>7
  <1>9. CASE /\ r = End /\ stopping' = TRUE /\ server' = "evaluating" /\ UNCHANGED <<batch, carry>>
    <2>1. Len(r.rows) = 0
      BY <1>9, EmptyCounts DEF End
    <2>2. pendingRows = RowCount(queue') + RowCount(carry') + RowCount(batch')
      <3>1. RowCount(queue) = 0 + RowCount(queue')
        BY <1>1, <1>3, <2>1
      <3> QED
        BY <1>2, <1>4, <1>9, <3>1
    <2>3. OpenAt' = OpenAt
      BY <1>1, <1>9 DEF OpenAt
    <2>4. BaStages'
      BY <1>1, <1>2, <1>9 DEF BaStages
    <2>5. BaApart'
      BY <1>1, <1>3, <1>6, <1>7, <1>8, <1>9, <2>3 DEF BaApart
    <2>6. /\ batch' \in Seq(Requests) /\ carry' \in Seq(Requests) /\ RowCount(batch') <= MaxBatch
          /\ Len(carry') <= 1 /\ stopping' \in BOOLEAN
          /\ server' \in {"getting", "gathering", "evaluating", "delivering", "stopped"}
      <3>1. Len(<<>>) <= 1
        BY EmptyCounts
      <3> QED
        BY <1>2, <1>9, <3>1
    <2>7. /\ \A k \in DOMAIN carry' : BaOffered(carry'[k])
          /\ \A k \in OpenAt' : BaOffered(batch'[k])
      BY <1>2, <1>6, <1>9, <2>3
    <2> QED
      BY <1>1, <1>2, <1>5, <2>2, <2>4, <2>5, <2>6, <2>7, BaMove
  <1>10. CASE /\ r # End /\ carry' = <<r>> /\ server' = "evaluating" /\ UNCHANGED <<batch, stopping>>
    <2>1. /\ r \in Requests /\ BaOffered(r) /\ carry' \in Seq(Requests) /\ DOMAIN carry' = {1}
          /\ carry'[1] = r /\ Len(carry') = 1
      BY <1>3, <1>10
    <2>2. pendingRows = RowCount(queue') + RowCount(carry') + RowCount(batch')
      <3>1. RowCount(queue) = Len(r.rows) + RowCount(queue')
        BY <1>1, <1>3
      <3>2. RowCount(carry') = Len(r.rows)
        <4>1. RowCount(<<r>>) = Len(r.rows)
          BY <1>2, <2>1, BatchCounts
        <4> QED
          BY <1>10, <4>1
      <3> DEFINE l == Len(r.rows)
                 b == RowCount(batch)
                 q == RowCount(queue')
      <3>3. l \in Nat /\ b \in Nat /\ q \in Nat /\ pendingRows = (l + q) + 0 + b
        BY <1>2, <1>4, <1>10, <3>1
      <3> HIDE DEF l, b, q
      <3>4. pendingRows = q + l + b
        BY <3>3
      <3> QED
        BY <1>10, <3>2, <3>4 DEF l, b, q
    <2>3. OpenAt' = OpenAt
      BY <1>1, <1>10 DEF OpenAt
    <2>4. BaStages'
      BY <1>1, <1>2, <1>10 DEF BaStages
    <2>5. BaApart'
      BY <1>1, <1>3, <1>7, <1>8, <1>10, <2>1, <2>3 DEF BaApart, Apart
    <2>6. /\ batch' \in Seq(Requests) /\ RowCount(batch') <= MaxBatch
          /\ Len(carry') <= 1 /\ stopping' \in BOOLEAN
          /\ server' \in {"getting", "gathering", "evaluating", "delivering", "stopped"}
      BY <1>2, <1>10, <2>1
    <2>7. /\ \A k \in DOMAIN carry' : BaOffered(carry'[k])
          /\ \A k \in OpenAt' : BaOffered(batch'[k])
      BY <1>2, <1>10, <2>1, <2>3
    <2> QED
      BY <1>1, <1>2, <1>5, <2>1, <2>2, <2>4, <2>5, <2>6, <2>7, BaMove
  <1>11. CASE /\ r # End /\ RowCount(batch) + Len(r.rows) <= MaxBatch
              /\ batch' = Append(batch, r) /\ UNCHANGED <<carry, stopping, server>>
    <2>1. r \in Requests /\ BaOffered(r)
      BY <1>3, <1>11
    <2>2. /\ Len(batch) \in Nat /\ DOMAIN batch = 1..Len(batch)
          /\ batch' \in Seq(Requests) /\ batch' # <<>> /\ Len(batch') = Len(batch) + 1
          /\ \A k \in 1..Len(batch) : batch'[k] = batch[k]
          /\ batch'[Len(batch) + 1] = r
      BY <1>2, <1>11, <2>1, AppendAt
    <2>3. RowCount(batch') = RowCount(batch) + Len(r.rows)
      BY <1>2, <1>11, <2>1, BatchCounts
    <2>4. pendingRows = RowCount(queue') + RowCount(carry') + RowCount(batch')
      <3>1. RowCount(queue) = Len(r.rows) + RowCount(queue')
        BY <1>1, <1>3
      <3> DEFINE l == Len(r.rows)
                 b == RowCount(batch)
                 q == RowCount(queue')
      <3>2. l \in Nat /\ b \in Nat /\ q \in Nat /\ pendingRows = (l + q) + 0 + b
        BY <1>2, <1>4, <1>11, <3>1
      <3> HIDE DEF l, b, q
      <3>3. pendingRows = q + 0 + (b + l)
        BY <3>2
      <3> QED
        BY <1>4, <1>11, <2>3, <3>3 DEF l, b, q
    <2>5. \A k \in OpenAt' : (k \in OpenAt /\ batch'[k] = batch[k]) \/ (k = Len(batch) + 1 /\ batch'[k] = r)
      <3>1. \A k \in 0 + 1..Len(batch) + 1 : k \in 1..Len(batch) \/ k = Len(batch) + 1
        BY <2>2
      <3>2. \A k \in 1..Len(batch) : k \in 0 + 1..Len(batch)
        BY <2>2
      <3> QED
        BY <1>2, <2>2, <3>1, <3>2 DEF OpenAt
    <2>6. BaStages'
      BY <1>1, <1>2, <1>11, <2>2 DEF BaStages
    <2>7. \A n \in OpenAt : r.by # batch[n].by
      BY <1>3, <1>7, <1>11
    <2>8. BaApart'
      <3>1. \A k, n \in OpenAt' : k # n => batch'[k].by # batch'[n].by
        BY <1>7, <2>5, <2>7
      <3>2. \A k \in DOMAIN queue' : queue'[k] # End => queue'[k].by # r.by
        BY <1>1, <1>3, <1>11 DEF Apart
      <3>3. \A k \in DOMAIN queue', n \in OpenAt' : queue'[k] # End => queue'[k].by # batch'[n].by
        BY <1>8, <2>5, <3>2
      <3>4. ~Twice(queue') /\ carry' = carry
        BY <1>1, <1>3, <1>11
      <3> QED
        BY <1>6, <3>1, <3>3, <3>4 DEF BaApart
    <2>9. /\ RowCount(batch') <= MaxBatch /\ carry' \in Seq(Requests)
          /\ Len(carry') <= 1 /\ stopping' \in BOOLEAN
          /\ server' \in {"getting", "gathering", "evaluating", "delivering", "stopped"}
      <3>1. Len(<<>>) <= 1
        BY EmptyCounts
      <3> QED
        BY <1>1, <1>2, <1>11, <2>3, <3>1
    <2>10. /\ \A k \in DOMAIN carry' : BaOffered(carry'[k])
           /\ \A k \in OpenAt' : BaOffered(batch'[k])
      BY <1>2, <1>6, <1>11, <2>1, <2>5
    <2> QED
      BY <1>1, <1>2, <1>5, <2>2, <2>4, <2>6, <2>8, <2>9, <2>10, BaMove
  <1> QED
    BY <1>1, <1>9, <1>10, <1>11

(* The future of one request after the other is set. *)
LEMMA BaSettle ==
  ASSUME BaInv, Batching!Settle
  PROVE  BaInv'
PROOF
  <1>0. PICK k : k = settled + 1
    OBVIOUS
  <1>00. PICK c : c = batch[k].by
    OBVIOUS
  <1>1. /\ UNCHANGED <<closed, closer, caller, round, size, got, pendingRows, queue, server, batch,
                       answer, carry, stopping>>
        /\ server = "delivering" /\ settled < Len(batch) /\ settled' = k
        /\ future' = [future EXCEPT ![c] =
               IF answer.ok THEN Result(Slice(answer.rows, batch, k)) ELSE Error]
    <2>1. /\ UNCHANGED <<closed, closer, caller, round, size, got, pendingRows, queue, server, batch,
                         answer, carry, stopping>>
          /\ server = "delivering" /\ settled < Len(batch) /\ settled' = settled + 1
      BY DEF Batching!Settle, Batching!asked, Batching!calls, Batching!working
    <2>2. future' = [future EXCEPT ![batch[settled'].by] =
               IF answer.ok THEN Result(Slice(answer.rows, batch, settled')) ELSE Error]
      BY BaSame DEF Batching!Settle
    <2>3. settled' = k
      BY <1>0, <2>1
    <2> QED
      BY <1>00, <2>1, <2>2, <2>3
  <1>2. /\ batch \in Seq(Requests) /\ settled \in Nat /\ Len(batch) \in Nat
        /\ future \in [Callers -> Outcomes \cup {Unanswered}]
        /\ answer.ok => answer.rows = Joined(batch)
    <2>1. batch \in Seq(Requests) /\ settled \in 0..Len(batch)
      BY DEF BaInv, BaTyped
    <2>2. Len(batch) \in Nat /\ settled \in Nat
      BY <2>1, LenProperties
    <2> QED
      BY <1>1, <2>1, <2>2 DEF BaInv, BaTyped, BaStages
  <1>3. k \in 1..Len(batch) /\ k \in OpenAt
          /\ \A n \in OpenAt' : n \in OpenAt /\ n # k
    BY <1>0, <1>1, <1>2 DEF OpenAt
  <1>4. /\ c \in Callers /\ caller[c] = "waiting" /\ future[c] = Unanswered
        /\ batch[k].rows = NextRows(c)
    <2>1. BaOffered(batch[k])
      BY <1>3 DEF BaInv, BaRequests
    <2>2. batch[k] = Request(c, NextRows(c))
      BY <1>00, <2>1 DEF BaOffered
    <2>3. batch[k].rows = NextRows(c)
      BY <2>2 DEF Request
    <2> QED
      BY <1>00, <2>1, <2>3 DEF BaOffered
  <1>5. Slice(Joined(batch), batch, k) = batch[k].rows /\ batch[k].rows \in Seq(Rows)
    <2>1. Slice(Joined(batch), batch, k) = batch[k].rows
      BY <1>2, <1>3, RequestsCarry, SliceIsOwn
    <2>2. batch[k] \in Requests
      BY <1>2, <1>3, ElementOfSeq
    <2> QED
      BY <2>1, <2>2 DEF Requests
  <1>6. future'[c] \in {Result(NextRows(c)), Error}
    BY <1>1, <1>2, <1>4, <1>5
  <1>7. /\ Error \in Outcomes /\ ~Error.ok
        /\ Result(NextRows(c)) \in Outcomes /\ Result(NextRows(c)).rows = NextRows(c)
    BY <1>4, <1>5, EmptySeq DEF Error, Result, Outcomes
  <1>8. /\ future' \in [Callers -> Outcomes \cup {Unanswered}]
        /\ \A d \in Callers : d # c => future'[d] = future[d]
    BY <1>1, <1>2, <1>4, <1>6, <1>7
  <1>9. BaTyped'
    <2>1. settled' \in 0..Len(batch')
      BY <1>0, <1>1, <1>2
    <2> QED
      BY <1>1, <1>8, <2>1 DEF BaInv, BaTyped
  <1>10. BaStages'
    BY <1>1 DEF BaInv, BaStages
  <1>11. /\ \A n \in DOMAIN queue : queue[n] # End => queue[n].by # c
         /\ \A n \in DOMAIN carry : carry[n].by # c
         /\ \A n \in OpenAt : n # k => batch[n].by # c
    BY <1>00, <1>3 DEF BaInv, BaApart
  <1>12. ASSUME NEW q, BaOffered(q), q.by # c
         PROVE  /\ q.by \in Callers /\ caller'[q.by] = "waiting" /\ future'[q.by] = Unanswered
                /\ q = Request(q.by, ChunkOf(RowsOf(q.by, round'[q.by], size'[q.by]),
                                             Len(got'[q.by].rows), size'[q.by]))
                /\ Len(q.rows) \in 1..MaxBatch
    BY <1>1, <1>8, <1>12 DEF BaOffered, NextRows, Mine
  <1>13. /\ \A n \in DOMAIN queue : queue[n] = End \/ BaOffered(queue[n])
         /\ \A n \in DOMAIN carry : BaOffered(carry[n])
         /\ \A n \in OpenAt : BaOffered(batch[n])
    BY DEF BaInv, BaRequests
  <1>14. BaRequests'
    <2>1. \A n \in DOMAIN queue' : queue'[n] = End \/ BaOffered(queue[n])'
      BY <1>1, <1>11, <1>12, <1>13 DEF BaOffered, NextRows, Mine
    <2>2. \A n \in DOMAIN carry' : BaOffered(carry[n])'
      BY <1>1, <1>11, <1>12, <1>13 DEF BaOffered, NextRows, Mine
    <2>3. \A n \in OpenAt' : BaOffered(batch[n])'
      BY <1>1, <1>3, <1>11, <1>12, <1>13 DEF BaOffered, NextRows, Mine
    <2> QED
      BY <2>1, <2>2, <2>3 DEF BaRequests
  <1>15. BaApart'
    BY <1>1, <1>3 DEF BaInv, BaApart, Twice
  <1>16. BaCalls'
    <2>1. \A d \in Callers : Mine(d)' = Mine(d)
      BY <1>1 DEF Mine
    <2>2. \A d \in Callers : NextRows(d)' = NextRows(d)
      BY <1>1, <2>1 DEF NextRows
    <2>3. ASSUME NEW d \in Callers
          PROVE  future'[d] # Unanswered =>
                   /\ caller'[d] = "waiting"
                   /\ future'[d].ok => future'[d].rows = NextRows(d)'
      <3>1. CASE d = c
        BY <1>1, <1>4, <1>6, <1>7, <2>2, <3>1
      <3>2. CASE d # c
        BY <1>1, <1>8, <2>2, <3>2 DEF BaInv, BaCalls
      <3> QED
        BY <3>1, <3>2
    <2> QED
      BY <1>1, <2>1, <2>3 DEF BaInv, BaCalls
  <1> QED
    BY <1>9, <1>10, <1>14, <1>15, <1>16 DEF BaInv

(* The batch gives its rows back. *)
LEMMA BaRelease ==
  ASSUME BaInv, Batching!Release
  PROVE  BaInv'
PROOF
  <1>1. /\ UNCHANGED <<closed, closer, round, size, got, future, queue, carry, stopping>>
        /\ server = "delivering" /\ settled = Len(batch)
        /\ pendingRows' = pendingRows - RowCount(batch)
        /\ caller' = Batching!Notified
        /\ batch' = <<>> /\ settled' = 0 /\ answer' = Error
        /\ server' \in {"stopped", "getting"}
    BY BaSame DEF Batching!Release, Batching!calls
  <1>2. /\ caller' \in [Callers -> {"idle", "entering", "blocked", "waiting"}]
        /\ \A c \in Callers : /\ caller'[c] = "idle" <=> caller[c] = "idle"
                              /\ caller'[c] = "waiting" <=> caller[c] = "waiting"
    BY <1>1, NotifiedIs
  <1>3. /\ batch' \in Seq(Requests) /\ RowCount(batch') = 0 /\ RowCount(batch') <= MaxBatch
        /\ Len(batch') = 0 /\ settled' \in 0..Len(batch')
    BY <1>1, EmptyCounts, Bounds
  <1>4. pendingRows' \in 0..MaxPending
          /\ pendingRows' = RowCount(queue') + RowCount(carry') + RowCount(batch')
    <2> DEFINE q == RowCount(queue)
               p == RowCount(carry)
               b == RowCount(batch)
    <2>1. /\ queue \in Seq(Requests \cup {End}) /\ carry \in Seq(Requests) /\ batch \in Seq(Requests)
          /\ pendingRows \in 0..MaxPending /\ pendingRows = q + p + b
      BY DEF BaInv, BaTyped
    <2>2. q \in Nat /\ p \in Nat /\ b \in Nat
      <3>1. q \in Nat
        BY <2>1, QueueCounts
      <3>2. p \in Nat
        BY <2>1, BatchCounts
      <3>3. b \in Nat
        BY <2>1, BatchCounts
      <3> QED
        BY <3>1, <3>2, <3>3
    <2>3. pendingRows' = pendingRows - b
      BY <1>1
    <2>4. RowCount(queue') = q /\ RowCount(carry') = p
      BY <1>1
    <2> HIDE DEF q, p, b
    <2>5. pendingRows' = q + p + 0 /\ pendingRows' \in 0..MaxPending
      BY <2>1, <2>2, <2>3, Bounds
    <2> QED
      BY <1>3, <2>4, <2>5
  <1>5. Error \in Outcomes
    BY EmptySeq DEF Error, Outcomes
  <1>6. BaTyped'
    BY <1>1, <1>2, <1>3, <1>4, <1>5 DEF BaInv, BaTyped
  <1>7. BaStages'
    BY <1>1 DEF BaInv, BaStages
  <1>8. \A k \in OpenAt' : FALSE
    BY <1>1, <1>3 DEF OpenAt
  <1>9. BaRequests'
    BY <1>1, <1>2, <1>8 DEF BaInv, BaRequests, BaOffered, NextRows, Mine
  <1>10. BaApart'
    BY <1>1, <1>8 DEF BaInv, BaApart, Twice
  <1>11. BaCalls'
    <2>1. \A d \in Callers : Mine(d)' = Mine(d)
      BY <1>1 DEF Mine
    <2>2. \A d \in Callers : NextRows(d)' = NextRows(d)
      BY <1>1, <2>1 DEF NextRows
    <2> QED
      BY <1>1, <1>2, <2>1, <2>2 DEF BaInv, BaCalls
  <1> QED
    BY <1>6, <1>7, <1>9, <1>10, <1>11 DEF BaInv

LEMMA BaUnchanged ==
  ASSUME BaInv, UNCHANGED <<shared, batching, future>>
  PROVE  BaInv'
PROOF
  <1>1. UNCHANGED <<queue, closed, closer, caller, round, size, got, server, batch,
                    pendingRows, settled, answer, carry, stopping, future>>
    BY DEF shared, batching
  <1>2. /\ caller' \in [Callers -> {"idle", "entering", "blocked", "waiting"}]
        /\ \A c \in Callers : caller'[c] = caller[c]
        /\ closed' \in BOOLEAN /\ stopping' \in BOOLEAN /\ answer' \in Outcomes
        /\ closer' \in {"open", "closing", "joining", "closed"}
        /\ server' \in {"getting", "gathering", "evaluating", "delivering", "stopped"}
    BY <1>1 DEF BaInv, BaTyped
  <1>3. BaStages'
    BY <1>1 DEF BaInv, BaStages
  <1> QED
    BY <1>1, <1>2, <1>3, BaElsewhere

LEMMA BaInductive ==
  ASSUME BaInv, Batching!Next
  PROVE  BaInv'
PROOF
  <1>1. ASSUME NEW c \in Callers, Batching!Evaluate(c) \/ Batching!Proceed(c)
        PROVE  BaInv'
    BY <1>1, BaEvaluate, BaOfferAgain, BaTake DEF Batching!Proceed
  <1>2. CASE Batching!Close \/ Batching!Finish
    BY <1>2, BaQuiet, BaPutEnd DEF Batching!Finish
  <1>3. CASE Batching!Serve
    BY <1>3, BaGet, BaGather, BaQuiet, BaModel, BaSettle, BaRelease DEF Batching!Serve
  <1> QED
    BY <1>1, <1>2, <1>3 DEF Batching!Next

LEMMA BaPhases ==
  /\ BaTyped /\ which = "batching" => Phases = [c \in Callers |-> CoPhase(c)]
  /\ BaTyped' /\ which' = "batching" => Phases' = [c \in Callers |-> CoPhase(c)']
PROOF
  <1>1. \A b, c, k, n, g : Batching!PhaseOf(b, c, k, n, g) = PhaseOf(b, c, k, n, g)
    BY BaSame
  <1>2. ASSUME BaTyped, which = "batching"
        PROVE  Phases = [c \in Callers |-> CoPhase(c)]
    <2>1. DOMAIN caller = Callers
      BY <1>2 DEF BaTyped
    <2>2. \A c \in Callers : PhaseIn(c) = CoPhase(c)
      BY <1>1, <1>2 DEF PhaseIn, Batching!Phase, CoPhase
    <2> QED
      BY <2>1, <2>2 DEF Phases
  <1>3. ASSUME BaTyped', which' = "batching"
        PROVE  Phases' = [c \in Callers |-> CoPhase(c)']
    <2>1. DOMAIN caller' = Callers
      BY <1>3 DEF BaTyped
    <2>2. \A c \in Callers : PhaseIn(c)' = CoPhase(c)'
      BY <1>1, <1>3 DEF PhaseIn, Batching!Phase, CoPhase
    <2> QED
      BY <2>1, <2>2 DEF Phases
  <1> QED
    BY <1>2, <1>3

LEMMA BaPromise ==
  ASSUME BaInv, BaInv', which = "batching", which' = "batching", Batching!Next
  PROVE  [Abstract!Next]_(Abstract!vars)
PROOF
  <1> DEFINE p == Phases
             q == Phases'
  <1>1. p = [c \in Callers |-> CoPhase(c)]
    BY BaPhases DEF BaInv
  <1>2. q = [c \in Callers |-> CoPhase(c)']
    BY BaPhases DEF BaInv
  <1>3. \A c \in Callers : p[c] = CoPhase(c) /\ q[c] = CoPhase(c)'
    BY <1>1, <1>2
  <1>4. ASSUME \A c \in Callers : CoPhase(c)' = CoPhase(c)
        PROVE  p = q
    BY <1>1, <1>2, <1>4
  <1> HIDE DEF p, q
  <1>5. closed \in BOOLEAN
    BY DEF BaInv, BaTyped
  <1>6. \A c \in Callers : caller[c] = "idle" => CoPhase(c) \in {"none", "answered", "failed"}
    BY DEF BaInv, BaCalls, CoPhase, PhaseOf, Mine
  <1>7. \A c \in Callers : caller[c] # "idle" => CoPhase(c) = "waiting"
    BY DEF CoPhase, PhaseOf
  <1>8. \A c \in Callers : caller'[c] # "idle" => CoPhase(c)' = "waiting"
    BY DEF CoPhase, PhaseOf
  <1>9. \A c \in Callers : caller'[c] = "idle" /\ round'[c] # 0 =>
           CoPhase(c)' = IF got'[c].ok THEN "answered" ELSE "failed"
    BY DEF BaInv, BaCalls, CoPhase, PhaseOf, Mine
  <1>10. ASSUME NEW c \in Callers, Goes(p[c], q[c], ~closed), closed' = closed,
                \A d \in Callers : d # c => CoPhase(d)' = CoPhase(d)
         PROVE  [Abstract!Next]_(Abstract!vars)
    <2>1. /\ Goes(Phases[c], Phases'[c], ~closed)
          /\ \A d \in Callers : d # c => Phases'[d] = Phases[d]
      BY <1>3, <1>10 DEF p, q
    <2> QED
      BY <1>10, <2>1, PromiseKept
  <1>11. ASSUME closed' \in {closed, TRUE}, \A c \in Callers : CoPhase(c)' = CoPhase(c)
         PROVE  [Abstract!Next]_(Abstract!vars)
    <2>1. Phases' = Phases
      BY <1>4, <1>11 DEF p, q
    <2> QED
      BY <1>11, <2>1, PromiseKept
  <1>12. ASSUME NEW c \in Callers, Batching!Evaluate(c)
         PROVE  [Abstract!Next]_(Abstract!vars)
    <2>1. /\ caller[c] = "idle" /\ closed' = closed /\ round[c] \in Nat
          /\ round' = [round EXCEPT ![c] = round[c] + 1]
          /\ \E n \in 1..MaxRows : size' = [size EXCEPT ![c] = n] /\ Batching!Offer(c, n, 0)
      BY <1>12 DEF BaInv, BaTyped, Batching!Evaluate, Batching!working
    <2>2. /\ \A d \in Callers : d # c => /\ caller'[d] = caller[d] /\ round'[d] = round[d]
                                         /\ size'[d] = size[d] /\ got'[d] = got[d]
          /\ round'[c] = round[c] + 1
          /\ \/ closed /\ caller'[c] = "idle" /\ ~got'[c].ok
             \/ ~closed /\ caller'[c] # "idle"
      <3>1. PICK n \in 1..MaxRows : size' = [size EXCEPT ![c] = n] /\ Batching!Offer(c, n, 0)
        BY <2>1
      <3>2. /\ caller \in [Callers -> {"idle", "entering", "blocked", "waiting"}]
            /\ DOMAIN got = Callers /\ DOMAIN round = Callers /\ DOMAIN size = Callers
        BY DEF BaInv, BaTyped
      <3>3. \E o : got' = [got EXCEPT ![c] = o]
        BY <3>1 DEF Batching!Offer
      <3>4. \/ closed /\ caller' = [caller EXCEPT ![c] = "idle"] /\ got' = [got EXCEPT ![c] = Error]
            \/ ~closed /\ \E x \in {"blocked", "waiting"} : caller' = [caller EXCEPT ![c] = x]
        BY <3>1, BaSame DEF Batching!Offer
      <3>5. ~Error.ok
        BY DEF Error
      <3>6. \A d \in Callers : d # c => /\ caller'[d] = caller[d] /\ round'[d] = round[d]
                                       /\ size'[d] = size[d] /\ got'[d] = got[d]
        BY <2>1, <3>1, <3>2, <3>3, <3>4
      <3>7. round'[c] = round[c] + 1
        BY <2>1, <3>2
      <3>8. \/ closed /\ caller'[c] = "idle" /\ ~got'[c].ok
            \/ ~closed /\ caller'[c] # "idle"
        BY <3>2, <3>4, <3>5
      <3> QED
        BY <3>6, <3>7, <3>8
    <2>3. round'[c] # 0
      BY <2>1, <2>2
    <2>4. Goes(p[c], q[c], ~closed)
      BY <1>3, <1>5, <1>6, <1>8, <1>9, <2>1, <2>2, <2>3 DEF Goes
    <2>5. \A d \in Callers : d # c => CoPhase(d)' = CoPhase(d)
      BY <2>2 DEF CoPhase
    <2> QED
      BY <1>10, <2>1, <2>4, <2>5
  <1>13. ASSUME NEW c \in Callers, caller[c] # "idle", closed' = closed,
                UNCHANGED <<round, size>>,
                \A d \in Callers : d # c => caller'[d] = caller[d] /\ got'[d] = got[d]
         PROVE  [Abstract!Next]_(Abstract!vars)
    <2>1. \A d \in Callers : d # c => CoPhase(d)' = CoPhase(d)
      BY <1>13 DEF CoPhase
    <2>2. CASE caller'[c] = "idle"
      <3>1. round'[c] # 0
        BY <1>13 DEF BaInv, BaTyped
      <3>2. Goes(p[c], q[c], ~closed)
        BY <1>3, <1>7, <1>9, <1>13, <2>2, <3>1 DEF Goes
      <3> QED
        BY <1>10, <1>13, <2>1, <3>2
    <2>3. CASE caller'[c] # "idle"
      <3>1. CoPhase(c)' = CoPhase(c)
        BY <1>7, <1>8, <1>13, <2>3
      <3> QED
        BY <1>11, <1>13, <2>1, <3>1
    <2> QED
      BY <2>2, <2>3
  <1>14. ASSUME NEW c \in Callers, Batching!Proceed(c)
         PROVE  [Abstract!Next]_(Abstract!vars)
    <2>1. /\ caller[c] # "idle" /\ closed' = closed /\ UNCHANGED <<round, size>>
          /\ \A d \in Callers : d # c => caller'[d] = caller[d] /\ got'[d] = got[d]
      <3>1. CASE Batching!OfferAgain(c)
        <4>1. /\ caller[c] = "entering" /\ closed' = closed /\ UNCHANGED <<round, size>>
              /\ Batching!Offer(c, size[c], Len(got[c].rows))
          BY <3>1 DEF Batching!OfferAgain, Batching!calls
        <4>2. \A d \in Callers : d # c => caller'[d] = caller[d] /\ got'[d] = got[d]
          BY <4>1 DEF BaInv, BaTyped, Batching!Offer
        <4> QED
          BY <4>1, <4>2
      <3>2. CASE Batching!Take(c)
        <4>1. /\ caller[c] = "waiting" /\ closed' = closed /\ UNCHANGED <<round, size>>
          BY <3>2 DEF Batching!Take, Batching!calls
        <4>2. \A d \in Callers : d # c => caller'[d] = caller[d] /\ got'[d] = got[d]
          BY <3>2 DEF BaInv, BaTyped, Batching!Take
        <4> QED
          BY <4>1, <4>2
      <3> QED
        BY <1>14, <3>1, <3>2 DEF Batching!Proceed
    <2> QED
      BY <1>13, <2>1
  <1>15. ASSUME UNCHANGED <<round, size, got>>, closed' \in {closed, TRUE},
                caller' \in {caller, Batching!Notified}
         PROVE  [Abstract!Next]_(Abstract!vars)
    <2>1. \A d \in Callers : caller'[d] = "idle" <=> caller[d] = "idle"
      BY <1>15, NotifiedIs
    <2>2. \A d \in Callers : CoPhase(d)' = CoPhase(d)
      BY <1>15, <2>1 DEF CoPhase
    <2> QED
      BY <1>11, <1>15, <2>2
  <1>16. ASSUME \/ Batching!Close \/ Batching!Finish \/ Batching!Serve
         PROVE  [Abstract!Next]_(Abstract!vars)
    <2>1. UNCHANGED <<round, size, got>> /\ closed' \in {closed, TRUE}
            /\ caller' \in {caller, Batching!Notified}
      <3>1. CASE Batching!Close \/ Batching!PutEnd \/ Batching!Join
        BY <3>1 DEF Batching!Close, Batching!PutEnd, Batching!Join, Batching!calls
      <3>2. CASE Batching!Get \/ Batching!Gather \/ Batching!EndGathering \/ Batching!Model
                 \/ Batching!Settle
        BY <3>2 DEF Batching!Get, Batching!Gather, Batching!EndGathering, Batching!Model,
                    Batching!Settle, Batching!asked, Batching!calls
      <3>3. CASE Batching!Release
        BY <3>3 DEF Batching!Release, Batching!calls
      <3> QED
        BY <1>16, <3>1, <3>2, <3>3 DEF Batching!Finish, Batching!Serve
    <2> QED
      BY <1>15, <2>1
  <1> QED
    BY <1>12, <1>14, <1>16 DEF Batching!Next

----------------------------------------------------------------------------
(* The inference services.  C are the callers of one of them; a call has   *)
(* one row.                                                                *)

RowsIn(C) == [by : C, call : Nat, row : 1..1]
RequestsIn(C) == [by : C, rows : Seq(RowsIn(C))]
OutcomesIn(C) == [ok : BOOLEAN, rows : Seq(RowsIn(C))]
IdsIn(C) == C \X Nat
AnswersIn(C) == [id : IdsIn(C), rows : Seq(RowsIn(C)), version : Nat]

LatestOf(c) == <<c, round[c]>>

(* An answer on its way is that to the rows of its call, and not older     *)
(* than what had been confirmed as that call began.                        *)
Right(a) ==
    /\ a.id[2] <= round[a.id[1]]
    /\ a.rows = RowsOf(a.id[1], a.id[2], 1)
    /\ a.id[2] = round[a.id[1]] => a.version >= floor[a.id[1]]

ClTyped(C) ==
    /\ caller \in [C -> {"idle", "registered", "submitting", "waiting", "giving up"}]
    /\ round \in [C -> Nat] /\ size \in [C -> 0..1]
    /\ got \in [C -> OutcomesIn(C)] /\ future \in [C -> OutcomesIn(C) \cup {Unanswered}]
    /\ table \subseteq IdsIn(C) /\ doomed \subseteq IdsIn(C)
    /\ popped = <<>> \/ \E a \in AnswersIn(C) : popped = <<a>>
    /\ closed \in BOOLEAN
    /\ closer \in {"open", "cancelling", "waking", "stopping", "closed"}
    /\ floor \in [C -> Nat] /\ version \in [C -> Nat]

(* The table holds calls that wait, and a call that somebody will end is   *)
(* in one place.                                                           *)
ClTable ==
    /\ closed <=> closer # "open"
    /\ closer # "waking" => doomed = {}
    /\ \A id \in table :
          id[2] = round[id[1]] /\ caller[id[1]] # "idle" /\ future[id[1]] = Unanswered
    /\ \A id \in doomed : id[2] <= round[id[1]] /\ id \notin table
    /\ popped # <<>> => Right(popped[1]) /\ popped[1].id \notin table

(* Somebody will end a call that has no result yet. *)
Ends(c) == \/ LatestOf(c) \in table \cup doomed
           \/ popped # <<>> /\ popped[1].id = LatestOf(c)

ClCall(c) ==
    /\ round[c] # 0 => size[c] = 1
    /\ caller[c] # "idle" => round[c] # 0 /\ ~got[c].ok
    /\ future[c].ok => future[c].rows = RowsOf(c, round[c], 1) /\ version[c] >= floor[c]
    /\ got[c].ok => got[c].rows = RowsOf(c, round[c], 1) /\ version[c] >= floor[c]
    /\ caller[c] \in {"registered", "submitting", "waiting"} /\ future[c] = Unanswered => Ends(c)
    /\ caller[c] \in {"submitting", "waiting"} /\ closer \in {"waking", "stopping", "closed"} =>
         LatestOf(c) \notin table

InClients(C) == ClTyped(C) /\ ClTable /\ \A c \in C : ClCall(c)

LEMMA ClSame ==
  ASSUME NEW C, InClients(C),
         UNCHANGED <<caller, round, size, got, future, table, doomed, popped, closed, closer,
                     floor, version>>
  PROVE  InClients(C)'
BY DEF InClients, ClTyped, ClTable, Right, ClCall, Ends, LatestOf

(* A call begins. *)
LEMMA ClRegister ==
  ASSUME NEW C, InClients(C), NEW c \in C, caller[c] = "idle", NEW k \in Nat,
         round' = [round EXCEPT ![c] = round[c] + 1], size' = [size EXCEPT ![c] = 1],
         floor' = [floor EXCEPT ![c] = k],
         table' = table \cup {<<c, round[c] + 1>>},
         future' = [future EXCEPT ![c] = Unanswered],
         got' = [got EXCEPT ![c] = Error],
         version' = [version EXCEPT ![c] = 0],
         caller' = [caller EXCEPT ![c] = "registered"],
         UNCHANGED <<popped, doomed, closed, closer>>
  PROVE  InClients(C)'
PROOF
  <1>1. Error \in OutcomesIn(C) /\ ~Error.ok
    BY EmptySeq DEF Error, OutcomesIn
  <1>2. ClTyped(C)
    BY DEF InClients
  <1>3. /\ round' \in [C -> Nat] /\ round'[c] = round[c] + 1 /\ round[c] \in Nat
        /\ size'[c] = 1 /\ future'[c] = Unanswered /\ got'[c] = Error
        /\ version'[c] = 0 /\ caller'[c] = "registered"
        /\ \A d \in C : d # c =>
             /\ round'[d] = round[d] /\ size'[d] = size[d] /\ floor'[d] = floor[d]
             /\ future'[d] = future[d] /\ got'[d] = got[d] /\ version'[d] = version[d]
             /\ caller'[d] = caller[d]
    <2>1. /\ DOMAIN round = C /\ DOMAIN size = C /\ DOMAIN floor = C /\ DOMAIN future = C
          /\ DOMAIN got = C /\ DOMAIN version = C /\ DOMAIN caller = C
          /\ round \in [C -> Nat]
      BY <1>2 DEF ClTyped
    <2>2. round' \in [C -> Nat] /\ round'[c] = round[c] + 1 /\ round[c] \in Nat
      BY <2>1
    <2>3. /\ size'[c] = 1 /\ future'[c] = Unanswered /\ got'[c] = Error
          /\ version'[c] = 0 /\ caller'[c] = "registered"
      BY <2>1
    <2> QED
      BY <2>1, <2>2, <2>3
  <1>4. <<c, round[c] + 1>> \in IdsIn(C)
    BY <1>3 DEF IdsIn
  <1>5. ClTyped(C)'
    <2>1. table' \subseteq IdsIn(C) /\ size' \in [C -> 0..1]
      <3>1. table \subseteq IdsIn(C) /\ size \in [C -> 0..1]
        BY <1>2 DEF ClTyped
      <3>2. size' \in [C -> 0..1]
        <4>1. 1 \in 0..1
          OBVIOUS
        <4> QED
          BY <3>1, <4>1
      <3> QED
        BY <1>4, <3>1, <3>2
    <2>2. got' \in [C -> OutcomesIn(C)] /\ future' \in [C -> OutcomesIn(C) \cup {Unanswered}]
      BY <1>1, <1>2 DEF ClTyped
    <2>3. floor' \in [C -> Nat] /\ version' \in [C -> Nat]
      BY <1>2 DEF ClTyped
    <2>4. caller' \in [C -> {"idle", "registered", "submitting", "waiting", "giving up"}]
      BY <1>2 DEF ClTyped
    <2> QED
      BY <1>2, <1>3, <2>1, <2>2, <2>3, <2>4 DEF ClTyped
  <1>6. \A id \in IdsIn(C) : id[1] \in C /\ id[2] \in Nat
    BY DEF IdsIn
  <1>7. \A id \in table : id[1] # c
    BY <1>2, <1>6 DEF ClTyped, InClients, ClTable
  <1>8. \A id \in IdsIn(C) : id[2] <= round[id[1]] => /\ id[2] <= round'[id[1]]
                                                      /\ id # <<c, round[c] + 1>>
                                                      /\ id[2] = round'[id[1]] => id[1] # c
    <2> SUFFICES ASSUME NEW id \in IdsIn(C), id[2] <= round[id[1]]
                 PROVE  /\ id[2] <= round'[id[1]] /\ id # <<c, round[c] + 1>>
                        /\ id[2] = round'[id[1]] => id[1] # c
      OBVIOUS
    <2>1. id[1] \in C /\ id[2] \in Nat
      BY <1>6
    <2>2. CASE id[1] = c
      <3>1. id[2] <= round[c] /\ id[2] # round[c] + 1
        BY <1>3, <2>1, <2>2
      <3> QED
        BY <1>3, <2>1, <2>2, <3>1
    <2>3. CASE id[1] # c
      BY <1>3, <2>1, <2>3
    <2> QED
      BY <2>2, <2>3
  <1>9. \A id \in table' :
          id[2] = round'[id[1]] /\ caller'[id[1]] # "idle" /\ future'[id[1]] = Unanswered
    <2> SUFFICES ASSUME NEW id \in table'
                 PROVE  id[2] = round'[id[1]] /\ caller'[id[1]] # "idle" /\ future'[id[1]] = Unanswered
      OBVIOUS
    <2>1. CASE id = <<c, round[c] + 1>>
      BY <1>3, <2>1
    <2>2. CASE id \in table
      <3>1. id[1] # c /\ id[1] \in C
        BY <1>2, <1>6, <1>7, <2>2 DEF ClTyped
      <3> QED
        BY <1>3, <2>2, <3>1 DEF InClients, ClTable
    <2> QED
      BY <2>1, <2>2
  <1>10. \A id \in doomed' : id[2] <= round'[id[1]] /\ id \notin table'
    BY <1>2, <1>8 DEF InClients, ClTyped, ClTable
  <1>11. popped' # <<>> => Right(popped[1])' /\ popped'[1].id \notin table'
    <2> SUFFICES ASSUME popped # <<>>
                 PROVE  Right(popped[1])' /\ popped'[1].id \notin table'
      OBVIOUS
    <2>1. PICK a \in AnswersIn(C) : popped = <<a>>
      BY <1>2 DEF ClTyped
    <2>2. Right(a) /\ a.id \notin table /\ a.id \in IdsIn(C) /\ popped' = <<a>> /\ popped'[1] = a
      BY <2>1 DEF InClients, ClTable, AnswersIn
    <2>3. a.id[2] <= round'[a.id[1]] /\ a.id # <<c, round[c] + 1>>
            /\ (a.id[2] = round'[a.id[1]] => a.id[1] # c) /\ a.id[1] \in C
      BY <1>6, <1>8, <2>2 DEF Right
    <2>4. a.id[2] = round'[a.id[1]] => a.version >= floor'[a.id[1]]
      BY <1>3, <2>2, <2>3 DEF Right
    <2> QED
      BY <2>2, <2>3, <2>4 DEF Right
  <1>12. ClTable'
    BY <1>9, <1>10, <1>11 DEF InClients, ClTable
  <1>13. ASSUME NEW d \in C
         PROVE  ClCall(d)'
    <2>1. CASE d = c
      BY <1>1, <1>3, <2>1 DEF ClCall, Ends, LatestOf, Unanswered
    <2>2. CASE d # c
      <3>1. ClCall(d)
        BY DEF InClients
      <3>2. LatestOf(d)' = LatestOf(d) /\ LatestOf(d) # <<c, round[c] + 1>>
        BY <1>3, <2>2 DEF LatestOf
      <3>3. Ends(d) => Ends(d)'
        BY <3>2 DEF Ends
      <3> QED
        BY <1>3, <2>2, <3>1, <3>2, <3>3 DEF ClCall
    <2> QED
      BY <2>1, <2>2
  <1> QED
    BY <1>5, <1>12, <1>13 DEF InClients

(* A caller goes on with its call. *)
LEMMA ClGoOn ==
  ASSUME NEW C, InClients(C), NEW c \in C, caller[c] # "idle",
         NEW p \in {"submitting", "waiting", "giving up"},
         p # "giving up" => /\ caller[c] # "giving up"
                            /\ caller[c] \in {"submitting", "waiting"} \/ ~closed,
         caller' = [caller EXCEPT ![c] = p],
         UNCHANGED <<round, size, got, future, table, doomed, popped, closed, closer,
                     floor, version>>
  PROVE  InClients(C)'
PROOF
  <1>1. ClTyped(C) /\ ClTable
    BY DEF InClients
  <1>2. /\ caller'[c] = p /\ \A d \in C : d # c => caller'[d] = caller[d]
        /\ \A d \in C : caller'[d] = "idle" <=> caller[d] = "idle"
    BY <1>1 DEF ClTyped
  <1>3. ClTyped(C)'
    BY <1>1 DEF ClTyped
  <1>4. ClTable'
    <2>1. \A id \in table : id[1] \in C
      BY <1>1 DEF ClTyped, IdsIn
    <2> QED
      BY <1>1, <1>2, <2>1 DEF ClTable, Right
  <1>5. \A d \in C : LatestOf(d)' = LatestOf(d) /\ Ends(d)' = Ends(d)
    BY DEF LatestOf, Ends
  <1>6. ASSUME NEW d \in C
        PROVE  ClCall(d)'
    <2>1. ClCall(d)
      BY DEF InClients
    <2>2. CASE d # c
      BY <1>2, <1>5, <2>1, <2>2 DEF ClCall
    <2>3. CASE d = c
      <3>1. caller[c] \in {"idle", "registered", "submitting", "waiting", "giving up"}
        BY <1>1 DEF ClTyped
      <3>2. ~closed => closer = "open"
        BY <1>1 DEF ClTable
      <3> QED
        BY <1>2, <1>5, <2>1, <2>3, <3>1, <3>2 DEF ClCall
    <2> QED
      BY <2>2, <2>3
  <1> QED
    BY <1>3, <1>4, <1>6 DEF InClients

(* A call ends. *)
LEMMA ClEnd ==
  ASSUME NEW C, InClients(C), NEW c \in C, caller[c] # "idle",
         caller' = [caller EXCEPT ![c] = "idle"],
         \/ got' = got
         \/ future[c] # Unanswered /\ got' = [got EXCEPT ![c] = future[c]],
         table' \in {table, table \ {<<c, round[c]>>}},
         future[c] # Unanswered \/ table' = table \ {<<c, round[c]>>},
         UNCHANGED <<round, size, future, doomed, popped, closed, closer, floor, version>>
  PROVE  InClients(C)'
PROOF
  <1>1. ClTyped(C) /\ ClTable /\ ClCall(c)
    BY DEF InClients
  <1>2. /\ caller'[c] = "idle" /\ \A d \in C : d # c => caller'[d] = caller[d] /\ got'[d] = got[d]
        /\ got'[c] = got[c] \/ got'[c] = future[c]
    BY <1>1 DEF ClTyped
  <1>3. ClTyped(C)'
    <2>1. table' \subseteq IdsIn(C)
      BY <1>1 DEF ClTyped
    <2>2. future[c] # Unanswered => future[c] \in OutcomesIn(C)
      BY <1>1 DEF ClTyped
    <2>3. got' \in [C -> OutcomesIn(C)] /\ caller' \in [C -> {"idle", "registered", "submitting", "waiting", "giving up"}]
      BY <1>1, <2>2 DEF ClTyped
    <2> QED
      BY <1>1, <2>1, <2>3 DEF ClTyped
  <1>4. \A id \in table' : id \in table /\ id[1] \in C /\ id[1] # c
    <2> SUFFICES ASSUME NEW id \in table' PROVE id \in table /\ id[1] \in C /\ id[1] # c
      OBVIOUS
    <2>1. id \in table /\ id \in IdsIn(C)
      BY <1>1 DEF ClTyped
    <2>2. id[1] \in C /\ id = <<id[1], id[2]>>
      BY <2>1 DEF IdsIn
    <2>3. id[2] = round[id[1]] /\ future[id[1]] = Unanswered
      BY <1>1, <2>1 DEF ClTable
    <2>4. ASSUME id[1] = c PROVE FALSE
      <3>1. id = <<c, round[c]>> /\ future[c] = Unanswered
        BY <2>2, <2>3, <2>4
      <3> QED
        BY <3>1
    <2> QED
      BY <2>1, <2>2, <2>4
  <1>5. ClTable'
    BY <1>1, <1>2, <1>4 DEF ClTable, Right
  <1>6. \A d \in C : LatestOf(d)' = LatestOf(d)
    BY DEF LatestOf
  <1>7. ASSUME NEW d \in C, d # c
        PROVE  ClCall(d)'
    <2>1. ClCall(d)
      BY DEF InClients
    <2>2. LatestOf(d) # <<c, round[c]>>
      BY <1>7 DEF LatestOf
    <2>3. Ends(d) => Ends(d)'
      BY <1>6, <2>2 DEF Ends
    <2>4. LatestOf(d) \notin table => LatestOf(d) \notin table'
      OBVIOUS
    <2> QED
      BY <1>2, <1>6, <1>7, <2>1, <2>3, <2>4 DEF ClCall
  <1>8. ClCall(c)'
    BY <1>1, <1>2 DEF ClCall
  <1> QED
    BY <1>3, <1>5, <1>7, <1>8 DEF InClients

(* A result is taken out of the table. *)
LEMMA ClPop ==
  ASSUME NEW C, InClients(C), NEW a \in AnswersIn(C), Right(a), popped = <<>>,
         table' = table \ {a.id},
         popped' = IF a.id \in table THEN <<a>> ELSE <<>>,
         UNCHANGED <<caller, round, size, got, future, doomed, closed, closer, floor, version>>
  PROVE  InClients(C)'
PROOF
  <1>1. ClTyped(C) /\ ClTable
    BY DEF InClients
  <1>2. ClTyped(C)'
    BY <1>1 DEF ClTyped
  <1>3. popped' # <<>> => popped'[1] = a /\ a.id \in table
    OBVIOUS
  <1>4. a.id \in table => popped' # <<>> /\ popped'[1] = a
    OBVIOUS
  <1>5. ClTable'
    BY <1>1, <1>3 DEF ClTable, Right
  <1>6. ASSUME NEW d \in C
        PROVE  ClCall(d)'
    <2>1. ClCall(d) /\ LatestOf(d)' = LatestOf(d)
      BY DEF InClients, LatestOf
    <2>2. Ends(d) => Ends(d)'
      BY <1>4, <2>1 DEF Ends
    <2> QED
      BY <2>1, <2>2 DEF ClCall
  <1> QED
    BY <1>2, <1>5, <1>6 DEF InClients

(* A result is handed over, unless its call has given up and another one   *)
(* has begun.                                                              *)
LEMMA ClHandOver ==
  ASSUME NEW C, InClients(C), popped # <<>>, NEW c \in C, popped[1].id[1] = c,
         popped' = <<>>,
         \/ /\ popped[1].id = LatestOf(c)
            /\ future' = [future EXCEPT ![c] = Result(popped[1].rows)]
            /\ version' = [version EXCEPT ![c] = popped[1].version]
         \/ popped[1].id # LatestOf(c) /\ UNCHANGED <<future, version>>,
         UNCHANGED <<caller, round, size, got, table, doomed, closed, closer, floor>>
  PROVE  InClients(C)'
PROOF
  <1>1. ClTyped(C) /\ ClTable
    BY DEF InClients
  <1>2. PICK a \in AnswersIn(C) : popped = <<a>>
    BY <1>1 DEF ClTyped
  <1>3. /\ popped[1] = a /\ Right(a) /\ a.id \notin table /\ a.id[1] = c
        /\ a.id \in IdsIn(C) /\ a.rows \in Seq(RowsIn(C)) /\ a.version \in Nat
    <2>1. popped[1] = a
      BY <1>2
    <2> QED
      BY <1>1, <2>1 DEF ClTable, AnswersIn
  <1>4. Result(a.rows) \in OutcomesIn(C) /\ Result(a.rows) # Unanswered /\ Result(a.rows).ok
          /\ Result(a.rows).rows = a.rows
    BY <1>3 DEF Result, OutcomesIn, Unanswered
  <1>5. \A d \in C : LatestOf(d)' = LatestOf(d)
    BY DEF LatestOf
  <1>6. CASE a.id # LatestOf(c)
    <2>1. UNCHANGED <<future, version>>
      BY <1>3, <1>6
    <2>2. ClTyped(C)' /\ ClTable'
      BY <1>1, <2>1 DEF ClTyped, ClTable
    <2>3. ASSUME NEW d \in C
          PROVE  ClCall(d)'
      <3>1. popped # <<>> /\ popped[1].id = LatestOf(d) => FALSE
        <4>1. ASSUME a.id = LatestOf(d) PROVE FALSE
          <5>1. a.id[1] = d
            BY <4>1 DEF LatestOf
          <5> QED
            BY <1>3, <1>6, <4>1, <5>1
        <4> QED
          BY <1>3, <4>1
      <3>2. Ends(d) => Ends(d)'
        BY <1>5, <3>1 DEF Ends
      <3> QED
        BY <1>5, <2>1, <3>2 DEF InClients, ClCall
    <2> QED
      BY <2>2, <2>3 DEF InClients
  <1>7. CASE a.id = LatestOf(c)
    <2>1. /\ future' = [future EXCEPT ![c] = Result(a.rows)]
          /\ version' = [version EXCEPT ![c] = a.version]
      BY <1>3, <1>7
    <2>2. /\ future'[c] = Result(a.rows) /\ version'[c] = a.version
          /\ \A d \in C : d # c => future'[d] = future[d] /\ version'[d] = version[d]
      BY <1>1, <2>1 DEF ClTyped
    <2>3. ClTyped(C)'
      <3>1. future' \in [C -> OutcomesIn(C) \cup {Unanswered}]
        BY <1>1, <1>4, <2>1 DEF ClTyped
      <3>2. version' \in [C -> Nat]
        BY <1>1, <1>3, <2>1 DEF ClTyped
      <3> QED
        BY <1>1, <3>1, <3>2 DEF ClTyped
    <2>4. \A id \in table : id[1] \in C /\ id[1] # c
      <3> SUFFICES ASSUME NEW id \in table PROVE id[1] \in C /\ id[1] # c
        OBVIOUS
      <3>0. id \in IdsIn(C)
        BY <1>1 DEF ClTyped
      <3>1. id[1] \in C /\ id = <<id[1], id[2]>>
        BY <3>0 DEF IdsIn
      <3>2. id[2] = round[id[1]]
        BY <1>1 DEF ClTable
      <3>3. id[1] = c => id = a.id
        BY <1>7, <3>1, <3>2 DEF LatestOf
      <3> QED
        BY <1>3, <3>1, <3>3
    <2>5. ClTable'
      BY <1>1, <2>2, <2>4 DEF ClTable
    <2>6. ASSUME NEW d \in C, d # c
          PROVE  ClCall(d)'
      <3>1. ClCall(d) /\ LatestOf(d)' = LatestOf(d) /\ LatestOf(d) # LatestOf(c)
        BY <2>6 DEF InClients, LatestOf
      <3>2. Ends(d) => Ends(d)'
        BY <1>3, <1>7, <3>1 DEF Ends
      <3> QED
        BY <2>2, <2>6, <3>1, <3>2 DEF ClCall
    <2>7. ClCall(c)'
      <3>1. a.id = <<c, round[c]>> /\ a.id[2] = round[c]
        BY <1>7 DEF LatestOf
      <3>2. a.rows = RowsOf(c, round[c], 1) /\ a.version >= floor[c]
        BY <1>3, <3>1 DEF Right
      <3>3. ClCall(c) /\ LatestOf(c)' = LatestOf(c)
        BY DEF InClients, LatestOf
      <3> QED
        BY <1>4, <2>2, <3>2, <3>3 DEF ClCall
    <2> QED
      BY <2>3, <2>5, <2>6, <2>7 DEF InClients
  <1> QED
    BY <1>6, <1>7

(* stop: the service is closed, and in the end the batcher is told. *)
LEMMA ClStop ==
  ASSUME NEW C, InClients(C),
         \/ closer = "open" /\ closed' = TRUE /\ closer' = "cancelling"
         \/ closer = "stopping" /\ closed' = closed /\ closer' = "closed",
         UNCHANGED <<caller, round, size, got, future, table, doomed, popped, floor, version>>
  PROVE  InClients(C)'
PROOF
  <1>1. ClTyped(C) /\ ClTable
    BY DEF InClients
  <1>2. ClTyped(C)'
    BY <1>1 DEF ClTyped
  <1>3. ClTable'
    BY <1>1 DEF ClTable, Right
  <1>4. ASSUME NEW d \in C
        PROVE  ClCall(d)'
    BY DEF InClients, ClCall, Ends, LatestOf
  <1> QED
    BY <1>2, <1>3, <1>4 DEF InClients

LEMMA ClCancelAll ==
  ASSUME NEW C, InClients(C), closer = "cancelling", closer' = "waking",
         doomed' = table, table' = {},
         UNCHANGED <<caller, round, size, got, future, popped, closed, floor, version>>
  PROVE  InClients(C)'
PROOF
  <1>1. ClTyped(C) /\ ClTable
    BY DEF InClients
  <1>2. ClTyped(C)'
    BY <1>1 DEF ClTyped
  <1>3. \A id \in table : id[2] <= round[id[1]]
    <2>0. \A id \in table : id \in IdsIn(C) /\ id[2] = round[id[1]]
      BY <1>1 DEF ClTyped, ClTable
    <2>1. \A id \in table : id[1] \in C /\ id[2] = round[id[1]]
      BY <2>0 DEF IdsIn
    <2>2. \A c \in C : round[c] \in Nat
      BY <1>1 DEF ClTyped
    <2> QED
      BY <2>1, <2>2
  <1>4. ClTable'
    BY <1>1, <1>3 DEF ClTable, Right
  <1>5. doomed = {}
    BY <1>1 DEF ClTable
  <1>6. ASSUME NEW d \in C
        PROVE  ClCall(d)'
    BY <1>5 DEF InClients, ClCall, Ends, LatestOf
  <1> QED
    BY <1>2, <1>4, <1>6 DEF InClients

LEMMA ClWakeAll ==
  ASSUME NEW C, InClients(C), closer = "waking", closer' = "stopping",
         future' = [c \in C |-> IF <<c, round[c]>> \in doomed THEN Error ELSE future[c]],
         doomed' = {},
         UNCHANGED <<caller, round, size, got, table, popped, closed, floor, version>>
  PROVE  InClients(C)'
PROOF
  <1>1. ClTyped(C) /\ ClTable
    BY DEF InClients
  <1>2. Error \in OutcomesIn(C) /\ ~Error.ok /\ Error # Unanswered
    <2>1. Len(<<>>) # Len(<<Row("none", 0, 0)>>)
      OBVIOUS
    <2>2. Error.rows # Unanswered.rows
      BY <2>1 DEF Error, Unanswered
    <2> QED
      BY <2>2, EmptySeq DEF Error, OutcomesIn
  <1>3. ClTyped(C)'
    BY <1>1, <1>2 DEF ClTyped
  <1>4. \A id \in table : id[1] \in C /\ future'[id[1]] = Unanswered
    <2> SUFFICES ASSUME NEW id \in table PROVE id[1] \in C /\ future'[id[1]] = Unanswered
      OBVIOUS
    <2>0. id \in IdsIn(C)
      BY <1>1 DEF ClTyped
    <2>1. id[1] \in C /\ id = <<id[1], id[2]>>
      BY <2>0 DEF IdsIn
    <2>2. id[2] = round[id[1]] /\ future[id[1]] = Unanswered /\ id \notin doomed
      BY <1>1 DEF ClTable
    <2>3. <<id[1], round[id[1]]>> \notin doomed
      BY <2>1, <2>2
    <2> QED
      BY <2>1, <2>2, <2>3
  <1>5. ClTable'
    BY <1>1, <1>4 DEF ClTable, Right
  <1>6. ASSUME NEW d \in C
        PROVE  ClCall(d)'
    <2>1. ClCall(d) /\ LatestOf(d)' = LatestOf(d)
      BY DEF InClients, LatestOf
    <2>2. \/ future'[d] = Error
          \/ future'[d] = future[d] /\ LatestOf(d) \notin doomed
      BY DEF LatestOf
    <2>3. LatestOf(d) \notin doomed /\ Ends(d) => Ends(d)'
      BY <2>1 DEF Ends
    <2> QED
      BY <1>2, <2>1, <2>2, <2>3 DEF ClCall
  <1> QED
    BY <1>3, <1>5, <1>6 DEF InClients

(* A request asks for the row of a call that has begun. *)
Sent(r) == \E k \in Nat : k <= round[r.by] /\ r.rows = RowsOf(r.by, k, 1)

InServer(C) ==
    /\ queue \in Seq(RequestsIn(C)) /\ batch \in Seq(RequestsIn(C))
    /\ server \in {"top", "poll", "get", "forward", "emitting", "gone", "crashed"}
    /\ emitted \in 0..Len(batch) /\ stopEvent \in BOOLEAN
    /\ server = "emitting" => emitted < Len(batch)
    /\ server \in {"poll", "get", "forward"} => emitted = 0
    /\ server = "forward" => batch # <<>>
    /\ \A k \in DOMAIN queue : Sent(queue[k])
    /\ \A k \in DOMAIN batch : Sent(batch[k])

InVersions(C) ==
    /\ {requested, applied, promised, served, nextWeights} \subseteq Nat
    /\ \A c \in C : floor[c] <= promised /\ version[c] <= served
    /\ promised <= applied /\ applied <= served /\ served <= requested
    /\ nextWeights <= requested /\ (nextWeights # 0 => served <= nextWeights)
    /\ popped # <<>> => popped[1].version <= served

(* The steps that leave requests where they are. *)
LEMMA SvElsewhere ==
  ASSUME NEW C, InServer(C), round \in [C -> Nat], round' \in [C -> Nat],
         \A c \in C : round[c] <= round'[c],
         UNCHANGED queue, batch' = batch \/ batch' = <<>>,
         emitted' \in 0..Len(batch'), stopEvent' \in BOOLEAN,
         server' \in {"top", "poll", "get", "forward", "emitting", "gone", "crashed"},
         server' = "emitting" => emitted' < Len(batch'),
         server' \in {"poll", "get", "forward"} => emitted' = 0,
         server' = "forward" => batch' # <<>>
  PROVE  InServer(C)'
PROOF
  <1>1. batch' \in Seq(RequestsIn(C)) /\ queue' \in Seq(RequestsIn(C))
    BY EmptySeq DEF InServer
  <1>2. ASSUME NEW r \in RequestsIn(C), Sent(r)
        PROVE  \E k \in Nat : k <= round'[r.by] /\ r.rows = RowsOf(r.by, k, 1)
    <2>1. PICK k \in Nat : k <= round[r.by] /\ r.rows = RowsOf(r.by, k, 1)
      BY <1>2 DEF Sent
    <2>2. r.by \in C
      BY <1>2 DEF RequestsIn
    <2>3. round[r.by] \in Nat /\ round'[r.by] \in Nat /\ round[r.by] <= round'[r.by]
      BY <2>2
    <2>4. k <= round'[r.by]
      BY <2>1, <2>3
    <2> QED
      BY <2>1, <2>4
  <1>3. /\ \A k \in DOMAIN queue : queue[k] \in RequestsIn(C) /\ Sent(queue[k])
        /\ \A k \in DOMAIN batch : batch[k] \in RequestsIn(C) /\ Sent(batch[k])
    <2>1. /\ queue \in Seq(RequestsIn(C)) /\ batch \in Seq(RequestsIn(C))
          /\ \A k \in DOMAIN queue : Sent(queue[k])
          /\ \A k \in DOMAIN batch : Sent(batch[k])
      BY DEF InServer
    <2>2. DOMAIN queue = 1..Len(queue) /\ DOMAIN batch = 1..Len(batch)
      BY <2>1, LenProperties
    <2>3. \A k \in 1..Len(queue) : queue[k] \in RequestsIn(C)
      BY <2>1, ElementOfSeq
    <2>4. \A k \in 1..Len(batch) : batch[k] \in RequestsIn(C)
      BY <2>1, ElementOfSeq
    <2> QED
      BY <2>1, <2>2, <2>3, <2>4
  <1>4. \A k \in DOMAIN queue' : Sent(queue[k])'
    BY <1>2, <1>3 DEF Sent
  <1>5. \A k \in DOMAIN batch' : k \in DOMAIN batch /\ batch'[k] = batch[k]
    <2>1. CASE batch' = batch
      BY <2>1
    <2>2. CASE batch' = <<>>
      <3>1. DOMAIN batch' = 1..0
        BY <1>1, <2>2, EmptySeq, LenProperties
      <3> QED
        BY <3>1
    <2> QED
      BY <2>1, <2>2
  <1>6. \A k \in DOMAIN batch' : Sent(batch[k])'
    BY <1>2, <1>3, <1>5 DEF Sent
  <1> QED
    BY <1>1, <1>4, <1>6 DEF InServer

LEMMA RowsOfIt ==
  ASSUME NEW C, NEW c \in C, NEW k \in Nat
  PROVE  /\ RowsOf(c, k, 1) \in Seq(RowsIn(C)) /\ RowsOf(c, k, 1) # <<>>
         /\ Head(RowsOf(c, k, 1)).call = k
PROOF
  <1>1. Row(c, k, 1) \in RowsIn(C) /\ \A i \in 1..1 : i = 1
    BY DEF Row, RowsIn
  <1>2. RowsOf(c, k, 1) = <<Row(c, k, 1)>>
    BY DEF RowsOf
  <1>3. <<Row(c, k, 1)>> \in Seq(RowsIn(C)) /\ <<Row(c, k, 1)>> # <<>>
          /\ Head(<<Row(c, k, 1)>>) = Row(c, k, 1)
    BY <1>1
  <1>4. Row(c, k, 1).call = k
    BY DEF Row
  <1> QED
    BY <1>2, <1>3, <1>4

LEMMA SvSubmit ==
  ASSUME NEW C, InServer(C), NEW c \in C, round \in [C -> Nat], size[c] = 1,
         queue' = Append(queue, Request(c, RowsOf(c, round[c], size[c]))),
         UNCHANGED <<round, server, batch, emitted, stopEvent>>
  PROVE  InServer(C)'
PROOF
  <1> DEFINE r == Request(c, RowsOf(c, round[c], 1))
  <1>1. round[c] \in Nat /\ round[c] <= round[c]
    OBVIOUS
  <1>2. r \in RequestsIn(C) /\ r.by = c /\ r.rows = RowsOf(c, round[c], 1)
    BY <1>1, RowsOfIt DEF Request, RequestsIn
  <1>3. Sent(r)
    BY <1>1, <1>2 DEF Sent
  <1>4. queue \in Seq(RequestsIn(C)) /\ queue' = Append(queue, r)
    BY DEF InServer
  <1> HIDE DEF r
  <1>5. /\ Len(queue) \in Nat /\ DOMAIN queue = 1..Len(queue)
        /\ queue' \in Seq(RequestsIn(C)) /\ DOMAIN queue' = 1..Len(queue) + 1
        /\ \A k \in 1..Len(queue) : queue'[k] = queue[k]
        /\ queue'[Len(queue) + 1] = r
    BY <1>2, <1>4, AppendAt
  <1>6. \A k \in 1..Len(queue) + 1 : k \in 1..Len(queue) \/ k = Len(queue) + 1
    BY <1>5
  <1>7. \A k \in DOMAIN queue' : Sent(queue'[k])
    BY <1>3, <1>5, <1>6 DEF InServer
  <1> QED
    BY <1>5, <1>7 DEF InServer, Sent

LEMMA SvGet ==
  ASSUME NEW C, InServer(C), server = "get", queue # <<>>,
         queue' = Tail(queue), batch' = Append(batch, Head(queue)),
         server' \in {"poll", "get", "forward"},
         UNCHANGED <<round, emitted, stopEvent>>
  PROVE  InServer(C)'
PROOF
  <1> DEFINE r == Head(queue)
  <1>1. queue \in Seq(RequestsIn(C)) /\ batch \in Seq(RequestsIn(C)) /\ emitted = 0
    BY DEF InServer
  <1>2. /\ DOMAIN queue = 1..Len(queue) /\ 1 \in DOMAIN queue
        /\ r = queue[1] /\ queue[1] \in RequestsIn(C)
        /\ queue' \in Seq(RequestsIn(C)) /\ DOMAIN queue' = 1..Len(queue) - 1
        /\ \A k \in 1..Len(queue) - 1 : queue'[k] = queue[k + 1] /\ k + 1 \in DOMAIN queue
    BY <1>1, TailAt
  <1>3. r \in RequestsIn(C) /\ Sent(r) /\ batch' = Append(batch, r)
    BY <1>2 DEF InServer
  <1>4. \A k \in DOMAIN queue' : Sent(queue'[k])
    BY <1>2 DEF InServer
  <1> HIDE DEF r
  <1>5. /\ Len(batch) \in Nat /\ DOMAIN batch = 1..Len(batch)
        /\ batch' \in Seq(RequestsIn(C)) /\ batch' # <<>> /\ Len(batch') = Len(batch) + 1
        /\ DOMAIN batch' = 1..Len(batch) + 1
        /\ \A k \in 1..Len(batch) : batch'[k] = batch[k]
        /\ batch'[Len(batch) + 1] = r
    BY <1>1, <1>3, AppendAt
  <1>6. \A k \in 1..Len(batch) + 1 : k \in 1..Len(batch) \/ k = Len(batch) + 1
    BY <1>5
  <1>7. \A k \in DOMAIN batch' : Sent(batch'[k])
    BY <1>3, <1>5, <1>6 DEF InServer
  <1>8. emitted' \in 0..Len(batch')
    BY <1>1, <1>5
  <1> QED
    BY <1>1, <1>2, <1>4, <1>5, <1>7, <1>8 DEF InServer, Sent

(* What the batcher emits is the right answer to the next request of its   *)
(* batch.                                                                  *)
LEMMA EmittedIs ==
  ASSUME NEW C, InServer(C), InVersions(C), server = "emitting", round \in [C -> Nat],
         floor \in [C -> Nat],
         NEW a, a = [id |-> <<batch[emitted + 1].by, Head(batch[emitted + 1].rows).call>>,
                     rows |-> Slice(Joined(batch), batch, emitted + 1), version |-> served]
  PROVE  a \in AnswersIn(C) /\ Right(a) /\ a.version = served
PROOF
  <1>0. PICK k : k = emitted + 1
    OBVIOUS
  <1>1. batch \in Seq(RequestsIn(C)) /\ emitted \in Nat /\ Len(batch) \in Nat /\ emitted < Len(batch)
    <2>1. batch \in Seq(RequestsIn(C)) /\ emitted \in 0..Len(batch) /\ emitted < Len(batch)
      BY DEF InServer
    <2> QED
      BY <2>1, LenProperties
  <1>2. k \in 1..Len(batch) /\ DOMAIN batch = 1..Len(batch)
    BY <1>0, <1>1, LenProperties
  <1>3. batch[k] \in RequestsIn(C) /\ Sent(batch[k])
    BY <1>1, <1>2, ElementOfSeq DEF InServer
  <1>4. PICK c \in C : c = batch[k].by
    BY <1>3 DEF RequestsIn
  <1>5. PICK n \in Nat : n <= round[c] /\ batch[k].rows = RowsOf(c, n, 1)
    BY <1>3, <1>4 DEF Sent
  <1>6. Carriers(RequestsIn(C), RowsIn(C))
    BY DEF Carriers, RequestsIn
  <1>7. Slice(Joined(batch), batch, k) = batch[k].rows
    BY <1>1, <1>2, <1>6, SliceIsOwn
  <1>8. Head(RowsOf(c, n, 1)).call = n /\ RowsOf(c, n, 1) \in Seq(RowsIn(C))
    BY RowsOfIt
  <1>9. a = [id |-> <<c, n>>, rows |-> RowsOf(c, n, 1), version |-> served]
    BY <1>0, <1>4, <1>5, <1>7, <1>8
  <1>10. served \in Nat /\ served >= floor[c]
    <2>1. /\ promised \in Nat /\ applied \in Nat /\ served \in Nat /\ floor[c] \in Nat
          /\ floor[c] <= promised /\ promised <= applied /\ applied <= served
      BY DEF InVersions
    <2> QED
      BY <2>1
  <1>11. a.id = <<c, n>> /\ a.rows = RowsOf(c, n, 1) /\ a.version = served
            /\ a.id[1] = c /\ a.id[2] = n
    BY <1>9
  <1>12. a \in AnswersIn(C)
    BY <1>8, <1>9, <1>10 DEF AnswersIn, IdsIn
  <1> QED
    BY <1>5, <1>10, <1>11, <1>12 DEF Right

(* A new call makes the answers that are on their way those of an earlier one. *)
LEMMA RightStays ==
  ASSUME NEW C, round \in [C -> Nat], NEW c \in C, NEW k,
         round' = [round EXCEPT ![c] = round[c] + 1],
         floor \in [C -> Nat], floor' = [floor EXCEPT ![c] = k],
         NEW a \in AnswersIn(C), Right(a)
  PROVE  Right(a)'
PROOF
  <1>1. a.id[1] \in C /\ a.id[2] \in Nat
    BY DEF AnswersIn, IdsIn
  <1>2. /\ a.id[2] <= round[a.id[1]]
        /\ a.rows = RowsOf(a.id[1], a.id[2], 1)
        /\ a.id[2] = round[a.id[1]] => a.version >= floor[a.id[1]]
    BY DEF Right
  <1>3. CASE a.id[1] = c
    <2>1. round'[c] = round[c] + 1 /\ round[c] \in Nat
      OBVIOUS
    <2>2. a.id[2] <= round'[c] /\ a.id[2] # round'[c]
      BY <1>1, <1>2, <1>3, <2>1
    <2> QED
      BY <1>2, <1>3, <2>2 DEF Right
  <1>4. CASE a.id[1] # c
    <2>1. round'[a.id[1]] = round[a.id[1]] /\ floor'[a.id[1]] = floor[a.id[1]]
      BY <1>1, <1>4
    <2> QED
      BY <1>2, <2>1 DEF Right
  <1> QED
    BY <1>3, <1>4

LEMMA InInit ==
  ASSUME NEW C,
         caller = [c \in C |-> "idle"], round = [c \in C |-> 0], size = [c \in C |-> 0],
         got = [c \in C |-> Error], future = [c \in C |-> Unanswered],
         table = {}, popped = <<>>, doomed = {}, closed = FALSE, closer = "open",
         queue = <<>>, server = "top", batch = <<>>, emitted = 0,
         nextWeights = 0, served = 0, stopEvent = FALSE,
         requested = 0, applied = 0, promised = 0,
         floor = [c \in C |-> 0], version = [c \in C |-> 0]
  PROVE  InClients(C) /\ InServer(C) /\ InVersions(C)
PROOF
  <1>1. Error \in OutcomesIn(C) /\ ~Error.ok
    BY EmptySeq DEF Error, OutcomesIn
  <1>2. ClTyped(C) /\ ClTable
    <2>1. /\ got \in [C -> OutcomesIn(C)] /\ future \in [C -> OutcomesIn(C) \cup {Unanswered}]
          /\ 0 \in 0..1 /\ 0 \in Nat
      BY <1>1
    <2>2. /\ round \in [C -> Nat] /\ size \in [C -> 0..1]
          /\ floor \in [C -> Nat] /\ version \in [C -> Nat]
      BY <2>1
    <2>3. ClTyped(C)
      BY <2>1, <2>2 DEF ClTyped
    <2> QED
      BY <2>3 DEF ClTable
  <1>3. ASSUME NEW c \in C
        PROVE  ClCall(c)
    BY <1>1 DEF ClCall, Unanswered
  <1>4. queue \in Seq(RequestsIn(C)) /\ batch \in Seq(RequestsIn(C)) /\ Len(batch) = 0
          /\ DOMAIN queue = 1..0 /\ DOMAIN batch = 1..0
    <2>1. queue \in Seq(RequestsIn(C)) /\ batch \in Seq(RequestsIn(C)) /\ Len(batch) = 0 /\ Len(queue) = 0
      BY EmptySeq
    <2> QED
      BY <2>1, LenProperties
  <1>5. InServer(C)
    <2>1. emitted \in 0..Len(batch)
      BY <1>4
    <2>2. /\ \A k \in DOMAIN queue : FALSE
          /\ \A k \in DOMAIN batch : FALSE
      BY <1>4
    <2> QED
      BY <1>4, <2>1, <2>2 DEF InServer
  <1>6. InVersions(C)
    BY DEF InVersions
  <1> QED
    BY <1>2, <1>3, <1>5, <1>6 DEF InClients

(* The bounds of the versions, and what the properties ask for. *)
LEMMA InBounds ==
  ASSUME NEW C, InClients(C), InVersions(C), NEW U \in Nat, requested <= U
  PROVE  /\ popped \in Seq([id : IdsIn(C), rows : Seq(RowsIn(C)), version : 0..U])
         /\ {requested, applied, served, promised, nextWeights} \subseteq 0..U
         /\ floor \in [C -> 0..U] /\ version \in [C -> 0..U]
PROOF
  <1>1. /\ requested \in Nat /\ applied \in Nat /\ promised \in Nat /\ served \in Nat /\ nextWeights \in Nat
        /\ promised <= applied /\ applied <= served /\ served <= requested /\ nextWeights <= requested
        /\ \A c \in C : floor[c] <= promised /\ version[c] <= served
        /\ popped # <<>> => popped[1].version <= served
    BY DEF InVersions
  <1>2. served <= U /\ promised <= U /\ applied <= U /\ nextWeights <= U
    BY <1>1
  <1>3. /\ floor \in [C -> Nat] /\ version \in [C -> Nat]
        /\ popped = <<>> \/ \E a \in AnswersIn(C) : popped = <<a>>
    BY DEF InClients, ClTyped
  <1>4. \A c \in C : floor[c] \in 0..U /\ version[c] \in 0..U
    <2> SUFFICES ASSUME NEW c \in C PROVE floor[c] \in 0..U /\ version[c] \in 0..U
      OBVIOUS
    <2>1. floor[c] \in Nat /\ version[c] \in Nat /\ floor[c] <= promised /\ version[c] <= served
      BY <1>1, <1>3
    <2> QED
      BY <1>1, <1>2, <2>1
  <1>5. popped \in Seq([id : IdsIn(C), rows : Seq(RowsIn(C)), version : 0..U])
    <2> DEFINE A == [id : IdsIn(C), rows : Seq(RowsIn(C)), version : 0..U]
    <2>1. CASE popped = <<>>
      BY <2>1, EmptySeq
    <2>2. ASSUME NEW a \in AnswersIn(C), popped = <<a>>
          PROVE  popped \in Seq(A)
      <3>1. a.version \in Nat /\ a.version <= served
        <4>1. popped[1] = a /\ popped # <<>>
          BY <2>2
        <4>2. a.version \in Nat
          BY DEF AnswersIn
        <4> QED
          BY <1>1, <4>1, <4>2
      <3>2. a.version \in 0..U
        BY <1>1, <1>2, <3>1
      <3>3. a \in A
        BY <3>2 DEF AnswersIn
      <3> HIDE DEF A
      <3> QED
        BY <2>2, <3>3
    <2> QED
      BY <1>3, <2>1, <2>2
  <1>6. {requested, applied, served, promised, nextWeights} \subseteq 0..U
    BY <1>1, <1>2
  <1> QED
    BY <1>3, <1>4, <1>5, <1>6

LEMMA InSafe ==
  ASSUME NEW C, InClients(C)
  PROVE  /\ \A id \in table : \E c \in C : id = LatestOf(c) /\ caller[c] # "idle"
         /\ closer \in {"stopping", "closed"} => \A c \in C :
               caller[c] \in {"submitting", "waiting"} =>
                  \/ future[c] # Unanswered
                  \/ popped # <<>> /\ popped[1].id = LatestOf(c)
         /\ \A c \in C : got[c].ok => version[c] >= floor[c]
PROOF
  <1>1. ClTyped(C) /\ ClTable /\ \A c \in C : ClCall(c)
    BY DEF InClients
  <1>2. ASSUME NEW id \in table
        PROVE  \E c \in C : id = LatestOf(c) /\ caller[c] # "idle"
    <2>1. id \in IdsIn(C) /\ id[2] = round[id[1]] /\ caller[id[1]] # "idle"
      BY <1>1 DEF ClTyped, ClTable
    <2>2. id[1] \in C /\ id = <<id[1], id[2]>>
      BY <2>1 DEF IdsIn
    <2> QED
      BY <2>1, <2>2 DEF LatestOf
  <1>3. ASSUME closer \in {"stopping", "closed"}, NEW c \in C,
               caller[c] \in {"submitting", "waiting"}, future[c] = Unanswered
        PROVE  popped # <<>> /\ popped[1].id = LatestOf(c)
    <2>1. ClCall(c) /\ doomed = {}
      BY <1>1, <1>3 DEF ClTable
    <2> QED
      BY <1>3, <2>1 DEF ClCall, Ends
  <1>4. \A c \in C : got[c].ok => version[c] >= floor[c]
    BY <1>1 DEF ClCall
  <1> QED
    BY <1>2, <1>3, <1>4

----------------------------------------------------------------------------
InPhase(c) == PhaseOf(caller[c] \notin {"idle", "registered"}, c, round[c], size[c], got[c])

(* A caller goes on: from here to there in its call. *)
GoesOn(c, from, to) == caller[c] = from /\ caller'[c] = to

StaysThere(c) == round'[c] = round[c] /\ size'[c] = size[c] /\ got'[c] = got[c]

Going == {"submitting", "waiting", "giving up"}

LEMMA InPromise ==
  ASSUME NEW C, InClients(C), InClients(C)',
         Phases = [c \in Callers |-> IF c \in C THEN InPhase(c) ELSE "none"],
         Phases' = [c \in Callers |-> IF c \in C THEN InPhase(c)' ELSE "none"],
         \/ UNCHANGED <<caller, round, size, got>> /\ closed' \in {closed, TRUE}
         \/ /\ closed' = closed
            /\ \E c \in C :
                 /\ \A d \in C : d # c => caller'[d] = caller[d] /\ StaysThere(d)
                 /\ \/ GoesOn(c, "idle", "registered")
                    \/ GoesOn(c, "registered", "submitting") /\ ~closed /\ StaysThere(c)
                    \/ GoesOn(c, "registered", "idle") /\ StaysThere(c)
                    \/ caller[c] \in Going /\ caller'[c] \in Going /\ StaysThere(c)
                    \/ caller[c] \in Going /\ caller'[c] = "idle" /\ round'[c] = round[c]
  PROVE  [Abstract!Next]_(Abstract!vars)
PROOF
  <1> DEFINE p == Phases
             q == Phases'
  <1>1. \A c \in Callers : /\ p[c] = IF c \in C THEN InPhase(c) ELSE "none"
                           /\ q[c] = IF c \in C THEN InPhase(c)' ELSE "none"
    OBVIOUS
  <1>2. ASSUME \A c \in C : InPhase(c)' = InPhase(c)
        PROVE  p = q
    BY <1>2
  <1> HIDE DEF p, q
  <1>3. ASSUME \A c \in C : InPhase(c)' = InPhase(c), closed' \in {closed, TRUE}
        PROVE  [Abstract!Next]_(Abstract!vars)
    <2>1. Phases' = Phases
      BY <1>2, <1>3 DEF p, q
    <2> QED
      BY <1>3, <2>1, PromiseKept
  <1>4. \A c \in C : ClCall(c) /\ ClCall(c)'
    BY DEF InClients
  <1>5. /\ closed \in BOOLEAN
        /\ \A c \in C : caller[c] \in {"idle", "registered", "submitting", "waiting", "giving up"}
    BY DEF InClients, ClTyped
  <1>6. \A c \in C : caller[c] \in Going => InPhase(c) = "waiting" /\ round[c] # 0
    BY <1>4 DEF InPhase, PhaseOf, ClCall, Going
  <1>7. \A c \in C : caller'[c] \in Going => InPhase(c)' = "waiting"
    BY DEF InPhase, PhaseOf, Going
  <1>8. \A c \in C : caller[c] = "registered" => InPhase(c) = "failed" /\ round[c] # 0 /\ ~got[c].ok
    BY <1>4 DEF InPhase, PhaseOf, ClCall
  <1>9. \A c \in C : caller'[c] = "registered" => InPhase(c)' = "failed"
    BY <1>4 DEF InPhase, PhaseOf, ClCall
  <1>10. \A c \in C : caller[c] = "idle" => InPhase(c) \in {"none", "answered", "failed"}
    BY <1>4 DEF InPhase, PhaseOf, ClCall
  <1>11. \A c \in C : caller'[c] = "idle" /\ round'[c] # 0 =>
            InPhase(c)' = IF got'[c].ok THEN "answered" ELSE "failed"
    BY <1>4 DEF InPhase, PhaseOf, ClCall
  <1>12. ASSUME NEW c \in C, closed' = closed, Goes(InPhase(c), InPhase(c)', ~closed),
                \A d \in C : d # c => InPhase(d)' = InPhase(d)
         PROVE  [Abstract!Next]_(Abstract!vars)
    <2>1. CASE c \in Callers
      <3>1. /\ Goes(Phases[c], Phases'[c], ~closed)
            /\ \A d \in Callers : d # c => Phases'[d] = Phases[d]
        BY <1>1, <1>12, <2>1 DEF p, q
      <3> QED
        BY <1>12, <2>1, <3>1, PromiseKept
    <2>2. CASE c \notin Callers
      <3>1. \A d \in Callers : p[d] = q[d]
        BY <1>1, <1>12, <2>2
      <3>2. p = [d \in Callers |-> p[d]] /\ q = [d \in Callers |-> q[d]]
        BY DEF p, q
      <3>3. Phases' = Phases
        BY <3>1, <3>2 DEF p, q
      <3> QED
        BY <1>12, <3>3, PromiseKept
    <2> QED
      BY <2>1, <2>2
  <1>13. CASE UNCHANGED <<caller, round, size, got>> /\ closed' \in {closed, TRUE}
    <2>1. \A c \in C : InPhase(c)' = InPhase(c)
      BY <1>13 DEF InPhase
    <2> QED
      BY <1>3, <1>13, <2>1
  <1>14. ASSUME closed' = closed, NEW c \in C,
                \A d \in C : d # c => caller'[d] = caller[d] /\ StaysThere(d),
                \/ GoesOn(c, "idle", "registered")
                \/ GoesOn(c, "registered", "submitting") /\ ~closed /\ StaysThere(c)
                \/ GoesOn(c, "registered", "idle") /\ StaysThere(c)
                \/ caller[c] \in Going /\ caller'[c] \in Going /\ StaysThere(c)
                \/ caller[c] \in Going /\ caller'[c] = "idle" /\ round'[c] = round[c]
         PROVE  [Abstract!Next]_(Abstract!vars)
    <2>1. \A d \in C : d # c => InPhase(d)' = InPhase(d)
      BY <1>14 DEF InPhase, StaysThere
    <2>2. CASE GoesOn(c, "idle", "registered")
      <3>1. Goes(InPhase(c), InPhase(c)', ~closed)
        BY <1>9, <1>10, <2>2 DEF Goes, GoesOn
      <3> QED
        BY <1>12, <1>14, <2>1, <3>1
    <2>3. CASE GoesOn(c, "registered", "submitting") /\ ~closed /\ StaysThere(c)
      <3>1. caller'[c] \in Going
        BY <2>3 DEF GoesOn, Going
      <3>2. Goes(InPhase(c), InPhase(c)', ~closed)
        BY <1>7, <1>8, <2>3, <3>1 DEF Goes, GoesOn
      <3> QED
        BY <1>12, <1>14, <2>1, <3>2
    <2>4. CASE GoesOn(c, "registered", "idle") /\ StaysThere(c)
      <3>1. InPhase(c)' = InPhase(c)
        BY <1>8, <1>11, <2>4 DEF GoesOn, StaysThere
      <3> QED
        BY <1>3, <1>14, <2>1, <3>1
    <2>5. CASE caller[c] \in Going /\ caller'[c] \in Going /\ StaysThere(c)
      <3>1. InPhase(c)' = InPhase(c)
        BY <1>6, <1>7, <2>5
      <3> QED
        BY <1>3, <1>14, <2>1, <3>1
    <2>6. CASE caller[c] \in Going /\ caller'[c] = "idle" /\ round'[c] = round[c]
      <3>1. Goes(InPhase(c), InPhase(c)', ~closed)
        BY <1>6, <1>11, <2>6 DEF Goes
      <3> QED
        BY <1>12, <1>14, <2>1, <3>1
    <2> QED
      BY <1>14, <2>2, <2>3, <2>4, <2>5, <2>6
  <1> QED
    BY <1>13, <1>14

InAll(C) == InClients(C) /\ InServer(C) /\ InVersions(C)

(* What the two backends have in common: the steps of a caller ...         *)
Begins(c) ==
    /\ caller[c] = "idle" /\ UNCHANGED queue
    /\ round' = [round EXCEPT ![c] = round[c] + 1] /\ size' = [size EXCEPT ![c] = 1]
    /\ floor' = [floor EXCEPT ![c] = promised]
    /\ table' = table \cup {<<c, round'[c]>>}
    /\ future' = [future EXCEPT ![c] = Unanswered] /\ got' = [got EXCEPT ![c] = Error]
    /\ version' = [version EXCEPT ![c] = 0] /\ caller' = [caller EXCEPT ![c] = "registered"]

Finishes(c) ==
    /\ UNCHANGED <<queue, round, size, floor, future, version>>
    /\ caller' = [caller EXCEPT ![c] = "idle"]
    /\ \/ /\ caller[c] \in {"registered", "giving up"} /\ UNCHANGED got
          /\ table' = table \ {<<c, round[c]>>}
       \/ /\ caller[c] = "waiting" /\ future[c] # Unanswered /\ got' = [got EXCEPT ![c] = future[c]]
          /\ UNCHANGED table

Continues(c) ==
    /\ UNCHANGED <<round, size, floor, got, future, version, table>>
    /\ \/ /\ caller[c] = "registered" /\ ~closed /\ caller' = [caller EXCEPT ![c] = "submitting"]
          /\ UNCHANGED queue
       \/ /\ caller[c] = "submitting" /\ caller' = [caller EXCEPT ![c] = "waiting"]
          /\ queue' = Append(queue, Request(c, RowsOf(c, round[c], size[c])))
       \/ /\ caller[c] = "waiting" /\ caller' = [caller EXCEPT ![c] = "giving up"]
          /\ UNCHANGED queue

Moves(c) ==
    /\ UNCHANGED <<batch, emitted, server, stopEvent, requested, applied, promised, served,
                   nextWeights, popped, doomed, closed, closer>>
    /\ Begins(c) \/ Finishes(c) \/ Continues(c)

(* ... those of the thread that stops the service ...                      *)
Stops(C) ==
    /\ UNCHANGED <<caller, round, size, floor, got, version, popped, queue, server, batch, emitted,
                   served, nextWeights, requested, applied, promised>>
    /\ \/ /\ closer = "open" /\ closed' = TRUE /\ closer' = "cancelling"
          /\ UNCHANGED <<future, table, doomed, stopEvent>>
       \/ /\ closer = "cancelling" /\ closer' = "waking" /\ doomed' = table /\ table' = {}
          /\ UNCHANGED <<closed, future, stopEvent>>
       \/ /\ closer = "waking" /\ closer' = "stopping" /\ doomed' = {}
          /\ future' = [c \in C |-> IF <<c, round[c]>> \in doomed THEN Error ELSE future[c]]
          /\ UNCHANGED <<closed, table, stopEvent>>
       \/ /\ closer = "stopping" /\ closer' = "closed" /\ stopEvent' \in {stopEvent, TRUE}
          /\ UNCHANGED <<closed, future, table, doomed>>

(* ... of the one that hands results over, of the batcher, of the trainer. *)
Hands(C) ==
    /\ popped # <<>> /\ popped' = <<>>
    /\ \E c \in C :
         /\ popped[1].id[1] = c
         /\ \/ /\ popped[1].id = LatestOf(c)
               /\ future' = [future EXCEPT ![c] = Result(popped[1].rows)]
               /\ version' = [version EXCEPT ![c] = popped[1].version]
            \/ popped[1].id # LatestOf(c) /\ UNCHANGED <<future, version>>
    /\ UNCHANGED <<caller, round, size, floor, got, table, doomed, closed, closer, queue, server,
                   batch, emitted, served, nextWeights, stopEvent, requested, applied, promised>>

ClientsRest ==
    UNCHANGED <<caller, round, size, floor, got, future, version, table, doomed, popped, closed, closer>>
VersionsRest == UNCHANGED <<served, nextWeights, requested, applied, promised>>

Batches ==
    /\ ClientsRest /\ VersionsRest /\ UNCHANGED stopEvent
    /\ \/ /\ server = "get" /\ queue # <<>> /\ queue' = Tail(queue) /\ batch' = Append(batch, Head(queue))
          /\ server' \in {"poll", "get", "forward"} /\ UNCHANGED emitted
       \/ /\ UNCHANGED <<queue, emitted>>
          /\ \/ server = "get" /\ UNCHANGED batch /\ server' = IF batch = <<>> THEN "top" ELSE "forward"
             \/ server = "forward" /\ UNCHANGED batch /\ server' = "emitting"
             \/ server = "forward" /\ batch' = <<>> /\ server' = "crashed"

Confirms ==
    /\ ClientsRest /\ UNCHANGED <<queue, server, batch, emitted, stopEvent, served, nextWeights,
                                  requested, applied>>
    /\ promised < applied /\ promised' = applied

LEMMA MovesKeep ==
  ASSUME NEW C, InAll(C), NEW c \in C, Moves(c)
  PROVE  InAll(C)'
PROOF
  <1>1. InClients(C) /\ InServer(C) /\ InVersions(C)
    BY DEF InAll
  <1>2. ClTyped(C) /\ ClTable /\ ClCall(c)
    BY <1>1 DEF InClients
  <1>3. UNCHANGED <<batch, emitted, server, stopEvent, requested, applied, promised, served,
                    nextWeights, popped, doomed, closed, closer>>
    BY DEF Moves
  <1>4. ASSUME UNCHANGED <<round, floor, version>>, InClients(C)', InServer(C)'
        PROVE  InAll(C)'
    BY <1>1, <1>3, <1>4 DEF InAll, InVersions
  <1>5. ASSUME UNCHANGED <<queue, round>>
        PROVE  InServer(C)'
    <2>1. InServer(C)
      BY <1>1
    <2> QED
      BY <1>3, <1>5, <2>1 DEF InServer, Sent
  <1>6. CASE Begins(c)
    <2>1. /\ caller[c] = "idle" /\ UNCHANGED queue
          /\ round' = [round EXCEPT ![c] = round[c] + 1]
          /\ floor' = [floor EXCEPT ![c] = promised]
          /\ table' = table \cup {<<c, round'[c]>>}
          /\ future' = [future EXCEPT ![c] = Unanswered]
          /\ got' = [got EXCEPT ![c] = Error]
          /\ version' = [version EXCEPT ![c] = 0]
          /\ caller' = [caller EXCEPT ![c] = "registered"]
          /\ size' = [size EXCEPT ![c] = 1]
      BY <1>6 DEF Begins
    <2>2. /\ round \in [C -> Nat] /\ floor \in [C -> Nat] /\ version \in [C -> Nat]
          /\ promised \in Nat /\ served \in Nat
      BY <1>1, <1>2 DEF ClTyped, InVersions
    <2>3. /\ round' \in [C -> Nat] /\ round[c] \in Nat /\ round'[c] = round[c] + 1
          /\ \A d \in C : round[d] <= round'[d]
      BY <2>1, <2>2
    <2>4. table' = table \cup {<<c, round[c] + 1>>}
      BY <2>1, <2>3
    <2>5. InClients(C)'
      BY <1>1, <1>3, <2>1, <2>2, <2>4, ClRegister
    <2>6. InServer(C)'
      <3>1. /\ emitted' \in 0..Len(batch') /\ stopEvent' \in BOOLEAN
            /\ server' \in {"top", "poll", "get", "forward", "emitting", "gone", "crashed"}
            /\ server' = "emitting" => emitted' < Len(batch')
            /\ server' \in {"poll", "get", "forward"} => emitted' = 0
            /\ server' = "forward" => batch' # <<>>
        BY <1>1, <1>3 DEF InServer
      <3> QED
        BY <1>1, <1>3, <2>1, <2>2, <2>3, <3>1, SvElsewhere
    <2>7. \A d \in C : floor'[d] <= promised /\ version'[d] <= served
      <3>1. \A d \in C : floor[d] <= promised /\ version[d] <= served
        BY <1>1 DEF InVersions
      <3>2. /\ floor'[c] = promised /\ version'[c] = 0
            /\ \A d \in C : d # c => floor'[d] = floor[d] /\ version'[d] = version[d]
        BY <2>1, <2>2
      <3>3. promised <= promised /\ 0 <= served
        BY <2>2
      <3> QED
        BY <3>1, <3>2, <3>3
    <2>8. InVersions(C)'
      BY <1>1, <1>3, <2>7 DEF InVersions
    <2> QED
      BY <2>5, <2>6, <2>8 DEF InAll
  <1>7. CASE Finishes(c)
    <2>1. UNCHANGED <<queue, round, size, floor, future, version>>
      BY <1>7 DEF Finishes
    <2>2. /\ caller[c] # "idle" /\ caller' = [caller EXCEPT ![c] = "idle"]
          /\ \/ got' = got
             \/ future[c] # Unanswered /\ got' = [got EXCEPT ![c] = future[c]]
          /\ table' \in {table, table \ {<<c, round[c]>>}}
          /\ future[c] # Unanswered \/ table' = table \ {<<c, round[c]>>}
      BY <1>7 DEF Finishes
    <2>3. InClients(C)'
      BY <1>1, <1>3, <2>1, <2>2, ClEnd
    <2> QED
      BY <1>4, <1>5, <2>1, <2>3
  <1>8. CASE Continues(c)
    <2>1. UNCHANGED <<round, size, floor, got, future, version, table>>
      BY <1>8 DEF Continues
    <2>2. CASE caller[c] = "registered" /\ ~closed /\ caller' = [caller EXCEPT ![c] = "submitting"] /\ UNCHANGED queue
      <3>1. InClients(C)'
        BY <1>1, <1>3, <2>1, <2>2, ClGoOn
      <3> QED
        BY <1>4, <1>5, <2>1, <2>2, <3>1
    <2>3. CASE /\ caller[c] = "submitting" /\ caller' = [caller EXCEPT ![c] = "waiting"]
               /\ queue' = Append(queue, Request(c, RowsOf(c, round[c], size[c])))
      <3>1. InClients(C)'
        BY <1>1, <1>3, <2>1, <2>3, ClGoOn
      <3>2. size[c] = 1 /\ round \in [C -> Nat]
        BY <1>2, <2>3 DEF ClCall, ClTyped
      <3>3. InServer(C)'
        BY <1>1, <1>3, <2>1, <2>3, <3>2, SvSubmit
      <3> QED
        BY <1>4, <2>1, <3>1, <3>3
    <2>4. CASE caller[c] = "waiting" /\ caller' = [caller EXCEPT ![c] = "giving up"] /\ UNCHANGED queue
      <3>1. InClients(C)'
        BY <1>1, <1>3, <2>1, <2>4, ClGoOn
      <3> QED
        BY <1>4, <1>5, <2>1, <2>4, <3>1
    <2> QED
      BY <1>8, <2>2, <2>3, <2>4 DEF Continues
  <1> QED
    BY <1>6, <1>7, <1>8 DEF Moves

LEMMA StopsKeep ==
  ASSUME NEW C, InAll(C), Stops(C)
  PROVE  InAll(C)'
PROOF
  <1>1. InClients(C) /\ InServer(C) /\ InVersions(C)
    BY DEF InAll
  <1>2. UNCHANGED <<caller, round, size, floor, got, version, popped, queue, server, batch, emitted,
                    served, nextWeights, requested, applied, promised>>
    BY DEF Stops
  <1>3. stopEvent' \in BOOLEAN
    BY <1>1 DEF Stops, InServer
  <1>4. InServer(C)' /\ InVersions(C)'
    BY <1>1, <1>2, <1>3 DEF InServer, Sent, InVersions
  <1>5. InClients(C)'
    <2>1. CASE /\ closer = "open" /\ closed' = TRUE /\ closer' = "cancelling"
               /\ UNCHANGED <<future, table, doomed>>
      BY <1>1, <1>2, <2>1, ClStop
    <2>2. CASE /\ closer = "cancelling" /\ closer' = "waking" /\ doomed' = table /\ table' = {}
               /\ UNCHANGED <<closed, future>>
      BY <1>1, <1>2, <2>2, ClCancelAll
    <2>3. CASE /\ closer = "waking" /\ closer' = "stopping" /\ doomed' = {}
               /\ future' = [c \in C |-> IF <<c, round[c]>> \in doomed THEN Error ELSE future[c]]
               /\ UNCHANGED <<closed, table>>
      BY <1>1, <1>2, <2>3, ClWakeAll
    <2>4. CASE /\ closer = "stopping" /\ closer' = "closed" /\ UNCHANGED <<closed, future, table, doomed>>
      BY <1>1, <1>2, <2>4, ClStop
    <2> QED
      BY <2>1, <2>2, <2>3, <2>4 DEF Stops
  <1> QED
    BY <1>4, <1>5 DEF InAll

LEMMA HandsKeep ==
  ASSUME NEW C, InAll(C), Hands(C)
  PROVE  InAll(C)'
PROOF
  <1>1. InClients(C) /\ InServer(C) /\ InVersions(C)
    BY DEF InAll
  <1>2. PICK c \in C :
          /\ popped[1].id[1] = c
          /\ \/ /\ popped[1].id = LatestOf(c)
                /\ future' = [future EXCEPT ![c] = Result(popped[1].rows)]
                /\ version' = [version EXCEPT ![c] = popped[1].version]
             \/ popped[1].id # LatestOf(c) /\ UNCHANGED <<future, version>>
    BY DEF Hands
  <1>3. /\ popped # <<>> /\ popped' = <<>>
        /\ UNCHANGED <<caller, round, size, floor, got, table, doomed, closed, closer, queue, server,
                       batch, emitted, served, nextWeights, stopEvent, requested, applied, promised>>
    BY DEF Hands
  <1>4. InClients(C)'
    BY <1>1, <1>2, <1>3, ClHandOver
  <1>5. InServer(C)'
    BY <1>1, <1>3 DEF InServer, Sent
  <1>6. \A d \in C : version'[d] <= served
    <2>1. popped[1].version <= served /\ \A d \in C : version[d] <= served
      BY <1>1, <1>3 DEF InVersions
    <2>2. DOMAIN version = C
      BY <1>1 DEF InClients, ClTyped
    <2>3. version' = version \/ version' = [version EXCEPT ![c] = popped[1].version]
      BY <1>2
    <2> QED
      BY <2>1, <2>2, <2>3
  <1>7. InVersions(C)'
    BY <1>1, <1>3, <1>6 DEF InVersions
  <1> QED
    BY <1>4, <1>5, <1>7 DEF InAll

LEMMA BatchesKeep ==
  ASSUME NEW C, InAll(C), Batches
  PROVE  InAll(C)'
PROOF
  <1>1. InClients(C) /\ InServer(C) /\ InVersions(C) /\ round \in [C -> Nat]
    BY DEF InAll, InClients, ClTyped
  <1>2. UNCHANGED <<caller, round, size, floor, got, future, version, table, doomed, popped, closed,
                    closer, served, nextWeights, requested, applied, promised, stopEvent>>
    BY DEF Batches, ClientsRest, VersionsRest
  <1>3. InClients(C)' /\ InVersions(C)'
    <2>1. InClients(C)'
      BY <1>1, <1>2, ClSame
    <2> QED
      BY <1>1, <1>2, <2>1 DEF InVersions
  <1>4. CASE /\ server = "get" /\ queue # <<>> /\ queue' = Tail(queue) /\ batch' = Append(batch, Head(queue))
             /\ server' \in {"poll", "get", "forward"} /\ UNCHANGED emitted
    <2>1. InServer(C)'
      BY <1>1, <1>2, <1>4, SvGet
    <2> QED
      BY <1>3, <2>1 DEF InAll
  <1>5. CASE /\ UNCHANGED <<queue, emitted>>
             /\ \/ server = "get" /\ UNCHANGED batch /\ server' = IF batch = <<>> THEN "top" ELSE "forward"
                \/ server = "forward" /\ UNCHANGED batch /\ server' = "emitting"
                \/ server = "forward" /\ batch' = <<>> /\ server' = "crashed"
    <2>1. batch \in Seq(RequestsIn(C)) /\ emitted = 0 /\ (server = "forward" => batch # <<>>)
            /\ stopEvent \in BOOLEAN
      BY <1>1, <1>5 DEF InServer
    <2>2. Len(batch) \in Nat /\ (batch # <<>> => 0 < Len(batch)) /\ Len(<<>>) = 0
      <3>1. Len(batch) \in Nat /\ (batch # <<>> => Len(batch) # 0)
        BY <2>1, EmptySeq, LenProperties
      <3> QED
        BY <3>1, EmptyCounts
    <2>3. /\ batch' = batch \/ batch' = <<>>
          /\ emitted' \in 0..Len(batch') /\ stopEvent' \in BOOLEAN
          /\ server' \in {"top", "poll", "get", "forward", "emitting", "gone", "crashed"}
          /\ server' = "emitting" => emitted' < Len(batch')
          /\ server' \in {"poll", "get", "forward"} => emitted' = 0
          /\ server' = "forward" => batch' # <<>>
      BY <1>2, <1>5, <2>1, <2>2
    <2>4. UNCHANGED queue /\ round' \in [C -> Nat] /\ \A c \in C : round[c] <= round'[c]
      BY <1>1, <1>2, <1>5
    <2>5. InServer(C)'
      BY <1>1, <2>3, <2>4, SvElsewhere
    <2> QED
      BY <1>3, <2>5 DEF InAll
  <1> QED
    BY <1>4, <1>5 DEF Batches

LEMMA ConfirmsKeep ==
  ASSUME NEW C, InAll(C), Confirms
  PROVE  InAll(C)'
PROOF
  <1>1. InClients(C) /\ InServer(C) /\ InVersions(C)
    BY DEF InAll
  <1>2. UNCHANGED <<caller, round, size, floor, got, future, version, table, doomed, popped, closed,
                    closer, queue, server, batch, emitted, stopEvent, served, nextWeights,
                    requested, applied>> /\ promised < applied /\ promised' = applied
    BY DEF Confirms, ClientsRest
  <1>3. InClients(C)'
    BY <1>1, <1>2, ClSame
  <1>4. InServer(C)'
    BY <1>1, <1>2 DEF InServer, Sent
  <1>5. \A c \in C : floor[c] <= promised'
    <2>1. \A c \in C : floor[c] <= promised /\ floor[c] \in Nat
      BY <1>1 DEF InVersions, InClients, ClTyped
    <2>2. promised \in Nat /\ applied \in Nat
      BY <1>1 DEF InVersions
    <2> QED
      BY <1>2, <2>1, <2>2
  <1>6. InVersions(C)'
    <2>1. promised' <= applied' /\ promised' \in Nat
      BY <1>1, <1>2 DEF InVersions
    <2> QED
      BY <1>1, <1>2, <1>5, <2>1 DEF InVersions
  <1> QED
    BY <1>3, <1>4, <1>6 DEF InAll

(* A caller's step as the abstract service has it. *)
LEMMA MovesOn ==
  ASSUME NEW C, InAll(C), NEW c \in C, Moves(c)
  PROVE  /\ closed' = closed
         /\ \A d \in C : d # c => caller'[d] = caller[d] /\ StaysThere(d)
         /\ \/ GoesOn(c, "idle", "registered")
            \/ GoesOn(c, "registered", "submitting") /\ ~closed /\ StaysThere(c)
            \/ GoesOn(c, "registered", "idle") /\ StaysThere(c)
            \/ caller[c] \in Going /\ caller'[c] \in Going /\ StaysThere(c)
            \/ caller[c] \in Going /\ caller'[c] = "idle" /\ round'[c] = round[c]
PROOF
  <1>1. DOMAIN caller = C /\ DOMAIN round = C /\ DOMAIN size = C /\ DOMAIN got = C
    BY DEF InAll, InClients, ClTyped
  <1>2. closed' = closed
    BY DEF Moves
  <1>3. CASE Begins(c)
    <2>1. GoesOn(c, "idle", "registered")
      BY <1>1, <1>3 DEF Begins, GoesOn
    <2>2. \A d \in C : d # c => caller'[d] = caller[d] /\ StaysThere(d)
      BY <1>1, <1>3 DEF Begins, StaysThere
    <2> QED
      BY <1>2, <2>1, <2>2
  <1>4. CASE Finishes(c)
    <2>1. /\ caller[c] \in {"registered", "giving up", "waiting"} /\ caller'[c] = "idle"
          /\ round'[c] = round[c] /\ size'[c] = size[c]
          /\ caller[c] = "registered" => got'[c] = got[c]
      BY <1>1, <1>4 DEF Finishes
    <2>2. \A d \in C : d # c => caller'[d] = caller[d] /\ StaysThere(d)
      BY <1>1, <1>4 DEF Finishes, StaysThere
    <2> QED
      BY <1>2, <2>1, <2>2 DEF GoesOn, Going, StaysThere
  <1>5. CASE Continues(c)
    <2>1. \/ caller[c] = "registered" /\ ~closed /\ caller'[c] = "submitting"
          \/ caller[c] \in {"submitting", "waiting"} /\ caller'[c] \in {"waiting", "giving up"}
      BY <1>1, <1>5 DEF Continues
    <2>3. \A d \in C : StaysThere(d)
      BY <1>1, <1>5 DEF Continues, StaysThere
    <2>2. \A d \in C : d # c => caller'[d] = caller[d]
      BY <1>1, <1>5 DEF Continues
    <2> QED
      BY <1>2, <2>1, <2>2, <2>3 DEF GoesOn, Going
  <1> QED
    BY <1>3, <1>4, <1>5 DEF Moves

----------------------------------------------------------------------------
(* The backend whose threads share one process.                            *)

LoInv ==
    /\ InClients(Callers) /\ InServer(Callers) /\ InVersions(Callers)
    /\ requested <= 1 /\ \A c \in Callers : round[c] <= Calls(1, 1)[c]

LEMMA LoSame ==
  /\ Local!Rows = RowsIn(Callers) /\ Local!Requests = RequestsIn(Callers)
  /\ Local!Error = Error /\ Local!Outcomes = OutcomesIn(Callers)
  /\ Local!Unset = Unanswered /\ Local!Ids = IdsIn(Callers) /\ Local!Versions = 0..1
  /\ \A c, k, n : Local!RowsOf(c, k, n) = RowsOf(c, k, n)
  /\ \A c, rows : Local!Request(c, rows) = Request(c, rows)
  /\ \A rows : Local!Result(rows) = Result(rows)
  /\ \A s : Local!Joined(s) = Joined(s)
  /\ \A s, results, k : Local!Slice(results, s, k) = Slice(results, s, k)
  /\ \A b, c, k, n, g : Local!PhaseOf(b, c, k, n, g) = PhaseOf(b, c, k, n, g)
PROOF
  <1>1. Local!Rows = RowsIn(Callers)
    BY DEF Local!Rows, RowsIn
  <1>2. Local!Requests = RequestsIn(Callers)
    BY <1>1 DEF Local!Requests, RequestsIn
  <1>3. Local!Error = Error /\ Local!Unset = Unanswered
    BY DEF Local!Error, Error, Local!Unset, Unanswered, Local!Row, Row
  <1>4. Local!Outcomes = OutcomesIn(Callers)
    BY <1>1 DEF Local!Outcomes, OutcomesIn
  <1>5. \A c, k, n : Local!RowsOf(c, k, n) = RowsOf(c, k, n)
    BY DEF Local!RowsOf, RowsOf, Local!Row, Row
  <1>6. /\ \A c, rows : Local!Request(c, rows) = Request(c, rows)
        /\ \A rows : Local!Result(rows) = Result(rows)
    BY DEF Local!Request, Request, Local!Result, Result
  <1>7. \A s : Local!Joined(s) = Joined(s)
    BY DEF Local!Joined, Joined
  <1>8. \A s, results, k : Local!Slice(results, s, k) = Slice(results, s, k)
    BY <1>7 DEF Local!Slice, Slice, Local!RowCount, RowCount
  <1>9. \A b, c, k, n, g : Local!PhaseOf(b, c, k, n, g) = PhaseOf(b, c, k, n, g)
    BY <1>5 DEF Local!PhaseOf, PhaseOf
  <1>10. Local!Ids = IdsIn(Callers) /\ Local!Versions = 0..1
    BY DEF Local!Ids, IdsIn, Local!Versions
  <1> QED
    BY <1>1, <1>2, <1>3, <1>4, <1>5, <1>6, <1>7, <1>8, <1>9, <1>10

LEMMA LoSafe ==
  LoInv => Local!TypeOK /\ Local!NoEntryLeaks /\ Local!StopEndsEveryCall /\ Local!BarrierHolds
PROOF
  <1> SUFFICES ASSUME LoInv
               PROVE  Local!TypeOK /\ Local!NoEntryLeaks /\ Local!StopEndsEveryCall /\ Local!BarrierHolds
    OBVIOUS
  <1>1. InClients(Callers) /\ InServer(Callers) /\ InVersions(Callers) /\ requested <= 1 /\ 1 \in Nat
    BY DEF LoInv
  <1>2. ClTyped(Callers)
    BY <1>1 DEF InClients
  <1>3. \A c : Local!Current(c) = LatestOf(c)
    BY DEF Local!Current, LatestOf
  <1>4. Local!NoEntryLeaks /\ Local!StopEndsEveryCall /\ Local!BarrierHolds
    BY <1>1, <1>3, LoSame, InSafe
       DEF Local!NoEntryLeaks, Local!StopEndsEveryCall, Local!BarrierHolds
  <1>5. \A c \in Callers : round[c] \in 0..Calls(1, 1)[c]
    <2>1. \A c \in Callers : round[c] \in Nat /\ round[c] <= Calls(1, 1)[c] /\ Calls(1, 1)[c] \in Nat
      BY <1>2 DEF LoInv, ClTyped, Calls
    <2> QED
      BY <2>1
  <1>6. /\ popped \in Seq([id : IdsIn(Callers), rows : Seq(RowsIn(Callers)), version : 0..1])
        /\ {requested, applied, served, promised, nextWeights} \subseteq 0..1
        /\ floor \in [Callers -> 0..1] /\ version \in [Callers -> 0..1]
    BY <1>1, InBounds
  <1>7. Local!RequestsTypeOK
    BY <1>1, <1>2, <1>5, <1>6, LoSame DEF Local!RequestsTypeOK, ClTyped, InServer
  <1> QED
    BY <1>4, <1>7 DEF Local!TypeOK

LEMMA LoInit ==
  Local!Init => LoInv
PROOF
  <1> SUFFICES ASSUME Local!Init PROVE LoInv
    OBVIOUS
  <1>1. InClients(Callers) /\ InServer(Callers) /\ InVersions(Callers)
    BY LoSame, InInit DEF Local!Init, Local!RequestsInit
  <1>2. \A c \in Callers : round[c] = 0 /\ Calls(1, 1)[c] = 1
    BY DEF Local!Init, Local!RequestsInit, Calls
  <1> QED
    BY <1>1, <1>2 DEF LoInv, Local!Init, Local!RequestsInit

LEMMA LoMoves ==
  ASSUME NEW c \in Callers, Local!Call(c)
  PROVE  /\ Moves(c)
         /\ \/ round' = round
            \/ round[c] < Calls(1, 1)[c] /\ round' = [round EXCEPT ![c] = round[c] + 1]
PROOF
  <1>1. UNCHANGED <<batch, emitted, server, stopEvent, requested, applied, promised, served,
                    nextWeights, popped, doomed, closed, closer>>
    BY DEF Local!Call, Local!Register, Local!TimeOut, Local!Continue, Local!Check, Local!Submit,
           Local!Return, Local!GiveUp, Local!evaluator, Local!weights, Local!routing
  <1>2. CASE Local!Register(c)
    <2>1. \E n \in 1..1 : size' = [size EXCEPT ![c] = n]
      BY <1>2 DEF Local!Register
    <2>2. \A n \in 1..1 : n = 1
      OBVIOUS
    <2>3. size' = [size EXCEPT ![c] = 1]
      BY <2>1, <2>2
    <2>4. Begins(c) /\ round[c] < Calls(1, 1)[c]
      BY <1>2, <2>3, LoSame DEF Local!Register, Local!Goes, Begins
    <2> QED
      BY <1>1, <2>4 DEF Moves, Begins
  <1>3. CASE Local!Check(c)
    <2>1. Finishes(c) \/ Continues(c)
      BY <1>3 DEF Local!Check, Local!Goes, Local!calls, Local!Current, Finishes, Continues
    <2>2. round' = round
      BY <1>3 DEF Local!Check, Local!calls
    <2> QED
      BY <1>1, <2>1, <2>2 DEF Moves
  <1>4. CASE Local!Submit(c)
    <2>1. Continues(c)
      BY <1>4, LoSame DEF Local!Submit, Local!Goes, Local!calls, Local!routing, Continues
    <2>2. round' = round
      BY <1>4 DEF Local!Submit, Local!calls
    <2> QED
      BY <1>1, <2>1, <2>2 DEF Moves
  <1>5. CASE Local!Return(c)
    <2>1. Finishes(c)
      BY <1>5, LoSame DEF Local!Return, Local!Goes, Local!calls, Local!routing, Finishes
    <2>2. round' = round
      BY <1>5 DEF Local!Return, Local!calls
    <2> QED
      BY <1>1, <2>1, <2>2 DEF Moves
  <1>6. CASE Local!TimeOut(c)
    <2>1. Continues(c)
      BY <1>6 DEF Local!TimeOut, Local!Goes, Local!calls, Local!routing, Continues
    <2>2. round' = round
      BY <1>6 DEF Local!TimeOut, Local!calls
    <2> QED
      BY <1>1, <2>1, <2>2 DEF Moves
  <1>7. CASE Local!GiveUp(c)
    <2>1. Finishes(c)
      BY <1>7 DEF Local!GiveUp, Local!Goes, Local!calls, Local!Current, Finishes
    <2>2. round' = round
      BY <1>7 DEF Local!GiveUp, Local!calls
    <2> QED
      BY <1>1, <2>1, <2>2 DEF Moves
  <1> QED
    BY <1>2, <1>3, <1>4, <1>5, <1>6, <1>7 DEF Local!Call, Local!Continue

LEMMA LoStops ==
  ASSUME Local!Close \/ Local!Finish
  PROVE  Stops(Callers)
PROOF
  <1>1. CASE Local!Close
    BY <1>1 DEF Local!Close, Stops, Local!clients, Local!calls, Local!routing, Local!evaluator, Local!weights
  <1>2. CASE Local!CancelAll
    BY <1>2 DEF Local!CancelAll, Stops, Local!clients, Local!calls, Local!evaluator, Local!weights
  <1>3. CASE Local!WakeAll
    BY <1>3, LoSame DEF Local!WakeAll, Stops, Local!calls, Local!evaluator, Local!weights, Local!Current
  <1>4. CASE Local!SetStop
    BY <1>4 DEF Local!SetStop, Stops, Local!clients, Local!calls, Local!routing, Local!evaluator, Local!weights
  <1> QED
    BY <1>1, <1>2, <1>3, <1>4 DEF Local!Finish, Local!Closing

LEMMA LoHands ==
  ASSUME Local!HandOver
  PROVE  Hands(Callers)
PROOF
  <1>1. PICK c \in Callers :
          /\ popped[1].id[1] = c
          /\ IF popped[1].id = LatestOf(c)
             THEN /\ future' = [future EXCEPT ![c] = Result(popped[1].rows)]
                  /\ version' = [version EXCEPT ![c] = popped[1].version]
             ELSE UNCHANGED <<future, version>>
    BY LoSame DEF Local!HandOver, Local!Current, LatestOf
  <1>2. /\ popped # <<>> /\ popped' = <<>>
        /\ UNCHANGED <<caller, round, size, floor, got, table, doomed, closed, closer, queue, server,
                       batch, emitted, served, nextWeights, stopEvent, requested, applied, promised>>
    BY DEF Local!HandOver, Local!calls, Local!evaluator, Local!weights
  <1> QED
    BY <1>1, <1>2 DEF Hands

LEMMA LoBatches ==
  ASSUME Local!Evaluate("get")
  PROVE  Batches
PROOF
  <1>1. ClientsRest /\ VersionsRest /\ UNCHANGED stopEvent
    BY DEF Local!Evaluate, Local!Get, Local!GetNothing, Local!Forward, Local!ForwardRaises,
           Local!elsewhere, Local!routing, Local!clients, Local!calls, ClientsRest, VersionsRest
  <1>2. CASE Local!Get("get")
    BY <1>1, <1>2 DEF Local!Get, Batches
  <1>3. CASE Local!GetNothing \/ Local!Forward \/ Local!ForwardRaises
    BY <1>1, <1>3 DEF Local!GetNothing, Local!Forward, Local!ForwardRaises, Batches
  <1> QED
    BY <1>2, <1>3 DEF Local!Evaluate

LEMMA LoConfirms ==
  ASSUME Local!Confirm
  PROVE  Confirms
BY DEF Local!Confirm, Confirms, ClientsRest, Local!clients, Local!calls, Local!routing, Local!evaluator

(* What is left: new weights, and the two ends of a batch. *)
LEMMA LoWeights ==
  ASSUME LoInv, Local!UpdateWeights
  PROVE  LoInv'
PROOF
  <1>1. InClients(Callers) /\ InServer(Callers) /\ InVersions(Callers)
    BY DEF LoInv
  <1>2. UNCHANGED <<caller, round, size, floor, got, future, version, table, doomed, popped, closed,
                    closer, queue, server, batch, emitted, served, stopEvent, applied, promised>>
    BY DEF Local!UpdateWeights, Local!clients, Local!calls, Local!routing
  <1>3. requested < 1 /\ requested' = requested + 1 /\ nextWeights' = requested'
    BY DEF Local!UpdateWeights
  <1>4. InClients(Callers)'
    BY <1>1, <1>2, ClSame
  <1>5. InServer(Callers)'
    BY <1>1, <1>2 DEF InServer, Sent
  <1>6. /\ requested' \in Nat /\ served <= requested' /\ served <= nextWeights'
        /\ nextWeights' <= requested' /\ requested' <= 1
    <2>1. requested \in Nat /\ served \in Nat /\ served <= requested
      BY <1>1 DEF InVersions
    <2> QED
      BY <1>3, <2>1
  <1>7. InVersions(Callers)'
    BY <1>1, <1>2, <1>3, <1>6 DEF InVersions
  <1> QED
    BY <1>2, <1>4, <1>5, <1>6, <1>7 DEF LoInv

LEMMA LoTop ==
  ASSUME LoInv, Local!Top
  PROVE  LoInv'
PROOF
  <1>1. InClients(Callers) /\ InServer(Callers) /\ InVersions(Callers)
    BY DEF LoInv
  <1>2. UNCHANGED <<caller, round, size, floor, got, future, version, table, doomed, popped, closed,
                    closer, queue, stopEvent, requested, promised>>
    BY DEF Local!Top, Local!elsewhere, Local!clients, Local!calls, Local!routing
  <1>3. /\ batch' = <<>> /\ emitted' = 0 /\ server' \in {"gone", "get"} /\ popped = <<>>
        /\ \/ UNCHANGED <<served, nextWeights, applied>>
           \/ nextWeights # 0 /\ served' = nextWeights /\ applied' = nextWeights /\ nextWeights' = 0
    BY DEF Local!Top
  <1>4. InClients(Callers)'
    BY <1>1, <1>2, ClSame
  <1>5. InServer(Callers)'
    <2>0. round \in [Callers -> Nat] /\ round' = round /\ stopEvent' \in BOOLEAN
      BY <1>1, <1>2 DEF InClients, ClTyped, InServer
    <2>1. /\ round \in [Callers -> Nat] /\ round' \in [Callers -> Nat] /\ stopEvent' \in BOOLEAN
          /\ \A c \in Callers : round[c] <= round'[c]
      BY <2>0
    <2>2. emitted' \in 0..Len(batch')
      BY <1>3, EmptyCounts
    <2> QED
      BY <1>1, <1>2, <1>3, <2>1, <2>2, SvElsewhere
  <1>6. InVersions(Callers)'
    <2>1. CASE UNCHANGED <<served, nextWeights, applied>>
      BY <1>1, <1>2, <2>1 DEF InVersions
    <2>2. CASE nextWeights # 0 /\ served' = nextWeights /\ applied' = nextWeights /\ nextWeights' = 0
      <3>1. /\ promised \in Nat /\ applied \in Nat /\ served \in Nat /\ nextWeights \in Nat
            /\ promised <= applied /\ applied <= served /\ served <= nextWeights
            /\ nextWeights <= requested /\ requested \in Nat
        BY <1>1, <2>2 DEF InVersions
      <3>2. /\ promised <= nextWeights /\ 0 <= requested /\ nextWeights <= nextWeights
        BY <3>1
      <3>3. \A c \in Callers : version[c] <= nextWeights
        <4>1. \A c \in Callers : version[c] <= served /\ version[c] \in Nat
          BY <1>1 DEF InVersions, InClients, ClTyped
        <4> QED
          BY <3>1, <4>1
      <3> QED
        BY <1>1, <1>2, <1>3, <2>2, <3>1, <3>2, <3>3 DEF InVersions
    <2> QED
      BY <1>3, <2>1, <2>2
  <1> QED
    BY <1>2, <1>4, <1>5, <1>6 DEF LoInv

LEMMA LoEmit ==
  ASSUME LoInv, Local!Emit
  PROVE  LoInv'
PROOF
  <1>1. InClients(Callers) /\ InServer(Callers) /\ InVersions(Callers)
    BY DEF LoInv
  <1>2. UNCHANGED <<caller, round, size, floor, got, future, version, doomed, closed, closer, queue,
                    batch, served, nextWeights, stopEvent, requested, applied, promised>>
    BY DEF Local!Emit, Local!elsewhere, Local!clients, Local!calls
  <1>3. /\ server = "emitting" /\ emitted' = emitted + 1
        /\ server' = IF emitted' < Len(batch) THEN "emitting" ELSE "top"
    BY DEF Local!Emit, Local!Emits
  <1>4. PICK a : a = [id |-> <<batch[emitted + 1].by, Head(batch[emitted + 1].rows).call>>,
                      rows |-> Slice(Joined(batch), batch, emitted + 1), version |-> served]
    OBVIOUS
  <1>5. /\ popped = <<>> /\ table' = table \ {a.id}
        /\ popped' = IF a.id \in table THEN <<a>> ELSE <<>>
    BY <1>4, LoSame DEF Local!Emit, Local!Pop, Local!IdOf, Local!Emitted
  <1>6. round \in [Callers -> Nat] /\ floor \in [Callers -> Nat]
    BY <1>1 DEF InClients, ClTyped
  <1>7. a \in AnswersIn(Callers) /\ Right(a) /\ a.version = served
    BY <1>1, <1>3, <1>4, <1>6, EmittedIs
  <1>8. InClients(Callers)'
    BY <1>1, <1>2, <1>5, <1>7, ClPop
  <1>9. InServer(Callers)'
    <2>1. emitted \in Nat /\ emitted < Len(batch) /\ Len(batch) \in Nat /\ stopEvent \in BOOLEAN
      <3>1. emitted \in 0..Len(batch) /\ emitted < Len(batch) /\ batch \in Seq(RequestsIn(Callers))
              /\ stopEvent \in BOOLEAN
        BY <1>1, <1>3 DEF InServer
      <3> QED
        BY <3>1, LenProperties
    <2>2. /\ emitted' \in 0..Len(batch') /\ stopEvent' \in BOOLEAN /\ batch' = batch
          /\ server' \in {"top", "emitting"}
          /\ server' = "emitting" => emitted' < Len(batch')
      BY <1>2, <1>3, <2>1
    <2>3. round' \in [Callers -> Nat] /\ \A c \in Callers : round[c] <= round'[c]
      BY <1>2, <1>6
    <2> QED
      BY <1>1, <1>2, <1>6, <2>2, <2>3, SvElsewhere
  <1>10. InVersions(Callers)'
    <2>1. popped' # <<>> => popped'[1].version <= served
      <3>1. popped' # <<>> => popped'[1] = a
        BY <1>5
      <3>2. served \in Nat
        BY <1>1 DEF InVersions
      <3> QED
        BY <1>7, <3>1, <3>2
    <2> QED
      BY <1>1, <1>2, <2>1 DEF InVersions
  <1> QED
    BY <1>2, <1>8, <1>9, <1>10 DEF LoInv

LEMMA InAllSame ==
  ASSUME NEW C, InAll(C), UNCHANGED <<shared, future, inference>>
  PROVE  InAll(C)'
PROOF
  <1>1. UNCHANGED <<queue, closed, closer, caller, round, size, got, server, batch, future,
                    table, popped, doomed, emitted, nextWeights, served, stopEvent,
                    requested, applied, promised, floor, version>>
    BY DEF shared, inference
  <1>2. InClients(C)'
    BY <1>1, ClSame DEF InAll
  <1>3. InServer(C)'
    BY <1>1 DEF InAll, InServer, Sent
  <1>4. InVersions(C)'
    BY <1>1 DEF InAll, InVersions
  <1> QED
    BY <1>2, <1>3, <1>4 DEF InAll

(* The calls stay within their bound. *)
LEMMA InCalls ==
  ASSUME NEW C, NEW M \in [C -> Nat], round \in [C -> Nat], \A c \in C : round[c] <= M[c],
         NEW c \in C,
         \/ round' = round
         \/ round[c] < M[c] /\ round' = [round EXCEPT ![c] = round[c] + 1]
  PROVE  \A d \in C : round'[d] <= M[d]
PROOF
  <1>1. CASE round' = round
    BY <1>1
  <1>2. CASE round[c] < M[c] /\ round' = [round EXCEPT ![c] = round[c] + 1]
    <2>1. round[c] \in Nat /\ M[c] \in Nat
      OBVIOUS
    <2>2. round'[c] <= M[c] /\ \A d \in C : d # c => round'[d] = round[d]
      BY <1>2, <2>1
    <2> QED
      BY <2>2
  <1> QED
    BY <1>1, <1>2

LEMMA LoUnchanged ==
  ASSUME LoInv, UNCHANGED <<shared, future, inference>>
  PROVE  LoInv'
PROOF
  <1>1. InAll(Callers)'
    BY InAllSame DEF LoInv, InAll
  <1>2. UNCHANGED <<requested, round>>
    BY DEF shared, inference
  <1> QED
    BY <1>1, <1>2 DEF LoInv, InAll

LEMMA LoInductive ==
  ASSUME LoInv, Local!Next
  PROVE  LoInv'
PROOF
  <1>1. InAll(Callers)
    BY DEF LoInv, InAll
  <1>2. ASSUME InAll(Callers)', UNCHANGED requested, UNCHANGED round
        PROVE  LoInv'
    BY <1>2 DEF LoInv, InAll
  <1>3. ASSUME NEW c \in Callers, Local!Call(c)
        PROVE  LoInv'
    <2>1. /\ Moves(c)
          /\ \/ round' = round
             \/ round[c] < Calls(1, 1)[c] /\ round' = [round EXCEPT ![c] = round[c] + 1]
      BY <1>3, LoMoves
    <2>2. InAll(Callers)'
      BY <1>1, <2>1, MovesKeep
    <2>3. Calls(1, 1) \in [Callers -> Nat] /\ round \in [Callers -> Nat]
      BY <1>1 DEF Calls, InAll, InClients, ClTyped
    <2>4. \A d \in Callers : round'[d] <= Calls(1, 1)[d]
      <3> DEFINE M == Calls(1, 1)
      <3>1. M \in [Callers -> Nat] /\ \A d \in Callers : round[d] <= M[d]
        BY <2>3 DEF LoInv
      <3>2. \/ round' = round
            \/ round[c] < M[c] /\ round' = [round EXCEPT ![c] = round[c] + 1]
        BY <2>1
      <3> HIDE DEF M
      <3>3. \A d \in Callers : round'[d] <= M[d]
        BY <2>3, <3>1, <3>2, InCalls
      <3> QED
        BY <3>3 DEF M, Calls
    <2>5. UNCHANGED requested
      BY <2>1 DEF Moves
    <2> QED
      BY <2>2, <2>4, <2>5 DEF LoInv, InAll
  <1>4. CASE Local!Close \/ Local!Finish
    <2>1. Stops(Callers)
      BY <1>4, LoStops
    <2>2. InAll(Callers)'
      BY <1>1, <2>1, StopsKeep
    <2> QED
      BY <1>2, <2>1, <2>2 DEF Stops
  <1>5. CASE Local!HandOver
    <2>1. Hands(Callers)
      BY <1>5, LoHands
    <2>2. InAll(Callers)'
      BY <1>1, <2>1, HandsKeep
    <2> QED
      BY <1>2, <2>1, <2>2 DEF Hands
  <1>6. CASE Local!Evaluate("get")
    <2>1. Batches
      BY <1>6, LoBatches
    <2>2. InAll(Callers)'
      BY <1>1, <2>1, BatchesKeep
    <2> QED
      BY <1>2, <2>1, <2>2 DEF Batches, ClientsRest, VersionsRest
  <1>7. CASE Local!Confirm
    <2>1. Confirms
      BY <1>7, LoConfirms
    <2>2. InAll(Callers)'
      BY <1>1, <2>1, ConfirmsKeep
    <2> QED
      BY <1>2, <2>1, <2>2 DEF Confirms, ClientsRest
  <1> QED
    BY <1>3, <1>4, <1>5, <1>6, <1>7, LoWeights, LoTop, LoEmit
       DEF Local!Next, Local!Serve, Local!Finish

----------------------------------------------------------------------------
LEMMA LoPhases ==
  /\ which = "local" /\ DOMAIN caller = Callers =>
       Phases = [c \in Callers |-> IF c \in Callers THEN InPhase(c) ELSE "none"]
  /\ which' = "local" /\ DOMAIN caller' = Callers =>
       Phases' = [c \in Callers |-> IF c \in Callers THEN InPhase(c)' ELSE "none"]
PROOF
  <1>1. \A b, c, k, n, g : Local!PhaseOf(b, c, k, n, g) = PhaseOf(b, c, k, n, g)
    BY LoSame
  <1>2. which = "local" => \A c \in Callers : PhaseIn(c) = InPhase(c)
    BY <1>1 DEF PhaseIn, Local!Phase, InPhase
  <1>3. which' = "local" => \A c \in Callers : PhaseIn(c)' = InPhase(c)'
    BY <1>1 DEF PhaseIn, Local!Phase, InPhase
  <1> QED
    BY <1>2, <1>3 DEF Phases

(* The callers do not see what the other threads do. *)
LEMMA Unseen ==
  ASSUME NEW C, InAll(C), InAll(C)',
         Phases = [c \in Callers |-> IF c \in C THEN InPhase(c) ELSE "none"],
         Phases' = [c \in Callers |-> IF c \in C THEN InPhase(c)' ELSE "none"],
         \/ \E c \in C : Moves(c)
         \/ UNCHANGED <<caller, round, size, got>> /\ closed' \in {closed, TRUE}
  PROVE  [Abstract!Next]_(Abstract!vars)
PROOF
  <1>1. InClients(C) /\ InClients(C)'
    BY DEF InAll
  <1>2. ASSUME NEW c \in C, Moves(c)
        PROVE  [Abstract!Next]_(Abstract!vars)
    <2>1. /\ closed' = closed
          /\ \A d \in C : d # c => caller'[d] = caller[d] /\ StaysThere(d)
          /\ \/ GoesOn(c, "idle", "registered")
             \/ GoesOn(c, "registered", "submitting") /\ ~closed /\ StaysThere(c)
             \/ GoesOn(c, "registered", "idle") /\ StaysThere(c)
             \/ caller[c] \in Going /\ caller'[c] \in Going /\ StaysThere(c)
             \/ caller[c] \in Going /\ caller'[c] = "idle" /\ round'[c] = round[c]
      BY <1>2, MovesOn
    <2> QED
      BY <1>1, <2>1, InPromise
  <1>3. CASE UNCHANGED <<caller, round, size, got>> /\ closed' \in {closed, TRUE}
    BY <1>1, <1>3, InPromise
  <1> QED
    BY <1>2, <1>3

LEMMA LoPromise ==
  ASSUME LoInv, LoInv', which = "local", which' = "local", Local!Next
  PROVE  [Abstract!Next]_(Abstract!vars)
PROOF
  <1>1. InAll(Callers) /\ InAll(Callers)'
    BY DEF LoInv, InAll
  <1>2. DOMAIN caller = Callers /\ DOMAIN caller' = Callers
    BY <1>1 DEF InAll, InClients, ClTyped
  <1>3. /\ Phases = [c \in Callers |-> IF c \in Callers THEN InPhase(c) ELSE "none"]
        /\ Phases' = [c \in Callers |-> IF c \in Callers THEN InPhase(c)' ELSE "none"]
    BY <1>2, LoPhases
  <1>4. ASSUME \/ \E c \in Callers : Moves(c)
               \/ UNCHANGED <<caller, round, size, got>> /\ closed' \in {closed, TRUE}
        PROVE  [Abstract!Next]_(Abstract!vars)
    BY <1>1, <1>3, <1>4, Unseen
  <1>5. CASE \E c \in Callers : Local!Call(c)
    BY <1>4, <1>5, LoMoves
  <1>6. CASE Local!Close \/ Local!Finish
    BY <1>4, <1>6, LoStops DEF Stops
  <1>7. CASE Local!HandOver
    BY <1>4, <1>7, LoHands DEF Hands
  <1>8. CASE Local!Evaluate("get")
    BY <1>4, <1>8, LoBatches DEF Batches, ClientsRest
  <1>9. CASE Local!Confirm
    BY <1>4, <1>9, LoConfirms DEF Confirms, ClientsRest
  <1>10. CASE Local!UpdateWeights \/ Local!Top \/ Local!Emit
    <2>1. UNCHANGED <<caller, round, size, got, closed>>
      BY <1>10 DEF Local!UpdateWeights, Local!Top, Local!Emit, Local!elsewhere, Local!clients, Local!calls
    <2> QED
      BY <1>4, <2>1
  <1> QED
    BY <1>5, <1>6, <1>7, <1>8, <1>9, <1>10 DEF Local!Next, Local!Serve, Local!Finish

----------------------------------------------------------------------------
(* The backend with a process of its own.  The two instances differ in     *)
(* their bounds only: both are behaviours of this one.                     *)
Wide == INSTANCE RemoteInference WITH
            Callers <- One, MaxRows <- 1, MaxCalls <- CallsOfOne(2), MaxUpdates <- 2,
            WeightSlots <- 1

OneMore(n, bound) == n' = n \/ (n < bound /\ n' = n + 1)

LEMMA WiSame ==
  /\ Wide!Rows = RowsIn(One) /\ Wide!Requests = RequestsIn(One)
  /\ Wide!Error = Error /\ Wide!Outcomes = OutcomesIn(One)
  /\ Wide!Unset = Unanswered /\ Wide!Ids = IdsIn(One)
  /\ \A c, k, n : Wide!RowsOf(c, k, n) = RowsOf(c, k, n)
  /\ \A c, rows : Wide!Request(c, rows) = Request(c, rows)
  /\ \A rows : Wide!Result(rows) = Result(rows)
  /\ \A s : Wide!Joined(s) = Joined(s)
  /\ \A s, results, k : Wide!Slice(results, s, k) = Slice(results, s, k)
  /\ \A b, c, k, n, g : Wide!PhaseOf(b, c, k, n, g) = PhaseOf(b, c, k, n, g)
PROOF
  <1>1. Wide!Rows = RowsIn(One)
    BY DEF Wide!Rows, RowsIn
  <1>2. Wide!Requests = RequestsIn(One)
    BY <1>1 DEF Wide!Requests, RequestsIn
  <1>3. Wide!Error = Error /\ Wide!Unset = Unanswered
    BY DEF Wide!Error, Error, Wide!Unset, Unanswered, Wide!Row, Row
  <1>4. Wide!Outcomes = OutcomesIn(One)
    BY <1>1 DEF Wide!Outcomes, OutcomesIn
  <1>5. \A c, k, n : Wide!RowsOf(c, k, n) = RowsOf(c, k, n)
    BY DEF Wide!RowsOf, RowsOf, Wide!Row, Row
  <1>6. /\ \A c, rows : Wide!Request(c, rows) = Request(c, rows)
        /\ \A rows : Wide!Result(rows) = Result(rows)
    BY DEF Wide!Request, Request, Wide!Result, Result
  <1>7. \A s : Wide!Joined(s) = Joined(s)
    BY DEF Wide!Joined, Joined
  <1>8. \A s, results, k : Wide!Slice(results, s, k) = Slice(results, s, k)
    BY <1>7 DEF Wide!Slice, Slice, Wide!RowCount, RowCount
  <1>9. \A b, c, k, n, g : Wide!PhaseOf(b, c, k, n, g) = PhaseOf(b, c, k, n, g)
    BY <1>5 DEF Wide!PhaseOf, PhaseOf
  <1>10. Wide!Ids = IdsIn(One)
    BY DEF Wide!Ids, IdsIn
  <1> QED
    BY <1>1, <1>2, <1>3, <1>4, <1>5, <1>6, <1>7, <1>8, <1>9, <1>10

LEMMA WiMoves ==
  ASSUME NEW c \in One, Wide!Call(c)
  PROVE  /\ Moves(c)
         /\ \/ round' = round
            \/ round[c] < CallsOfOne(2)[c] /\ round' = [round EXCEPT ![c] = round[c] + 1]
PROOF
  <1>1. UNCHANGED <<batch, emitted, server, stopEvent, requested, applied, promised, served,
                    nextWeights, popped, doomed, closed, closer>>
    BY DEF Wide!Call, Wide!Register, Wide!TimeOut, Wide!Continue, Wide!Check, Wide!Submit,
           Wide!Return, Wide!GiveUp, Wide!evaluator, Wide!weights, Wide!routing
  <1>2. CASE Wide!Register(c)
    <2>1. \E n \in 1..1 : size' = [size EXCEPT ![c] = n]
      BY <1>2 DEF Wide!Register
    <2>2. \A n \in 1..1 : n = 1
      OBVIOUS
    <2>3. size' = [size EXCEPT ![c] = 1]
      BY <2>1, <2>2
    <2>4. Begins(c) /\ round[c] < CallsOfOne(2)[c]
      BY <1>2, <2>3, WiSame DEF Wide!Register, Wide!Goes, Begins
    <2> QED
      BY <1>1, <2>4 DEF Moves, Begins
  <1>3. CASE Wide!Check(c)
    <2>1. Finishes(c) \/ Continues(c)
      BY <1>3 DEF Wide!Check, Wide!Goes, Wide!calls, Wide!Current, Finishes, Continues
    <2>2. round' = round
      BY <1>3 DEF Wide!Check, Wide!calls
    <2> QED
      BY <1>1, <2>1, <2>2 DEF Moves
  <1>4. CASE Wide!Submit(c)
    <2>1. Continues(c)
      BY <1>4, WiSame DEF Wide!Submit, Wide!Goes, Wide!calls, Wide!routing, Continues
    <2>2. round' = round
      BY <1>4 DEF Wide!Submit, Wide!calls
    <2> QED
      BY <1>1, <2>1, <2>2 DEF Moves
  <1>5. CASE Wide!Return(c)
    <2>1. Finishes(c)
      BY <1>5, WiSame DEF Wide!Return, Wide!Goes, Wide!calls, Wide!routing, Finishes
    <2>2. round' = round
      BY <1>5 DEF Wide!Return, Wide!calls
    <2> QED
      BY <1>1, <2>1, <2>2 DEF Moves
  <1>6. CASE Wide!TimeOut(c)
    <2>1. Continues(c)
      BY <1>6 DEF Wide!TimeOut, Wide!Goes, Wide!calls, Wide!routing, Continues
    <2>2. round' = round
      BY <1>6 DEF Wide!TimeOut, Wide!calls
    <2> QED
      BY <1>1, <2>1, <2>2 DEF Moves
  <1>7. CASE Wide!GiveUp(c)
    <2>1. Finishes(c)
      BY <1>7 DEF Wide!GiveUp, Wide!Goes, Wide!calls, Wide!Current, Finishes
    <2>2. round' = round
      BY <1>7 DEF Wide!GiveUp, Wide!calls
    <2> QED
      BY <1>1, <2>1, <2>2 DEF Moves
  <1> QED
    BY <1>2, <1>3, <1>4, <1>5, <1>6, <1>7 DEF Wide!Call, Wide!Continue

LEMMA WiStops ==
  ASSUME Wide!Close \/ Wide!Finish
  PROVE  Stops(One)
PROOF
  <1>1. CASE Wide!Close
    BY <1>1 DEF Wide!Close, Stops, Wide!clients, Wide!calls, Wide!routing, Wide!evaluator, Wide!weights
  <1>2. CASE Wide!CancelAll
    BY <1>2 DEF Wide!CancelAll, Stops, Wide!clients, Wide!calls, Wide!evaluator, Wide!weights
  <1>3. CASE Wide!WakeAll
    BY <1>3, WiSame DEF Wide!WakeAll, Stops, Wide!calls, Wide!evaluator, Wide!weights, Wide!Current
  <1>4. CASE Wide!SetStop
    BY <1>4 DEF Wide!SetStop, Stops, Wide!clients, Wide!calls, Wide!routing, Wide!evaluator, Wide!weights
  <1> QED
    BY <1>1, <1>2, <1>3, <1>4 DEF Wide!Finish, Wide!Closing

LEMMA WiHands ==
  ASSUME Wide!HandOver
  PROVE  Hands(One)
PROOF
  <1>1. PICK c \in One :
          /\ popped[1].id[1] = c
          /\ IF popped[1].id = LatestOf(c)
             THEN /\ future' = [future EXCEPT ![c] = Result(popped[1].rows)]
                  /\ version' = [version EXCEPT ![c] = popped[1].version]
             ELSE UNCHANGED <<future, version>>
    BY WiSame DEF Wide!HandOver, Wide!Current, LatestOf
  <1>2. /\ popped # <<>> /\ popped' = <<>>
        /\ UNCHANGED <<caller, round, size, floor, got, table, doomed, closed, closer, queue, server,
                       batch, emitted, served, nextWeights, stopEvent, requested, applied, promised>>
    BY DEF Wide!HandOver, Wide!calls, Wide!evaluator, Wide!weights
  <1> QED
    BY <1>1, <1>2 DEF Hands

LEMMA WiBatches ==
  ASSUME Wide!Evaluate("poll")
  PROVE  Batches
PROOF
  <1>1. ClientsRest /\ VersionsRest /\ UNCHANGED stopEvent
    BY DEF Wide!Evaluate, Wide!Get, Wide!GetNothing, Wide!Forward, Wide!ForwardRaises,
           Wide!elsewhere, Wide!routing, Wide!clients, Wide!calls, ClientsRest, VersionsRest
  <1>2. CASE Wide!Get("poll")
    BY <1>1, <1>2 DEF Wide!Get, Batches
  <1>3. CASE Wide!GetNothing \/ Wide!Forward \/ Wide!ForwardRaises
    BY <1>1, <1>3 DEF Wide!GetNothing, Wide!Forward, Wide!ForwardRaises, Batches
  <1> QED
    BY <1>2, <1>3 DEF Wide!Evaluate

LEMMA WiConfirms ==
  ASSUME Wide!Confirm
  PROVE  Confirms
BY DEF Wide!Confirm, Confirms, ClientsRest, Wide!clients, Wide!calls, Wide!routing, Wide!evaluator

(* A step of this instance is one of the wider one, within its own bounds. *)
LEMMA RemoteIsWide ==
  ASSUME Remote!Next, requested \in Nat, round[c1] \in Nat, DOMAIN round = One
  PROVE  Wide!Next /\ OneMore(requested, 1) /\ OneMore(round[c1], 2)
PROOF
  <1>1. ASSUME Wide!Next, UNCHANGED <<requested, round>>
        PROVE  Wide!Next /\ OneMore(requested, 1) /\ OneMore(round[c1], 2)
    BY <1>1 DEF OneMore
  <1>2. UNCHANGED Remote!channels => UNCHANGED Wide!channels
    BY DEF Remote!channels, Wide!channels
  <1>3. ASSUME NEW c \in One, Remote!Register(c), UNCHANGED Remote!channels
        PROVE  Wide!Next /\ OneMore(requested, 1) /\ OneMore(round[c1], 2)
    <2>1. Wide!Register(c)
      BY <1>3 DEF One, CallsOfOne, Remote!Register, Wide!Register, Remote!Goes, Wide!Goes, Remote!Unset,
             Wide!Unset, Remote!Error, Wide!Error, Remote!Row, Wide!Row, Remote!evaluator,
             Wide!evaluator, Remote!weights, Wide!weights
    <2>2. Wide!Next
      BY <1>2, <1>3, <2>1 DEF Wide!Next, Wide!Worker, Wide!Call
    <2>3. c = c1 /\ round[c] < 2 /\ round'[c] = round[c] + 1 /\ UNCHANGED requested
      BY <1>3 DEF Remote!Register, Remote!weights, CallsOfOne, One
    <2> QED
      BY <2>2, <2>3 DEF OneMore
  <1>4. ASSUME NEW c \in One, Remote!Continue(c) \/ Remote!TimeOut(c), UNCHANGED Remote!channels
        PROVE  Wide!Next /\ OneMore(requested, 1) /\ OneMore(round[c1], 2)
    <2>1. Wide!Continue(c) \/ Wide!TimeOut(c)
      BY <1>4 DEF Remote!Continue, Wide!Continue, Remote!Check, Wide!Check, Remote!Submit,
             Wide!Submit, Remote!Return, Wide!Return, Remote!GiveUp, Wide!GiveUp,
             Remote!TimeOut, Wide!TimeOut, Remote!Goes, Wide!Goes, Remote!Unset, Wide!Unset,
             Remote!Current, Wide!Current, Remote!Request, Wide!Request, Remote!RowsOf,
             Wide!RowsOf, Remote!Row, Wide!Row, Remote!calls, Wide!calls, Remote!routing,
             Wide!routing, Remote!evaluator, Wide!evaluator, Remote!weights, Wide!weights
    <2>2. UNCHANGED <<requested, round>>
      BY <1>4 DEF Remote!Continue, Remote!Check, Remote!Submit, Remote!Return, Remote!GiveUp, Remote!TimeOut,
                  Remote!calls, Remote!weights
    <2> QED
      BY <1>1, <1>2, <1>4, <2>1, <2>2 DEF Wide!Next, Wide!Worker, Wide!Call
  <1>5. CASE (Remote!Close \/ Remote!Confirm) /\ UNCHANGED Remote!channels
    <2>1. (Wide!Close \/ Wide!Confirm) /\ UNCHANGED <<requested, round>>
      BY <1>5 DEF Remote!Close, Wide!Close, Remote!Confirm, Wide!Confirm, Remote!clients,
             Wide!clients, Remote!calls, Wide!calls, Remote!routing, Wide!routing,
             Remote!evaluator, Wide!evaluator, Remote!weights, Wide!weights
    <2> QED
      BY <1>1, <1>2, <1>5, <2>1 DEF Wide!Next, Wide!Worker
  <1>6. CASE Remote!Finish
    <2>1. Wide!Finish /\ UNCHANGED <<requested, round>>
      BY <1>6 DEF Remote!Finish, Wide!Finish, Remote!Closing, Wide!Closing, Remote!CancelAll,
             Wide!CancelAll, Remote!WakeAll, Wide!WakeAll, Remote!SetStop, Wide!SetStop,
             Remote!Error, Wide!Error, Remote!Current, Wide!Current, Remote!channels,
             Wide!channels, Remote!clients, Wide!clients, Remote!calls, Wide!calls,
             Remote!routing, Wide!routing, Remote!evaluator, Wide!evaluator, Remote!weights,
             Wide!weights
    <2> QED
      BY <1>1, <2>1 DEF Wide!Next
  <1>7. CASE Remote!StopServer \/ Remote!Terminate
    <2>1. (Wide!StopServer \/ Wide!Terminate) /\ UNCHANGED <<requested, round>>
      BY <1>7 DEF Remote!StopServer, Wide!StopServer, Remote!Terminate, Wide!Terminate,
             Remote!channels, Wide!channels, Remote!clients, Wide!clients, Remote!calls,
             Wide!calls, Remote!routing, Wide!routing, Remote!evaluator, Wide!evaluator,
             Remote!weights, Wide!weights
    <2> QED
      BY <1>1, <2>1 DEF Wide!Next
  <1>8. CASE Remote!BeginUpdate
    <2>1. Wide!BeginUpdate
      BY <1>8 DEF Remote!BeginUpdate, Wide!BeginUpdate, Remote!training, Wide!training,
             Remote!clients, Wide!clients, Remote!calls, Wide!calls, Remote!routing,
             Wide!routing, Remote!evaluator, Wide!evaluator, Remote!weights, Wide!weights
    <2>2. requested < 1 /\ requested' = requested + 1 /\ UNCHANGED round
      BY <1>8 DEF Remote!BeginUpdate, Remote!training, Remote!clients, Remote!calls
    <2> QED
      BY <2>1, <2>2 DEF OneMore, Wide!Next
  <1>9. CASE Remote!Train \/ Remote!ReadAck
    <2>1. (Wide!Train \/ Wide!ReadAck) /\ UNCHANGED <<requested, round>>
      BY <1>9 DEF Remote!Train, Wide!Train, Remote!DropOldest, Wide!DropOldest,
             Remote!PutWeights, Wide!PutWeights, Remote!ReadAck, Wide!ReadAck, Remote!training,
             Wide!training, Remote!clients, Wide!clients, Remote!calls, Wide!calls,
             Remote!routing, Wide!routing, Remote!evaluator, Wide!evaluator, Remote!weights,
             Wide!weights
    <2> QED
      BY <1>1, <2>1 DEF Wide!Next
  <1>10. CASE Remote!Serve
    <2>1. Wide!Serve
      BY <1>10 DEF Remote!Serve, Wide!Serve, Remote!Top, Wide!Top, Remote!Poll, Wide!Poll,
             Remote!Emit, Wide!Emit, Remote!Emits, Wide!Emits, Remote!Emitted, Wide!Emitted,
             Remote!IdOf, Wide!IdOf, Remote!Slice, Wide!Slice, Remote!Joined, Wide!Joined,
             Remote!RowCount, Wide!RowCount, Remote!Evaluate, Wide!Evaluate, Remote!Get,
             Wide!Get, Remote!GetNothing, Wide!GetNothing, Remote!Forward, Wide!Forward,
             Remote!ForwardRaises, Wide!ForwardRaises, Remote!elsewhere, Wide!elsewhere,
             Remote!channels, Wide!channels, Remote!clients, Wide!clients, Remote!calls,
             Wide!calls, Remote!routing, Wide!routing, Remote!evaluator, Wide!evaluator,
             Remote!weights, Wide!weights
    <2>2. UNCHANGED <<requested, round>>
      BY <1>10 DEF Remote!Serve, Remote!Top, Remote!Poll, Remote!Emit, Remote!Evaluate, Remote!Get, Remote!GetNothing,
                   Remote!Forward, Remote!ForwardRaises, Remote!elsewhere, Remote!clients, Remote!calls
    <2>3. Wide!Next
      BY <2>1 DEF Wide!Next
    <2> QED
      BY <1>1, <2>2, <2>3
  <1>11. CASE Remote!Answers
    <2>1. Wide!Answers /\ UNCHANGED <<requested, round>>
      BY <1>11 DEF Remote!Answers, Wide!Answers, Remote!Dispatch, Wide!Dispatch, Remote!Pop,
             Wide!Pop, Remote!DispatcherEnds, Wide!DispatcherEnds, Remote!HandOver,
             Wide!HandOver, Remote!Result, Wide!Result, Remote!Current, Wide!Current,
             Remote!common, Wide!common, Remote!channels, Wide!channels, Remote!clients,
             Wide!clients, Remote!calls, Wide!calls, Remote!routing, Wide!routing,
             Remote!evaluator, Wide!evaluator, Remote!weights, Wide!weights
    <2> QED
      BY <1>1, <2>1 DEF Wide!Next
  <1> QED
    BY <1>3, <1>4, <1>5, <1>6, <1>7, <1>8, <1>9, <1>10, <1>11
       DEF Remote!Next, Remote!Worker, Remote!Call

(* A step of this instance is one of the wider one, within its own bounds. *)
LEMMA UpdatedIsWide ==
  ASSUME Updated!Next, requested \in Nat, round[c1] \in Nat, DOMAIN round = One
  PROVE  Wide!Next /\ OneMore(requested, 2) /\ OneMore(round[c1], 1)
PROOF
  <1>1. ASSUME Wide!Next, UNCHANGED <<requested, round>>
        PROVE  Wide!Next /\ OneMore(requested, 2) /\ OneMore(round[c1], 1)
    BY <1>1 DEF OneMore
  <1>2. UNCHANGED Updated!channels => UNCHANGED Wide!channels
    BY DEF Updated!channels, Wide!channels
  <1>3. ASSUME NEW c \in One, Updated!Register(c), UNCHANGED Updated!channels
        PROVE  Wide!Next /\ OneMore(requested, 2) /\ OneMore(round[c1], 1)
    <2>1. Wide!Register(c)
      BY <1>3 DEF One, CallsOfOne, Updated!Register, Wide!Register, Updated!Goes, Wide!Goes, Updated!Unset,
             Wide!Unset, Updated!Error, Wide!Error, Updated!Row, Wide!Row, Updated!evaluator,
             Wide!evaluator, Updated!weights, Wide!weights
    <2>2. Wide!Next
      BY <1>2, <1>3, <2>1 DEF Wide!Next, Wide!Worker, Wide!Call
    <2>3. c = c1 /\ round[c] < 1 /\ round'[c] = round[c] + 1 /\ UNCHANGED requested
      BY <1>3 DEF Updated!Register, Updated!weights, CallsOfOne, One
    <2> QED
      BY <2>2, <2>3 DEF OneMore
  <1>4. ASSUME NEW c \in One, Updated!Continue(c) \/ Updated!TimeOut(c), UNCHANGED Updated!channels
        PROVE  Wide!Next /\ OneMore(requested, 2) /\ OneMore(round[c1], 1)
    <2>1. Wide!Continue(c) \/ Wide!TimeOut(c)
      BY <1>4 DEF Updated!Continue, Wide!Continue, Updated!Check, Wide!Check, Updated!Submit,
             Wide!Submit, Updated!Return, Wide!Return, Updated!GiveUp, Wide!GiveUp,
             Updated!TimeOut, Wide!TimeOut, Updated!Goes, Wide!Goes, Updated!Unset, Wide!Unset,
             Updated!Current, Wide!Current, Updated!Request, Wide!Request, Updated!RowsOf,
             Wide!RowsOf, Updated!Row, Wide!Row, Updated!calls, Wide!calls, Updated!routing,
             Wide!routing, Updated!evaluator, Wide!evaluator, Updated!weights, Wide!weights
    <2>2. UNCHANGED <<requested, round>>
      BY <1>4 DEF Updated!Continue, Updated!Check, Updated!Submit, Updated!Return, Updated!GiveUp, Updated!TimeOut,
                  Updated!calls, Updated!weights
    <2> QED
      BY <1>1, <1>2, <1>4, <2>1, <2>2 DEF Wide!Next, Wide!Worker, Wide!Call
  <1>5. CASE (Updated!Close \/ Updated!Confirm) /\ UNCHANGED Updated!channels
    <2>1. (Wide!Close \/ Wide!Confirm) /\ UNCHANGED <<requested, round>>
      BY <1>5 DEF Updated!Close, Wide!Close, Updated!Confirm, Wide!Confirm, Updated!clients,
             Wide!clients, Updated!calls, Wide!calls, Updated!routing, Wide!routing,
             Updated!evaluator, Wide!evaluator, Updated!weights, Wide!weights
    <2> QED
      BY <1>1, <1>2, <1>5, <2>1 DEF Wide!Next, Wide!Worker
  <1>6. CASE Updated!Finish
    <2>1. Wide!Finish /\ UNCHANGED <<requested, round>>
      BY <1>6 DEF Updated!Finish, Wide!Finish, Updated!Closing, Wide!Closing, Updated!CancelAll,
             Wide!CancelAll, Updated!WakeAll, Wide!WakeAll, Updated!SetStop, Wide!SetStop,
             Updated!Error, Wide!Error, Updated!Current, Wide!Current, Updated!channels,
             Wide!channels, Updated!clients, Wide!clients, Updated!calls, Wide!calls,
             Updated!routing, Wide!routing, Updated!evaluator, Wide!evaluator, Updated!weights,
             Wide!weights
    <2> QED
      BY <1>1, <2>1 DEF Wide!Next
  <1>7. CASE Updated!StopServer \/ Updated!Terminate
    <2>1. (Wide!StopServer \/ Wide!Terminate) /\ UNCHANGED <<requested, round>>
      BY <1>7 DEF Updated!StopServer, Wide!StopServer, Updated!Terminate, Wide!Terminate,
             Updated!channels, Wide!channels, Updated!clients, Wide!clients, Updated!calls,
             Wide!calls, Updated!routing, Wide!routing, Updated!evaluator, Wide!evaluator,
             Updated!weights, Wide!weights
    <2> QED
      BY <1>1, <2>1 DEF Wide!Next
  <1>8. CASE Updated!BeginUpdate
    <2>1. Wide!BeginUpdate
      BY <1>8 DEF Updated!BeginUpdate, Wide!BeginUpdate, Updated!training, Wide!training,
             Updated!clients, Wide!clients, Updated!calls, Wide!calls, Updated!routing,
             Wide!routing, Updated!evaluator, Wide!evaluator, Updated!weights, Wide!weights
    <2>2. requested < 2 /\ requested' = requested + 1 /\ UNCHANGED round
      BY <1>8 DEF Updated!BeginUpdate, Updated!training, Updated!clients, Updated!calls
    <2> QED
      BY <2>1, <2>2 DEF OneMore, Wide!Next
  <1>9. CASE Updated!Train \/ Updated!ReadAck
    <2>1. (Wide!Train \/ Wide!ReadAck) /\ UNCHANGED <<requested, round>>
      BY <1>9 DEF Updated!Train, Wide!Train, Updated!DropOldest, Wide!DropOldest,
             Updated!PutWeights, Wide!PutWeights, Updated!ReadAck, Wide!ReadAck,
             Updated!training, Wide!training, Updated!clients, Wide!clients, Updated!calls,
             Wide!calls, Updated!routing, Wide!routing, Updated!evaluator, Wide!evaluator,
             Updated!weights, Wide!weights
    <2> QED
      BY <1>1, <2>1 DEF Wide!Next
  <1>10. CASE Updated!Serve
    <2>1. Wide!Serve
      BY <1>10 DEF Updated!Serve, Wide!Serve, Updated!Top, Wide!Top, Updated!Poll, Wide!Poll,
             Updated!Emit, Wide!Emit, Updated!Emits, Wide!Emits, Updated!Emitted, Wide!Emitted,
             Updated!IdOf, Wide!IdOf, Updated!Slice, Wide!Slice, Updated!Joined, Wide!Joined,
             Updated!RowCount, Wide!RowCount, Updated!Evaluate, Wide!Evaluate, Updated!Get,
             Wide!Get, Updated!GetNothing, Wide!GetNothing, Updated!Forward, Wide!Forward,
             Updated!ForwardRaises, Wide!ForwardRaises, Updated!elsewhere, Wide!elsewhere,
             Updated!channels, Wide!channels, Updated!clients, Wide!clients, Updated!calls,
             Wide!calls, Updated!routing, Wide!routing, Updated!evaluator, Wide!evaluator,
             Updated!weights, Wide!weights
    <2>2. UNCHANGED <<requested, round>>
      BY <1>10 DEF Updated!Serve, Updated!Top, Updated!Poll, Updated!Emit, Updated!Evaluate, Updated!Get, Updated!GetNothing,
                   Updated!Forward, Updated!ForwardRaises, Updated!elsewhere, Updated!clients, Updated!calls
    <2>3. Wide!Next
      BY <2>1 DEF Wide!Next
    <2> QED
      BY <1>1, <2>2, <2>3
  <1>11. CASE Updated!Answers
    <2>1. Wide!Answers /\ UNCHANGED <<requested, round>>
      BY <1>11 DEF Updated!Answers, Wide!Answers, Updated!Dispatch, Wide!Dispatch, Updated!Pop,
             Wide!Pop, Updated!DispatcherEnds, Wide!DispatcherEnds, Updated!HandOver,
             Wide!HandOver, Updated!Result, Wide!Result, Updated!Current, Wide!Current,
             Updated!common, Wide!common, Updated!channels, Wide!channels, Updated!clients,
             Wide!clients, Updated!calls, Wide!calls, Updated!routing, Wide!routing,
             Updated!evaluator, Wide!evaluator, Updated!weights, Wide!weights
    <2> QED
      BY <1>1, <2>1 DEF Wide!Next
  <1> QED
    BY <1>3, <1>4, <1>5, <1>6, <1>7, <1>8, <1>9, <1>10, <1>11
       DEF Updated!Next, Updated!Worker, Updated!Call

(* Answers on their way, weights and acknowledgements on theirs. *)
Coming == {a \in AnswersIn(One) : Right(a) /\ a.version <= served}
Newer  == {v \in Nat : served <= v /\ nextWeights <= v /\ v <= requested}
Served == {v \in Nat : v <= served}

Channels ==
    /\ responses \in Seq(Coming) /\ weightQueue \in Seq(Newer) /\ acks \in Seq(Served)
    /\ Len(weightQueue) <= 1
    /\ dispatcher \in {"running", "gone"} /\ dispatchStop \in BOOLEAN
    /\ trainer \in {"free", "full", "putting"}

WiInv == InAll(One) /\ Channels
ReInv(calls, updates) == WiInv /\ round[c1] <= calls /\ requested <= updates

(* The channels while nothing moves in them. *)
LEMMA ChWider ==
  ASSUME Channels, UNCHANGED remote, Coming \subseteq Coming', Newer \subseteq Newer',
         Served \subseteq Served'
  PROVE  Channels'
PROOF
  <1>1. UNCHANGED <<responses, dispatcher, dispatchStop, trainer, weightQueue, acks>>
    BY DEF remote
  <1>2. responses' \in Seq(Coming') /\ weightQueue' \in Seq(Newer') /\ acks' \in Seq(Served')
    BY <1>1, SeqMonotonic DEF Channels
  <1> QED
    BY <1>1, <1>2 DEF Channels

LEMMA ChStill ==
  ASSUME Channels, UNCHANGED <<responses, dispatcher, dispatchStop, trainer, weightQueue, acks>>,
         UNCHANGED <<round, floor, served, nextWeights, requested>>
  PROVE  Channels'
PROOF
  <1>1. \A a : Right(a)' <=> Right(a)
    BY DEF Right
  <1>2. Coming' = Coming /\ Newer' = Newer /\ Served' = Served
    BY <1>1 DEF Coming, Newer, Served
  <1> QED
    BY <1>2 DEF Channels

(* A call begins while answers are on their way. *)
LEMMA WiCall ==
  ASSUME WiInv, NEW c \in One, Moves(c), UNCHANGED remote
  PROVE  WiInv'
PROOF
  <1>1. InAll(One) /\ InAll(One)'
    BY MovesKeep DEF WiInv
  <1>2. UNCHANGED <<responses, dispatcher, dispatchStop, trainer, weightQueue, acks>>
    BY DEF remote
  <1>3. UNCHANGED <<served, nextWeights, requested>> /\ Channels
    BY DEF Moves, WiInv
  <1>4. CASE UNCHANGED <<round, floor>>
    <2>1. Channels'
      BY <1>2, <1>3, <1>4, ChStill
    <2> QED
      BY <1>1, <2>1 DEF WiInv
  <1>5. CASE Begins(c)
    <2>1. round \in [One -> Nat] /\ floor \in [One -> Nat]
      BY <1>1 DEF InAll, InClients, ClTyped
    <2>2. round' = [round EXCEPT ![c] = round[c] + 1] /\ floor' = [floor EXCEPT ![c] = promised]
      BY <1>5 DEF Begins
    <2>3. \A a \in AnswersIn(One) : Right(a) => Right(a)'
      BY <2>1, <2>2, RightStays
    <2>4. Coming \subseteq Coming' /\ Newer \subseteq Newer' /\ Served \subseteq Served'
      BY <1>3, <2>3 DEF Coming, Newer, Served
    <2>5. Channels'
      BY <1>3, <2>4, ChWider
    <2> QED
      BY <1>1, <2>5 DEF WiInv
  <1> QED
    BY <1>4, <1>5 DEF Moves, Finishes, Continues

LEMMA WiQuiet ==
  ASSUME WiInv, Wide!Close \/ Wide!Confirm \/ Wide!HandOver \/ Wide!Evaluate("poll"),
         UNCHANGED remote
  PROVE  WiInv'
PROOF
  <1>1. InAll(One) /\ Channels
    BY DEF WiInv
  <1>2. UNCHANGED <<responses, dispatcher, dispatchStop, trainer, weightQueue, acks>>
    BY DEF remote
  <1>3. CASE Wide!Close
    <2>1. Stops(One)
      BY <1>3, WiStops
    <2>2. InAll(One)'
      BY <1>1, <2>1, StopsKeep
    <2>3. Channels'
      BY <1>1, <1>2, <2>1, ChStill DEF Stops
    <2> QED
      BY <2>2, <2>3 DEF WiInv
  <1>4. CASE Wide!Confirm
    <2>1. Confirms
      BY <1>4, WiConfirms
    <2>2. InAll(One)'
      BY <1>1, <2>1, ConfirmsKeep
    <2>3. Channels'
      BY <1>1, <1>2, <2>1, ChStill DEF Confirms, ClientsRest
    <2> QED
      BY <2>2, <2>3 DEF WiInv
  <1>5. CASE Wide!HandOver
    <2>1. Hands(One)
      BY <1>5, WiHands
    <2>2. InAll(One)'
      BY <1>1, <2>1, HandsKeep
    <2>3. Channels'
      BY <1>1, <1>2, <2>1, ChStill DEF Hands
    <2> QED
      BY <2>2, <2>3 DEF WiInv
  <1>6. CASE Wide!Evaluate("poll")
    <2>1. Batches
      BY <1>6, WiBatches
    <2>2. InAll(One)'
      BY <1>1, <2>1, BatchesKeep
    <2>3. Channels'
      BY <1>1, <1>2, <2>1, ChStill DEF Batches, ClientsRest, VersionsRest
    <2> QED
      BY <2>2, <2>3 DEF WiInv
  <1> QED
    BY <1>3, <1>4, <1>5, <1>6

(* The worker's stop, that also ends its dispatcher. *)
LEMMA WiFinish ==
  ASSUME WiInv, Wide!Finish
  PROVE  WiInv'
PROOF
  <1>1. InAll(One) /\ Channels /\ Stops(One)
    BY WiStops DEF WiInv
  <1>2. InAll(One)'
    BY <1>1, StopsKeep
  <1>3. UNCHANGED <<responses, dispatcher, trainer, weightQueue, acks>> /\ dispatchStop' \in BOOLEAN
    BY <1>1 DEF Wide!Finish, Wide!SetStop, Wide!channels, Channels
  <1>4. UNCHANGED <<round, floor, served, nextWeights, requested>>
    BY <1>1 DEF Stops
  <1>5. \A a : Right(a)' <=> Right(a)
    BY <1>4 DEF Right
  <1>6. Coming' = Coming /\ Newer' = Newer /\ Served' = Served
    BY <1>4, <1>5 DEF Coming, Newer, Served
  <1>7. Channels'
    BY <1>1, <1>3, <1>6 DEF Channels
  <1> QED
    BY <1>2, <1>7 DEF WiInv

(* The trainer: it asks for weights, puts them into the queue, and reads   *)
(* what has been acknowledged.                                             *)
LEMMA WiTrain ==
  ASSUME WiInv, Wide!BeginUpdate \/ Wide!Train
  PROVE  WiInv'
PROOF
  <1>1. InClients(One) /\ InServer(One) /\ InVersions(One) /\ Channels
    BY DEF WiInv, InAll
  <1>2. UNCHANGED <<caller, round, size, floor, got, future, version, table, doomed, popped, closed,
                    closer, queue, server, batch, emitted, served, nextWeights, stopEvent, applied,
                    promised, responses, dispatcher, dispatchStop, acks>>
    BY DEF Wide!BeginUpdate, Wide!Train, Wide!DropOldest, Wide!PutWeights, Wide!training,
           Wide!clients, Wide!calls, Wide!routing, Wide!evaluator
  <1>3. /\ trainer' \in {"free", "full", "putting"}
        /\ \/ requested' = requested + 1 /\ UNCHANGED weightQueue
           \/ UNCHANGED <<requested, weightQueue>>
           \/ weightQueue # <<>> /\ weightQueue' = Tail(weightQueue) /\ UNCHANGED requested
           \/ /\ Len(weightQueue) < 1 /\ weightQueue' = Append(weightQueue, requested)
              /\ UNCHANGED requested
    BY DEF Wide!BeginUpdate, Wide!Train, Wide!DropOldest, Wide!PutWeights
  <1>4. requested \in Nat /\ requested' \in Nat /\ requested <= requested'
    <2>1. requested \in Nat
      BY <1>1 DEF InVersions
    <2> QED
      BY <1>3, <2>1
  <1>5. InClients(One)' /\ InServer(One)'
    <2>1. InClients(One)'
      BY <1>1, <1>2, ClSame
    <2> QED
      BY <1>1, <1>2, <2>1 DEF InServer, Sent
  <1>6. InVersions(One)'
    <2>1. /\ served \in Nat /\ nextWeights \in Nat /\ served <= requested /\ nextWeights <= requested
      BY <1>1 DEF InVersions
    <2>2. served <= requested' /\ nextWeights <= requested'
      BY <1>4, <2>1
    <2> QED
      BY <1>1, <1>2, <1>4, <2>2 DEF InVersions
  <1>7. /\ Coming' = Coming /\ Served' = Served /\ Newer \subseteq Newer'
    <2>1. \A a : Right(a)' <=> Right(a)
      BY <1>2 DEF Right
    <2>2. \A v \in Nat : v <= requested => v <= requested'
      BY <1>4
    <2> QED
      BY <1>2, <2>1, <2>2 DEF Coming, Served, Newer
  <1>8. weightQueue' \in Seq(Newer') /\ Len(weightQueue') <= 1
    <2>1. weightQueue \in Seq(Newer') /\ Len(weightQueue) <= 1 /\ Len(weightQueue) \in Nat
      BY <1>1, <1>7, SeqMonotonic, LenProperties DEF Channels
    <2>2. CASE UNCHANGED weightQueue
      BY <2>1, <2>2
    <2>3. CASE weightQueue # <<>> /\ weightQueue' = Tail(weightQueue)
      <3>1. /\ weightQueue' \in Seq(Newer') /\ Len(weightQueue') = Len(weightQueue) - 1
        BY <2>1, <2>3, TailAt
      <3> QED
        BY <2>1, <3>1
    <2>4. CASE /\ Len(weightQueue) < 1 /\ weightQueue' = Append(weightQueue, requested)
               /\ UNCHANGED requested
      <3>1. requested \in Newer'
        <4>1. requested <= requested /\ served <= requested /\ nextWeights <= requested
          BY <1>1, <1>4 DEF InVersions
        <4> QED
          BY <1>2, <1>4, <2>4, <4>1 DEF Newer
      <3>2. weightQueue' \in Seq(Newer') /\ Len(weightQueue') = Len(weightQueue) + 1
        BY <2>1, <2>4, <3>1, AppendAt
      <3> QED
        BY <2>1, <2>4, <3>2
    <2> QED
      BY <1>3, <2>2, <2>3, <2>4
  <1>9. Channels'
    BY <1>1, <1>2, <1>3, <1>7, <1>8 DEF Channels
  <1> QED
    BY <1>5, <1>6, <1>9 DEF WiInv, InAll

LEMMA WiReadAck ==
  ASSUME WiInv, Wide!ReadAck
  PROVE  WiInv'
PROOF
  <1>1. InClients(One) /\ InServer(One) /\ InVersions(One) /\ Channels
    BY DEF WiInv, InAll
  <1>2. UNCHANGED <<caller, round, size, floor, got, future, version, table, doomed, popped, closed,
                    closer, queue, server, batch, emitted, served, nextWeights, stopEvent, requested,
                    promised, responses, dispatcher, dispatchStop, trainer, weightQueue>>
    BY DEF Wide!ReadAck, Wide!clients, Wide!calls, Wide!routing, Wide!evaluator
  <1>3. acks # <<>> /\ acks' = Tail(acks) /\ acks \in Seq(Served)
    BY <1>1 DEF Wide!ReadAck, Channels
  <1>4. Head(acks) \in Served /\ acks' \in Seq(Served)
    BY <1>3, TailAt
  <1>5. applied' = IF Head(acks) > applied THEN Head(acks) ELSE applied
    BY DEF Wide!ReadAck
  <1>6. InVersions(One)'
    <2>1. /\ Head(acks) \in Nat /\ Head(acks) <= served /\ applied \in Nat /\ promised \in Nat
          /\ applied <= served /\ promised <= applied
      BY <1>1, <1>4 DEF Served, InVersions
    <2>2. applied' \in Nat /\ applied' <= served /\ promised <= applied'
      BY <1>5, <2>1
    <2> QED
      BY <1>1, <1>2, <2>2 DEF InVersions
  <1>7. InClients(One)' /\ InServer(One)'
    <2>1. InClients(One)'
      BY <1>1, <1>2, ClSame
    <2> QED
      BY <1>1, <1>2, <2>1 DEF InServer, Sent
  <1>8. Coming' = Coming /\ Newer' = Newer /\ Served' = Served
    <2>1. \A a : Right(a)' <=> Right(a)
      BY <1>2 DEF Right
    <2> QED
      BY <1>2, <2>1 DEF Coming, Newer, Served
  <1>9. Channels'
    BY <1>1, <1>2, <1>4, <1>8 DEF Channels
  <1> QED
    BY <1>6, <1>7, <1>9 DEF WiInv, InAll

(* Somebody stops the server. *)
LEMMA WiStopped ==
  ASSUME WiInv, Wide!StopServer \/ Wide!Terminate \/ Wide!DispatcherEnds
  PROVE  WiInv'
PROOF
  <1>1. InClients(One) /\ InServer(One) /\ InVersions(One) /\ Channels
    BY DEF WiInv, InAll
  <1>2. /\ UNCHANGED <<caller, round, size, floor, got, future, version, table, doomed, popped, closed,
                       closer, queue, batch, emitted, served, nextWeights, requested, applied,
                       promised, responses, dispatchStop, trainer, weightQueue, acks>>
        /\ dispatcher' \in {dispatcher, "gone"} /\ stopEvent' \in {stopEvent, TRUE}
        /\ server' \in {server, "gone"}
    BY DEF Wide!StopServer, Wide!Terminate, Wide!DispatcherEnds, Wide!common, Wide!channels,
           Wide!clients, Wide!calls, Wide!routing, Wide!evaluator, Wide!weights
  <1>3. InClients(One)'
    BY <1>1, <1>2, ClSame
  <1>4. InServer(One)'
    BY <1>1, <1>2 DEF InServer, Sent
  <1>5. InVersions(One)'
    BY <1>1, <1>2 DEF InVersions
  <1>6. Coming' = Coming /\ Newer' = Newer /\ Served' = Served
    <2>1. \A a : Right(a)' <=> Right(a)
      BY <1>2 DEF Right
    <2> QED
      BY <1>2, <2>1 DEF Coming, Newer, Served
  <1>7. Channels'
    BY <1>1, <1>2, <1>6 DEF Channels
  <1> QED
    BY <1>3, <1>4, <1>5, <1>7 DEF WiInv, InAll

LEMMA WiTop ==
  ASSUME WiInv, Wide!Top
  PROVE  WiInv'
PROOF
  <1>1. InClients(One) /\ InServer(One) /\ InVersions(One) /\ Channels
    BY DEF WiInv, InAll
  <1>2. UNCHANGED <<caller, round, size, floor, got, future, version, table, doomed, popped, closed,
                    closer, queue, stopEvent, requested, applied, promised, responses, dispatcher,
                    dispatchStop, trainer, weightQueue>>
    BY DEF Wide!Top, Wide!elsewhere, Wide!clients, Wide!calls, Wide!routing
  <1>3. /\ batch' = <<>> /\ emitted' = 0 /\ server' \in {"gone", "poll"}
        /\ \/ UNCHANGED <<served, nextWeights, acks>>
           \/ /\ nextWeights # 0 /\ served' = nextWeights /\ nextWeights' = 0
              /\ acks' = Append(acks, nextWeights)
    BY DEF Wide!Top
  <1>4. InClients(One)'
    BY <1>1, <1>2, ClSame
  <1>5. InServer(One)'
    <2>0. round \in [One -> Nat] /\ round' = round /\ stopEvent' \in BOOLEAN
      BY <1>1, <1>2 DEF InClients, ClTyped, InServer
    <2>1. /\ round' \in [One -> Nat] /\ stopEvent' \in BOOLEAN
          /\ \A c \in One : round[c] <= round'[c]
      BY <2>0
    <2>2. emitted' \in 0..Len(batch')
      BY <1>3, EmptyCounts
    <2> QED
      BY <1>1, <1>2, <1>3, <2>0, <2>1, <2>2, SvElsewhere
  <1>6. \A a : Right(a)' <=> Right(a)
    BY <1>2 DEF Right
  <1>7. CASE UNCHANGED <<served, nextWeights, acks>>
    <2>1. InVersions(One)'
      BY <1>1, <1>2, <1>7 DEF InVersions
    <2>2. Channels'
      BY <1>1, <1>2, <1>7, ChStill
    <2> QED
      BY <1>4, <1>5, <2>1, <2>2 DEF WiInv, InAll
  <1>8. CASE /\ nextWeights # 0 /\ served' = nextWeights /\ nextWeights' = 0
             /\ acks' = Append(acks, nextWeights)
    <2>1. /\ promised \in Nat /\ applied \in Nat /\ served \in Nat /\ nextWeights \in Nat
          /\ promised <= applied /\ applied <= served /\ served <= nextWeights
          /\ nextWeights <= requested /\ requested \in Nat
      BY <1>1, <1>8 DEF InVersions
    <2>2. applied <= nextWeights /\ 0 <= requested /\ nextWeights <= nextWeights
      BY <2>1
    <2>3. \A c \in One : version[c] <= nextWeights
      <3>1. \A c \in One : version[c] <= served /\ version[c] \in Nat
        BY <1>1 DEF InVersions, InClients, ClTyped
      <3> QED
        BY <2>1, <3>1
    <2>4. popped # <<>> => popped[1].version <= nextWeights
      <3>1. popped # <<>> => popped[1].version <= served /\ popped[1].version \in Nat
        <4>1. popped # <<>> => popped[1] \in AnswersIn(One)
          <5>1. popped = <<>> \/ \E a \in AnswersIn(One) : popped = <<a>>
            BY <1>1 DEF InClients, ClTyped
          <5>2. \A a : <<a>>[1] = a
            OBVIOUS
          <5> QED
            BY <5>1, <5>2
        <4> QED
          BY <1>1, <4>1 DEF InVersions, AnswersIn
      <3> QED
        BY <2>1, <3>1
    <2>5. InVersions(One)'
      BY <1>1, <1>2, <1>8, <2>1, <2>2, <2>3, <2>4 DEF InVersions
    <2>6. Coming \subseteq Coming'
      <3>1. \A a \in AnswersIn(One) : a.version <= served => a.version <= nextWeights
        <4>1. \A a \in AnswersIn(One) : a.version \in Nat
          BY DEF AnswersIn
        <4> QED
          BY <2>1, <4>1
      <3> QED
        BY <1>6, <1>8, <3>1 DEF Coming
    <2>7. Newer \subseteq Newer'
      <3>1. \A v \in Nat : 0 <= v
        OBVIOUS
      <3> QED
        BY <1>2, <1>8, <3>1 DEF Newer
    <2>8. Served \subseteq Served' /\ nextWeights \in Served'
      <3>1. \A v \in Nat : v <= served => v <= nextWeights
        BY <2>1
      <3> QED
        BY <1>8, <2>1, <2>2, <3>1 DEF Served
    <2>9. acks' \in Seq(Served')
      <3>1. acks \in Seq(Served')
        BY <1>1, <2>8, SeqMonotonic DEF Channels
      <3> QED
        BY <1>8, <2>8, <3>1, AppendAt
    <2>10. responses' \in Seq(Coming') /\ weightQueue' \in Seq(Newer')
      BY <1>1, <1>2, <2>6, <2>7, SeqMonotonic DEF Channels
    <2>11. Channels'
      BY <1>1, <1>2, <2>9, <2>10 DEF Channels
    <2> QED
      BY <1>4, <1>5, <2>5, <2>11 DEF WiInv, InAll
  <1> QED
    BY <1>3, <1>7, <1>8

(* Weights that are taken from the queue are not older than the loaded. *)
LEMMA WiPoll ==
  ASSUME WiInv, Wide!Poll
  PROVE  WiInv'
PROOF
  <1>1. InClients(One) /\ InServer(One) /\ InVersions(One) /\ Channels
    BY DEF WiInv, InAll
  <1>2. UNCHANGED <<caller, round, size, floor, got, future, version, table, doomed, popped, closed,
                    closer, queue, batch, emitted, served, stopEvent, requested, applied, promised,
                    responses, dispatcher, dispatchStop, trainer, acks>>
    BY DEF Wide!Poll, Wide!elsewhere, Wide!clients, Wide!calls, Wide!routing
  <1>3. /\ server = "poll" /\ server' = "get"
        /\ \/ UNCHANGED <<weightQueue, nextWeights>>
           \/ /\ weightQueue # <<>> /\ weightQueue' = Tail(weightQueue)
              /\ nextWeights' = Head(weightQueue)
    BY DEF Wide!Poll
  <1>4. InClients(One)'
    BY <1>1, <1>2, ClSame
  <1>5. InServer(One)'
    BY <1>1, <1>2, <1>3 DEF InServer, Sent
  <1>6. CASE UNCHANGED <<weightQueue, nextWeights>>
    <2>1. InVersions(One)'
      BY <1>1, <1>2, <1>6 DEF InVersions
    <2>2. Channels'
      BY <1>1, <1>2, <1>6, ChStill
    <2> QED
      BY <1>4, <1>5, <2>1, <2>2 DEF WiInv, InAll
  <1>7. CASE /\ weightQueue # <<>> /\ weightQueue' = Tail(weightQueue)
             /\ nextWeights' = Head(weightQueue)
    <2>1. weightQueue \in Seq(Newer) /\ Len(weightQueue) <= 1
      BY <1>1 DEF Channels
    <2>2. /\ nextWeights' \in Newer /\ Len(weightQueue') = Len(weightQueue) - 1
          /\ Len(weightQueue) \in Nat \ {0} /\ weightQueue' \in Seq(Newer)
      BY <1>7, <2>1, TailAt
    <2>3. Len(weightQueue') = 0
      <3> DEFINE l == Len(weightQueue)
      <3>1. l \in Nat /\ l # 0 /\ l <= 1 /\ Len(weightQueue') = l - 1
        BY <2>1, <2>2
      <3> HIDE DEF l
      <3> QED
        BY <3>1
    <2>4. weightQueue' = <<>>
      <3>1. weightQueue' # <<>> => Len(weightQueue') \in Nat \ {0}
        BY <2>2, EmptySeq
      <3> QED
        BY <2>3, <3>1
    <2>5. weightQueue' \in Seq(Newer') /\ Len(weightQueue') <= 1
      BY <2>3, <2>4, EmptySeq
    <2>6. nextWeights' \in Nat /\ served <= nextWeights' /\ nextWeights' <= requested
      BY <2>2 DEF Newer
    <2>7. InVersions(One)'
      BY <1>1, <1>2, <2>6 DEF InVersions
    <2>8. Coming' = Coming /\ Served' = Served
      <3>1. \A a : Right(a)' <=> Right(a)
        BY <1>2 DEF Right
      <3> QED
        BY <1>2, <3>1 DEF Coming, Served
    <2>9. Channels'
      BY <1>1, <1>2, <2>5, <2>8 DEF Channels
    <2> QED
      BY <1>4, <1>5, <2>7, <2>9 DEF WiInv, InAll
  <1> QED
    BY <1>3, <1>6, <1>7

LEMMA WiEmit ==
  ASSUME WiInv, Wide!Emit
  PROVE  WiInv'
PROOF
  <1>1. InClients(One) /\ InServer(One) /\ InVersions(One) /\ Channels
    BY DEF WiInv, InAll
  <1>2. UNCHANGED <<caller, round, size, floor, got, future, version, table, doomed, popped, closed,
                    closer, queue, batch, served, nextWeights, stopEvent, requested, applied, promised,
                    dispatcher, dispatchStop, trainer, weightQueue, acks>>
    BY DEF Wide!Emit, Wide!elsewhere, Wide!clients, Wide!calls, Wide!routing
  <1>3. /\ server = "emitting" /\ emitted' = emitted + 1
        /\ server' = IF emitted' < Len(batch) THEN "emitting" ELSE "top"
    BY DEF Wide!Emit, Wide!Emits
  <1>4. PICK a : a = [id |-> <<batch[emitted + 1].by, Head(batch[emitted + 1].rows).call>>,
                      rows |-> Slice(Joined(batch), batch, emitted + 1), version |-> served]
    OBVIOUS
  <1>5. responses' = Append(responses, a)
    BY <1>3, <1>4, WiSame DEF Wide!Emit, Wide!IdOf, Wide!Emitted
  <1>6. round \in [One -> Nat] /\ floor \in [One -> Nat]
    BY <1>1 DEF InClients, ClTyped
  <1>7. a \in AnswersIn(One) /\ Right(a) /\ a.version = served
    BY <1>1, <1>3, <1>4, <1>6, EmittedIs
  <1>8. InClients(One)'
    BY <1>1, <1>2, ClSame
  <1>9. InServer(One)'
    <2>1. emitted \in Nat /\ emitted < Len(batch) /\ Len(batch) \in Nat /\ stopEvent \in BOOLEAN
      <3>1. emitted \in 0..Len(batch) /\ emitted < Len(batch) /\ batch \in Seq(RequestsIn(One))
              /\ stopEvent \in BOOLEAN
        BY <1>1, <1>3 DEF InServer
      <3> QED
        BY <3>1, LenProperties
    <2>2. /\ emitted' \in 0..Len(batch') /\ stopEvent' \in BOOLEAN /\ batch' = batch
          /\ server' \in {"top", "emitting"}
          /\ server' = "emitting" => emitted' < Len(batch')
      BY <1>2, <1>3, <2>1
    <2>3. round' \in [One -> Nat] /\ \A c \in One : round[c] <= round'[c]
      BY <1>2, <1>6
    <2> QED
      BY <1>1, <1>2, <1>6, <2>2, <2>3, SvElsewhere
  <1>10. InVersions(One)'
    BY <1>1, <1>2 DEF InVersions
  <1>11. Coming' = Coming /\ Newer' = Newer /\ Served' = Served
    <2>1. \A b : Right(b)' <=> Right(b)
      BY <1>2 DEF Right
    <2> QED
      BY <1>2, <2>1 DEF Coming, Newer, Served
  <1>12. a \in Coming
    <2>1. served \in Nat
      BY <1>1 DEF InVersions
    <2> QED
      BY <1>7, <2>1 DEF Coming
  <1>13. responses' \in Seq(Coming)
    BY <1>1, <1>5, <1>12, AppendAt DEF Channels
  <1>14. Channels'
    BY <1>1, <1>2, <1>11, <1>13 DEF Channels
  <1> QED
    BY <1>8, <1>9, <1>10, <1>14 DEF WiInv, InAll

LEMMA WiDispatch ==
  ASSUME WiInv, Wide!Dispatch
  PROVE  WiInv'
PROOF
  <1>1. InClients(One) /\ InServer(One) /\ InVersions(One) /\ Channels
    BY DEF WiInv, InAll
  <1>2. UNCHANGED <<caller, round, size, floor, got, future, version, doomed, closed,
                    closer, queue, server, batch, emitted, served, nextWeights, stopEvent, requested,
                    applied, promised, dispatcher, dispatchStop, trainer, weightQueue, acks>>
    BY DEF Wide!Dispatch, Wide!clients, Wide!calls, Wide!evaluator, Wide!weights
  <1>3. PICK a : a = Head(responses)
    OBVIOUS
  <1>4. /\ responses # <<>> /\ responses' = Tail(responses)
        /\ popped = <<>> /\ table' = table \ {a.id}
        /\ popped' = IF a.id \in table THEN <<[id |-> a.id, rows |-> a.rows, version |-> a.version]>>
                     ELSE <<>>
    BY <1>3 DEF Wide!Dispatch, Wide!Pop
  <1>5. a \in Coming /\ responses' \in Seq(Coming)
    BY <1>1, <1>3, <1>4, TailAt DEF Channels
  <1>6. a \in AnswersIn(One) /\ Right(a) /\ a.version <= served
    BY <1>5 DEF Coming
  <1>7. a = [id |-> a.id, rows |-> a.rows, version |-> a.version]
    BY <1>6 DEF AnswersIn
  <1>8. popped' = IF a.id \in table THEN <<a>> ELSE <<>>
    BY <1>4, <1>7
  <1>9. InClients(One)'
    BY <1>1, <1>2, <1>4, <1>6, <1>8, ClPop
  <1>10. InServer(One)'
    BY <1>1, <1>2 DEF InServer, Sent
  <1>11. InVersions(One)'
    <2>1. popped' # <<>> => popped'[1] = a
      BY <1>8
    <2>2. popped' # <<>> => popped'[1].version <= served
      BY <1>6, <2>1
    <2> QED
      BY <1>1, <1>2, <2>2 DEF InVersions
  <1>12. Coming' = Coming /\ Newer' = Newer /\ Served' = Served
    <2>1. \A b : Right(b)' <=> Right(b)
      BY <1>2 DEF Right
    <2> QED
      BY <1>2, <2>1 DEF Coming, Newer, Served
  <1>13. Channels'
    BY <1>1, <1>2, <1>5, <1>12 DEF Channels
  <1> QED
    BY <1>9, <1>10, <1>11, <1>13 DEF WiInv, InAll

LEMMA WiUnchanged ==
  ASSUME WiInv, UNCHANGED <<shared, future, inference, remote>>
  PROVE  WiInv'
PROOF
  <1>1. InAll(One)'
    BY InAllSame DEF WiInv
  <1>2. /\ UNCHANGED <<responses, dispatcher, dispatchStop, trainer, weightQueue, acks>>
        /\ UNCHANGED <<round, floor, served, nextWeights, requested>>
    BY DEF shared, inference, remote
  <1>3. Channels'
    BY <1>2, ChStill DEF WiInv
  <1> QED
    BY <1>1, <1>3 DEF WiInv

LEMMA WiInductive ==
  ASSUME WiInv, Wide!Next
  PROVE  WiInv'
PROOF
  <1>1. UNCHANGED Wide!channels => UNCHANGED remote
    BY DEF Wide!channels, remote
  <1>2. ASSUME NEW c \in One, Wide!Call(c), UNCHANGED Wide!channels
        PROVE  WiInv'
    BY <1>1, <1>2, WiMoves, WiCall
  <1>3. CASE (Wide!Close \/ Wide!Confirm \/ Wide!HandOver \/ Wide!Evaluate("poll")) /\ UNCHANGED Wide!channels
    BY <1>1, <1>3, WiQuiet
  <1>4. CASE Wide!Top \/ Wide!Poll \/ Wide!Emit \/ Wide!Dispatch \/ Wide!ReadAck
    BY <1>4, WiTop, WiPoll, WiEmit, WiDispatch, WiReadAck
  <1>5. CASE Wide!StopServer \/ Wide!Terminate \/ Wide!DispatcherEnds
    BY <1>5, WiStopped
  <1>6. CASE Wide!BeginUpdate \/ Wide!Train
    BY <1>6, WiTrain
  <1>7. CASE Wide!Finish
    BY <1>7, WiFinish
  <1> QED
    BY <1>2, <1>3, <1>4, <1>5, <1>6, <1>7 DEF Wide!Next, Wide!Worker, Wide!Serve, Wide!Answers

LEMMA ReCounts ==
  WiInv => /\ requested \in Nat /\ round[c1] \in Nat /\ DOMAIN round = One /\ DOMAIN caller = One
PROOF
  <1> SUFFICES ASSUME WiInv
               PROVE  /\ requested \in Nat /\ round[c1] \in Nat /\ DOMAIN round = One
                      /\ DOMAIN caller = One
    OBVIOUS
  <1>1. c1 \in One
    BY DEF One
  <1> QED
    BY <1>1 DEF WiInv, InAll, InVersions, InClients, ClTyped

LEMMA ReInductive ==
  ASSUME NEW n \in Nat, NEW u \in Nat, ReInv(n, u), Wide!Next, OneMore(requested, u),
         OneMore(round[c1], n)
  PROVE  ReInv(n, u)'
PROOF
  <1>1. WiInv'
    BY WiInductive DEF ReInv
  <1>2. /\ requested \in Nat /\ round[c1] \in Nat /\ requested <= u /\ round[c1] <= n
    BY ReCounts DEF ReInv
  <1>3. round'[c1] <= n /\ requested' <= u
    BY <1>2 DEF OneMore
  <1> QED
    BY <1>1, <1>3 DEF ReInv

LEMMA ReUnchanged ==
  ASSUME NEW n, NEW u, ReInv(n, u), UNCHANGED <<shared, future, inference, remote>>
  PROVE  ReInv(n, u)'
PROOF
  <1>1. WiInv'
    BY WiUnchanged DEF ReInv
  <1>2. UNCHANGED <<round, requested>>
    BY DEF shared, inference
  <1> QED
    BY <1>1, <1>2 DEF ReInv

(* What the two instances ask for. *)
LEMMA ReTyped ==
  ASSUME NEW n \in Nat, NEW u \in Nat, ReInv(n, u)
  PROVE  /\ ClTyped(One) /\ InServer(One)
         /\ \A c \in One : round[c] \in 0..n
         /\ popped \in Seq([id : IdsIn(One), rows : Seq(RowsIn(One)), version : 0..u])
         /\ responses \in Seq([id : IdsIn(One), rows : Seq(RowsIn(One)), version : 0..u])
         /\ {requested, applied, served, promised, nextWeights} \subseteq 0..u
         /\ floor \in [One -> 0..u] /\ version \in [One -> 0..u]
         /\ weightQueue \in Seq(0..u) /\ acks \in Seq(0..u)
PROOF
  <1>1. InClients(One) /\ InServer(One) /\ InVersions(One) /\ Channels /\ requested <= u
    BY DEF ReInv, WiInv, InAll
  <1>2. \A c \in One : round[c] \in 0..n
    <2>1. \A c \in One : c = c1
      BY DEF One
    <2>2. round[c1] \in Nat /\ round[c1] <= n
      BY ReCounts DEF ReInv
    <2>3. round[c1] \in 0..n
      BY <2>2
    <2> QED
      BY <2>1, <2>3
  <1>3. /\ popped \in Seq([id : IdsIn(One), rows : Seq(RowsIn(One)), version : 0..u])
        /\ {requested, applied, served, promised, nextWeights} \subseteq 0..u
        /\ floor \in [One -> 0..u] /\ version \in [One -> 0..u]
    BY <1>1, InBounds
  <1>4. served \in Nat /\ served <= u /\ requested \in Nat
    BY <1>3, ReCounts DEF ReInv
  <1>5. \A v \in Nat : v <= served \/ v <= requested => v \in 0..u
    BY <1>1, <1>4
  <1>6. Coming \subseteq [id : IdsIn(One), rows : Seq(RowsIn(One)), version : 0..u]
    <2>1. \A a \in Coming : a \in AnswersIn(One) /\ a.version \in 0..u
      BY <1>5 DEF Coming, AnswersIn
    <2> QED
      BY <2>1 DEF AnswersIn
  <1>7. Newer \subseteq 0..u /\ Served \subseteq 0..u
    BY <1>5 DEF Newer, Served
  <1>8. /\ responses \in Seq([id : IdsIn(One), rows : Seq(RowsIn(One)), version : 0..u])
        /\ weightQueue \in Seq(0..u) /\ acks \in Seq(0..u)
    BY <1>1, <1>6, <1>7, SeqMonotonic DEF Channels
  <1> QED
    BY <1>1, <1>2, <1>3, <1>8 DEF InClients

LEMMA RemoteSame ==
  /\ Remote!Rows = RowsIn(One) /\ Remote!Requests = RequestsIn(One)
  /\ Remote!Error = Error /\ Remote!Outcomes = OutcomesIn(One)
  /\ Remote!Unset = Unanswered /\ Remote!Ids = IdsIn(One)
  /\ \A c, k, n : Remote!RowsOf(c, k, n) = RowsOf(c, k, n)
  /\ \A c, rows : Remote!Request(c, rows) = Request(c, rows)
  /\ \A rows : Remote!Result(rows) = Result(rows)
  /\ \A s : Remote!Joined(s) = Joined(s)
  /\ \A s, results, k : Remote!Slice(results, s, k) = Slice(results, s, k)
  /\ \A b, c, k, n, g : Remote!PhaseOf(b, c, k, n, g) = PhaseOf(b, c, k, n, g)
PROOF
  <1>1. Remote!Rows = RowsIn(One)
    BY DEF Remote!Rows, RowsIn
  <1>2. Remote!Requests = RequestsIn(One)
    BY <1>1 DEF Remote!Requests, RequestsIn
  <1>3. Remote!Error = Error /\ Remote!Unset = Unanswered
    BY DEF Remote!Error, Error, Remote!Unset, Unanswered, Remote!Row, Row
  <1>4. Remote!Outcomes = OutcomesIn(One)
    BY <1>1 DEF Remote!Outcomes, OutcomesIn
  <1>5. \A c, k, n : Remote!RowsOf(c, k, n) = RowsOf(c, k, n)
    BY DEF Remote!RowsOf, RowsOf, Remote!Row, Row
  <1>6. /\ \A c, rows : Remote!Request(c, rows) = Request(c, rows)
        /\ \A rows : Remote!Result(rows) = Result(rows)
    BY DEF Remote!Request, Request, Remote!Result, Result
  <1>7. \A s : Remote!Joined(s) = Joined(s)
    BY DEF Remote!Joined, Joined
  <1>8. \A s, results, k : Remote!Slice(results, s, k) = Slice(results, s, k)
    BY <1>7 DEF Remote!Slice, Slice, Remote!RowCount, RowCount
  <1>9. \A b, c, k, n, g : Remote!PhaseOf(b, c, k, n, g) = PhaseOf(b, c, k, n, g)
    BY <1>5 DEF Remote!PhaseOf, PhaseOf
  <1>10. Remote!Ids = IdsIn(One)
    BY DEF Remote!Ids, IdsIn
  <1> QED
    BY <1>1, <1>2, <1>3, <1>4, <1>5, <1>6, <1>7, <1>8, <1>9, <1>10

LEMMA RemoteSafe ==
  ReInv(2, 1) =>
      Remote!TypeOK /\ Remote!NoEntryLeaks /\ Remote!StopEndsEveryCall /\ Remote!BarrierHolds
PROOF
  <1> SUFFICES ASSUME ReInv(2, 1)
               PROVE  Remote!TypeOK /\ Remote!NoEntryLeaks /\ Remote!StopEndsEveryCall /\ Remote!BarrierHolds
    OBVIOUS
  <1>1. InClients(One) /\ Channels
    BY DEF ReInv, WiInv, InAll
  <1>2. \A c : Remote!Current(c) = LatestOf(c)
    BY DEF Remote!Current, LatestOf
  <1>3. Remote!NoEntryLeaks /\ Remote!StopEndsEveryCall /\ Remote!BarrierHolds
    BY <1>1, <1>2, RemoteSame, InSafe DEF Remote!NoEntryLeaks, Remote!StopEndsEveryCall, Remote!BarrierHolds
  <1>4. 2 \in Nat /\ 1 \in Nat /\ Remote!Versions = 0..1
    BY DEF Remote!Versions
  <1>5. /\ ClTyped(One) /\ InServer(One)
        /\ \A c \in One : round[c] \in 0..2
        /\ popped \in Seq([id : IdsIn(One), rows : Seq(RowsIn(One)), version : 0..1])
        /\ responses \in Seq([id : IdsIn(One), rows : Seq(RowsIn(One)), version : 0..1])
        /\ {requested, applied, served, promised, nextWeights} \subseteq 0..1
        /\ floor \in [One -> 0..1] /\ version \in [One -> 0..1]
        /\ weightQueue \in Seq(0..1) /\ acks \in Seq(0..1)
    BY <1>4, ReTyped
  <1>6. \A c \in One : CallsOfOne(2)[c] = 2
    BY DEF CallsOfOne
  <1>7. Remote!RequestsTypeOK
    BY <1>4, <1>5, <1>6, RemoteSame DEF Remote!RequestsTypeOK, ClTyped, InServer
  <1> QED
    BY <1>1, <1>3, <1>4, <1>5, <1>7, RemoteSame DEF Remote!TypeOK, Channels

LEMMA RemoteInit ==
  Remote!Init => ReInv(2, 1)
PROOF
  <1> SUFFICES ASSUME Remote!Init PROVE ReInv(2, 1)
    OBVIOUS
  <1>1. InClients(One) /\ InServer(One) /\ InVersions(One)
    BY RemoteSame, InInit DEF Remote!Init, Remote!RequestsInit
  <1>2. /\ responses = <<>> /\ weightQueue = <<>> /\ acks = <<>> /\ dispatcher = "running"
        /\ dispatchStop = FALSE /\ trainer = "free" /\ requested = 0
    BY DEF Remote!Init, Remote!RequestsInit
  <1>3. Channels
    <2>1. /\ responses \in Seq(Coming) /\ weightQueue \in Seq(Newer) /\ acks \in Seq(Served)
          /\ Len(weightQueue) = 0
      BY <1>2, EmptySeq
    <2>2. Len(weightQueue) <= 1
      BY <2>1
    <2>3. /\ dispatcher \in {"running", "gone"} /\ dispatchStop \in BOOLEAN
          /\ trainer \in {"free", "full", "putting"}
      BY <1>2
    <2> QED
      BY <2>1, <2>2, <2>3 DEF Channels
  <1>4. round[c1] = 0
    BY DEF Remote!Init, Remote!RequestsInit, One
  <1> QED
    BY <1>1, <1>2, <1>3, <1>4 DEF ReInv, WiInv, InAll

LEMMA RemoteInductive ==
  ASSUME ReInv(2, 1), Remote!Next
  PROVE  ReInv(2, 1)'
PROOF
  <1>1. requested \in Nat /\ round[c1] \in Nat /\ DOMAIN round = One /\ 2 \in Nat /\ 1 \in Nat
    BY ReCounts DEF ReInv
  <1> QED
    BY <1>1, RemoteIsWide, ReInductive

LEMMA RemotePhases ==
  /\ which = "remote" /\ DOMAIN caller = One =>
       Phases = [c \in Callers |-> IF c \in One THEN InPhase(c) ELSE "none"]
  /\ which' = "remote" /\ DOMAIN caller' = One =>
       Phases' = [c \in Callers |-> IF c \in One THEN InPhase(c)' ELSE "none"]
PROOF
  <1>1. \A b, c, k, n, g : Remote!PhaseOf(b, c, k, n, g) = PhaseOf(b, c, k, n, g)
    BY RemoteSame
  <1>2. which = "remote" => \A c \in Callers : PhaseIn(c) = InPhase(c)
    BY <1>1 DEF PhaseIn, Remote!Phase, InPhase
  <1>3. which' = "remote" => \A c \in Callers : PhaseIn(c)' = InPhase(c)'
    BY <1>1 DEF PhaseIn, Remote!Phase, InPhase
  <1> QED
    BY <1>2, <1>3 DEF Phases

LEMMA UpdatedSame ==
  /\ Updated!Rows = RowsIn(One) /\ Updated!Requests = RequestsIn(One)
  /\ Updated!Error = Error /\ Updated!Outcomes = OutcomesIn(One)
  /\ Updated!Unset = Unanswered /\ Updated!Ids = IdsIn(One)
  /\ \A c, k, n : Updated!RowsOf(c, k, n) = RowsOf(c, k, n)
  /\ \A c, rows : Updated!Request(c, rows) = Request(c, rows)
  /\ \A rows : Updated!Result(rows) = Result(rows)
  /\ \A s : Updated!Joined(s) = Joined(s)
  /\ \A s, results, k : Updated!Slice(results, s, k) = Slice(results, s, k)
  /\ \A b, c, k, n, g : Updated!PhaseOf(b, c, k, n, g) = PhaseOf(b, c, k, n, g)
PROOF
  <1>1. Updated!Rows = RowsIn(One)
    BY DEF Updated!Rows, RowsIn
  <1>2. Updated!Requests = RequestsIn(One)
    BY <1>1 DEF Updated!Requests, RequestsIn
  <1>3. Updated!Error = Error /\ Updated!Unset = Unanswered
    BY DEF Updated!Error, Error, Updated!Unset, Unanswered, Updated!Row, Row
  <1>4. Updated!Outcomes = OutcomesIn(One)
    BY <1>1 DEF Updated!Outcomes, OutcomesIn
  <1>5. \A c, k, n : Updated!RowsOf(c, k, n) = RowsOf(c, k, n)
    BY DEF Updated!RowsOf, RowsOf, Updated!Row, Row
  <1>6. /\ \A c, rows : Updated!Request(c, rows) = Request(c, rows)
        /\ \A rows : Updated!Result(rows) = Result(rows)
    BY DEF Updated!Request, Request, Updated!Result, Result
  <1>7. \A s : Updated!Joined(s) = Joined(s)
    BY DEF Updated!Joined, Joined
  <1>8. \A s, results, k : Updated!Slice(results, s, k) = Slice(results, s, k)
    BY <1>7 DEF Updated!Slice, Slice, Updated!RowCount, RowCount
  <1>9. \A b, c, k, n, g : Updated!PhaseOf(b, c, k, n, g) = PhaseOf(b, c, k, n, g)
    BY <1>5 DEF Updated!PhaseOf, PhaseOf
  <1>10. Updated!Ids = IdsIn(One)
    BY DEF Updated!Ids, IdsIn
  <1> QED
    BY <1>1, <1>2, <1>3, <1>4, <1>5, <1>6, <1>7, <1>8, <1>9, <1>10

LEMMA UpdatedSafe ==
  ReInv(1, 2) =>
      Updated!TypeOK /\ Updated!NoEntryLeaks /\ Updated!StopEndsEveryCall /\ Updated!BarrierHolds
PROOF
  <1> SUFFICES ASSUME ReInv(1, 2)
               PROVE  Updated!TypeOK /\ Updated!NoEntryLeaks /\ Updated!StopEndsEveryCall /\ Updated!BarrierHolds
    OBVIOUS
  <1>1. InClients(One) /\ Channels
    BY DEF ReInv, WiInv, InAll
  <1>2. \A c : Updated!Current(c) = LatestOf(c)
    BY DEF Updated!Current, LatestOf
  <1>3. Updated!NoEntryLeaks /\ Updated!StopEndsEveryCall /\ Updated!BarrierHolds
    BY <1>1, <1>2, UpdatedSame, InSafe DEF Updated!NoEntryLeaks, Updated!StopEndsEveryCall, Updated!BarrierHolds
  <1>4. 1 \in Nat /\ 2 \in Nat /\ Updated!Versions = 0..2
    BY DEF Updated!Versions
  <1>5. /\ ClTyped(One) /\ InServer(One)
        /\ \A c \in One : round[c] \in 0..1
        /\ popped \in Seq([id : IdsIn(One), rows : Seq(RowsIn(One)), version : 0..2])
        /\ responses \in Seq([id : IdsIn(One), rows : Seq(RowsIn(One)), version : 0..2])
        /\ {requested, applied, served, promised, nextWeights} \subseteq 0..2
        /\ floor \in [One -> 0..2] /\ version \in [One -> 0..2]
        /\ weightQueue \in Seq(0..2) /\ acks \in Seq(0..2)
    BY <1>4, ReTyped
  <1>6. \A c \in One : CallsOfOne(1)[c] = 1
    BY DEF CallsOfOne
  <1>7. Updated!RequestsTypeOK
    BY <1>4, <1>5, <1>6, UpdatedSame DEF Updated!RequestsTypeOK, ClTyped, InServer
  <1> QED
    BY <1>1, <1>3, <1>4, <1>5, <1>7, UpdatedSame DEF Updated!TypeOK, Channels

LEMMA UpdatedInit ==
  Updated!Init => ReInv(1, 2)
PROOF
  <1> SUFFICES ASSUME Updated!Init PROVE ReInv(1, 2)
    OBVIOUS
  <1>1. InClients(One) /\ InServer(One) /\ InVersions(One)
    BY UpdatedSame, InInit DEF Updated!Init, Updated!RequestsInit
  <1>2. /\ responses = <<>> /\ weightQueue = <<>> /\ acks = <<>> /\ dispatcher = "running"
        /\ dispatchStop = FALSE /\ trainer = "free" /\ requested = 0
    BY DEF Updated!Init, Updated!RequestsInit
  <1>3. Channels
    <2>1. /\ responses \in Seq(Coming) /\ weightQueue \in Seq(Newer) /\ acks \in Seq(Served)
          /\ Len(weightQueue) = 0
      BY <1>2, EmptySeq
    <2>2. Len(weightQueue) <= 1
      BY <2>1
    <2>3. /\ dispatcher \in {"running", "gone"} /\ dispatchStop \in BOOLEAN
          /\ trainer \in {"free", "full", "putting"}
      BY <1>2
    <2> QED
      BY <2>1, <2>2, <2>3 DEF Channels
  <1>4. round[c1] = 0
    BY DEF Updated!Init, Updated!RequestsInit, One
  <1> QED
    BY <1>1, <1>2, <1>3, <1>4 DEF ReInv, WiInv, InAll

LEMMA UpdatedInductive ==
  ASSUME ReInv(1, 2), Updated!Next
  PROVE  ReInv(1, 2)'
PROOF
  <1>1. requested \in Nat /\ round[c1] \in Nat /\ DOMAIN round = One /\ 1 \in Nat /\ 2 \in Nat
    BY ReCounts DEF ReInv
  <1> QED
    BY <1>1, UpdatedIsWide, ReInductive

LEMMA UpdatedPhases ==
  /\ which = "updated" /\ DOMAIN caller = One =>
       Phases = [c \in Callers |-> IF c \in One THEN InPhase(c) ELSE "none"]
  /\ which' = "updated" /\ DOMAIN caller' = One =>
       Phases' = [c \in Callers |-> IF c \in One THEN InPhase(c)' ELSE "none"]
PROOF
  <1>1. \A b, c, k, n, g : Updated!PhaseOf(b, c, k, n, g) = PhaseOf(b, c, k, n, g)
    BY UpdatedSame
  <1>2. which = "updated" => \A c \in Callers : PhaseIn(c) = InPhase(c)
    BY <1>1 DEF PhaseIn, Updated!Phase, InPhase
  <1>3. which' = "updated" => \A c \in Callers : PhaseIn(c)' = InPhase(c)'
    BY <1>1 DEF PhaseIn, Updated!Phase, InPhase
  <1> QED
    BY <1>2, <1>3 DEF Phases

(* The callers see their own steps only. *)
LEMMA WiPromise ==
  ASSUME WiInv, WiInv', Wide!Next,
         Phases = [c \in Callers |-> IF c \in One THEN InPhase(c) ELSE "none"],
         Phases' = [c \in Callers |-> IF c \in One THEN InPhase(c)' ELSE "none"]
  PROVE  [Abstract!Next]_(Abstract!vars)
PROOF
  <1>1. InAll(One) /\ InAll(One)'
    BY DEF WiInv
  <1>2. ASSUME \/ \E c \in One : Moves(c)
               \/ UNCHANGED <<caller, round, size, got>> /\ closed' \in {closed, TRUE}
        PROVE  [Abstract!Next]_(Abstract!vars)
    BY <1>1, <1>2, Unseen
  <1>3. CASE \E c \in One : Wide!Call(c)
    BY <1>2, <1>3, WiMoves
  <1>4. CASE Wide!Close \/ Wide!Finish
    BY <1>2, <1>4, WiStops DEF Stops
  <1>5. CASE Wide!HandOver
    BY <1>2, <1>5, WiHands DEF Hands
  <1>6. CASE Wide!Evaluate("poll")
    BY <1>2, <1>6, WiBatches DEF Batches, ClientsRest
  <1>7. CASE Wide!Confirm
    BY <1>2, <1>7, WiConfirms DEF Confirms, ClientsRest
  <1>8. CASE Wide!BeginUpdate \/ Wide!Train \/ Wide!ReadAck
    <2>1. UNCHANGED <<caller, round, size, got, closed>>
      BY <1>8 DEF Wide!BeginUpdate, Wide!Train, Wide!DropOldest, Wide!PutWeights, Wide!ReadAck,
                  Wide!training, Wide!clients, Wide!calls
    <2> QED
      BY <1>2, <2>1
  <1>9. CASE Wide!Top \/ Wide!Poll \/ Wide!Emit \/ Wide!Dispatch
    <2>1. UNCHANGED <<caller, round, size, got, closed>>
      BY <1>9 DEF Wide!Top, Wide!Poll, Wide!Emit, Wide!Dispatch, Wide!elsewhere, Wide!clients, Wide!calls
    <2> QED
      BY <1>2, <2>1
  <1>10. CASE Wide!StopServer \/ Wide!Terminate \/ Wide!DispatcherEnds
    <2>1. UNCHANGED <<caller, round, size, got, closed>>
      BY <1>10 DEF Wide!StopServer, Wide!Terminate, Wide!DispatcherEnds, Wide!common, Wide!clients,
                   Wide!calls
    <2> QED
      BY <1>2, <2>1
  <1> QED
    BY <1>3, <1>4, <1>5, <1>6, <1>7, <1>8, <1>9, <1>10
       DEF Wide!Next, Wide!Worker, Wide!Serve, Wide!Answers

----------------------------------------------------------------------------
(* The table of turn solvers.  Its two recursions go through a sequence.   *)

(* F says what an element of R does to what has been computed so far. *)
Walk(s, F) == [k \in 1..Len(s) |-> F[s[k]]]

LEMMA WalkExists ==
  ASSUME NEW R, NEW V, NEW b \in V, NEW F \in [R -> [V -> V]], NEW s \in Seq(R)
  PROVE  \E f \in [0..Len(s) -> V] : Follows(f, Len(s), V, b, Walk(s, F))
PROOF
  <1>1. Len(s) \in Nat /\ \A k \in 1..Len(s) : s[k] \in R
    BY LenProperties, ElementOfSeq
  <1>2. Walk(s, F) \in [1..Len(s) -> [V -> V]]
    BY <1>1 DEF Walk
  <1> QED
    BY <1>1, <1>2, RecursionExists

Acts(F, R, V) == F \in [R -> [V -> V]]
Longer(s, t, e) == Len(t) = Len(s) + 1 /\ t[Len(t)] = e /\ \A k \in 1..Len(s) : t[k] = s[k]

LEMMA WalkAppend ==
  ASSUME NEW R, NEW V, NEW b \in V, NEW F, Acts(F, R, V), NEW s \in Seq(R), NEW e \in R,
         NEW t \in Seq(R), Longer(s, t, e),
         NEW f, Follows(f, Len(s), V, b, Walk(s, F)),
         NEW g, Follows(g, Len(t), V, b, Walk(t, F))
  PROVE  f[Len(s)] \in V /\ g[Len(t)] = F[e][f[Len(s)]]
PROOF
  <1>1. /\ Len(s) \in Nat /\ Len(t) = Len(s) + 1 /\ t[Len(s) + 1] = e
        /\ \A k \in 1..Len(s) : t[k] = s[k] /\ s[k] \in R
    BY LenProperties, ElementOfSeq DEF Longer
  <1> DEFINE n == Len(s)
             G == Walk(s, F)
             H == Walk(t, F)
  <1>2. /\ \A k \in 1..n : G[k] = F[s[k]] /\ H[k] = F[s[k]]
        /\ H[n + 1] = F[e]
    <2>1. \A k \in 1..n : k \in 1..n + 1
      BY <1>1
    <2>2. n + 1 \in 1..n + 1
      BY <1>1
    <2> QED
      BY <1>1, <2>1, <2>2 DEF Walk
  <1>3. \A k \in 1..n : G[k] \in [V -> V]
    BY <1>1, <1>2 DEF Acts
  <1>4. Follows(f, n, V, b, G) /\ Follows(g, n + 1, V, b, H)
    BY <1>1
  <1> HIDE DEF n, G, H
  <1>5. Follows(g, n, V, b, G)
    <2>1. \A k \in 1..n : k \in 1..n + 1
      BY <1>1 DEF n
    <2> QED
      BY <1>2, <1>4, <2>1 DEF Follows
  <1>6. n \in Nat
    BY <1>1 DEF n
  <1>7. \A k \in 0..n : f[k] = g[k] /\ f[k] \in V
    BY <1>3, <1>4, <1>5, <1>6, RecursionUnique
  <1>8. n \in 0..n /\ n + 1 \in 1..n + 1 /\ (n + 1) - 1 = n
    BY <1>6
  <1>9. f[n] = g[n] /\ f[n] \in V
    BY <1>7, <1>8
  <1>10. g[n + 1] = H[n + 1][g[n]]
    BY <1>4, <1>8, <1>9 DEF Follows
  <1> QED
    BY <1>1, <1>2, <1>9, <1>10 DEF n

(* The same for two sequences that do the same. *)
LEMMA WalkSame ==
  ASSUME NEW R, NEW V, NEW b \in V, NEW F, Acts(F, R, V), NEW s \in Seq(R), NEW t \in Seq(R),
         Len(s) = Len(t), \A k \in 1..Len(s) : F[s[k]] = F[t[k]],
         NEW f, Follows(f, Len(s), V, b, Walk(s, F)),
         NEW g, Follows(g, Len(t), V, b, Walk(t, F))
  PROVE  g[Len(t)] = f[Len(s)]
PROOF
  <1> DEFINE n == Len(s)
             G == Walk(s, F)
  <1>1. n \in Nat /\ \A k \in 1..n : s[k] \in R
    BY LenProperties, ElementOfSeq
  <1>2. Walk(t, F) = Walk(s, F)
    BY DEF Walk
  <1>3. \A k \in 1..n : G[k] \in [V -> V]
    BY <1>1 DEF Walk, Acts
  <1>4. Follows(f, n, V, b, G) /\ Follows(g, n, V, b, G)
    BY <1>2
  <1> HIDE DEF n, G
  <1>5. \A k \in 0..n : f[k] = g[k] /\ f[k] \in V
    BY <1>1, <1>3, <1>4, RecursionUnique
  <1>6. n \in 0..n
    BY <1>1
  <1> QED
    BY <1>5, <1>6 DEF n

----------------------------------------------------------------------------
Sized(R) == \A e \in R : e.size \in Nat
Adds(R) == [e \in R |-> [v \in Nat |-> v + e.size]]
Sums(f, s) == f = [k \in 0..Len(s) |-> IF k = 0 THEN 0 ELSE f[k - 1] + s[k].size]
Summing(s) == CHOOSE f : Sums(f, s)

LEMMA TotalIs ==
  ASSUME NEW R, Sized(R), NEW s \in Seq(R)
  PROVE  /\ Cache!Total(s) = Summing(s)[Len(s)]
         /\ Adds(R) \in [R -> [Nat -> Nat]]
         /\ Follows(Summing(s), Len(s), Nat, 0, Walk(s, Adds(R)))
PROOF
  <1> DEFINE n == Len(s)
             F == Adds(R)
  <1>1. n \in Nat /\ 0 \in Nat /\ \A k \in 1..n : s[k] \in R /\ s[k].size \in Nat
    BY LenProperties, ElementOfSeq DEF Sized
  <1>2. F \in [R -> [Nat -> Nat]] /\ \A e \in R, v \in Nat : F[e][v] = v + e.size
    BY DEF Adds, Sized
  <1> HIDE DEF F
  <1>3. PICK f \in [0..n -> Nat] : Follows(f, n, Nat, 0, Walk(s, F))
    BY <1>1, <1>2, WalkExists
  <1>4. \A k \in 1..n : Walk(s, F)[k] = F[s[k]]
    BY DEF Walk
  <1> DEFINE G == Walk(s, F)
  <1> HIDE DEF G, n
  <1>5. Sums(f, s)
    <2>1. \A k \in 0..n : f[k] = IF k = 0 THEN 0 ELSE f[k - 1] + s[k].size
      <3> SUFFICES ASSUME NEW k \in 0..n, k # 0
                   PROVE  f[k] = f[k - 1] + s[k].size
        BY <1>3 DEF Follows
      <3>1. k \in 1..n /\ k - 1 \in 0..n
        BY <1>1
      <3>2. f[k - 1] \in Nat /\ f[k] = G[k][f[k - 1]]
        BY <1>3, <3>1 DEF Follows, G
      <3> QED
        BY <1>1, <1>2, <1>4, <3>1, <3>2 DEF G
    <2>2. f = [k \in 0..n |-> f[k]]
      BY <1>3
    <2> QED
      BY <2>1, <2>2 DEF Sums, n
  <1> DEFINE g == Summing(s)
  <1>6. Sums(g, s)
    BY <1>5 DEF Summing
  <1> HIDE DEF g
  <1>7. Follows(g, n, Nat, 0, G)
    <2>1. \A k \in 0..n : g[k] = IF k = 0 THEN 0 ELSE g[k - 1] + s[k].size
      BY <1>6 DEF Sums, n
    <2>2. g[0] = 0
      <3>1. 0 \in 0..n
        BY <1>1
      <3> QED
        BY <2>1, <3>1
    <2>3. ASSUME NEW k \in 1..n, g[k - 1] \in Nat
          PROVE  g[k] = G[k][g[k - 1]]
      <3>1. k \in 0..n /\ k # 0
        BY <1>1
      <3>2. G[k] = F[s[k]] /\ s[k] \in R
        BY <1>1, <1>4 DEF G
      <3> QED
        BY <1>2, <2>1, <2>3, <3>1, <3>2
    <2> QED
      BY <2>2, <2>3 DEF Follows
  <1>8. Cache!Total(s) = Summing(s)[Len(s)]
    BY DEF Cache!Total, Summing, Sums
  <1> QED
    BY <1>2, <1>7, <1>8 DEF F, G, g, n

LEMMA TotalNothing ==
  Cache!Total(<<>>) = 0
PROOF
  <1> DEFINE R == {}
             none == <<>>
  <1>1. none \in Seq(R) /\ Len(none) = 0 /\ Sized(R)
    BY EmptySeq DEF Sized
  <1> HIDE DEF none, R
  <1>2. /\ Cache!Total(none) = Summing(none)[Len(none)]
        /\ Follows(Summing(none), Len(none), Nat, 0, Walk(none, Adds(R)))
    BY <1>1, TotalIs
  <1> QED
    BY <1>1, <1>2 DEF Follows, none

LEMMA TotalNat ==
  ASSUME NEW R, Sized(R), NEW s \in Seq(R)
  PROVE  Cache!Total(s) \in Nat
PROOF
  <1> DEFINE F == Adds(R)
             f == Summing(s)
             n == Len(s)
             G == Walk(s, F)
  <1>1. Cache!Total(s) = f[n] /\ F \in [R -> [Nat -> Nat]] /\ Follows(f, n, Nat, 0, G)
    BY TotalIs
  <1>2. n \in Nat /\ \A k \in 1..n : s[k] \in R
    BY LenProperties, ElementOfSeq
  <1> HIDE DEF F
  <1>3. \A k \in 1..n : G[k] \in [Nat -> Nat]
    BY <1>1, <1>2 DEF Walk
  <1> HIDE DEF f, n, G
  <1>4. \A k \in 0..n : f[k] = f[k] /\ f[k] \in Nat
    BY <1>1, <1>2, <1>3, RecursionUnique
  <1>5. n \in 0..n
    BY <1>2
  <1> QED
    BY <1>1, <1>4, <1>5

LEMMA TotalAppend ==
  ASSUME NEW R, Sized(R), NEW s \in Seq(R), NEW e \in R
  PROVE  /\ Cache!Total(s) \in Nat
         /\ Cache!Total(Append(s, e)) = Cache!Total(s) + e.size
PROOF
  <1> DEFINE none == <<>>
             t == Append(s, e)
             F == Adds(R)
  <1>1. none \in Seq(R) /\ Len(none) = 0 /\ t \in Seq(R) /\ 0 \in Nat
    BY EmptySeq, AppendProperties
  <1>2. F \in [R -> [Nat -> Nat]] /\ \A v \in Nat : F[e][v] = v + e.size
    BY DEF Adds, Sized
  <1>3. Len(t) = Len(s) + 1 /\ t[Len(t)] = e /\ \A k \in 1..Len(s) : t[k] = s[k]
    BY AppendAt
  <1> HIDE DEF none, t, F
  <1>5. /\ Cache!Total(s) = Summing(s)[Len(s)]
        /\ Follows(Summing(s), Len(s), Nat, 0, Walk(s, F))
    BY TotalIs DEF F
  <1>6. /\ Cache!Total(t) = Summing(t)[Len(t)]
        /\ Follows(Summing(t), Len(t), Nat, 0, Walk(t, F))
    BY <1>1, TotalIs DEF F
  <1>8. Summing(s)[Len(s)] \in Nat /\ Summing(t)[Len(t)] = F[e][Summing(s)[Len(s)]]
    <2> DEFINE f == Summing(s)
               g == Summing(t)
               N == Nat
    <2>1. Acts(F, R, N) /\ 0 \in N /\ Longer(s, t, e)
      BY <1>1, <1>2, <1>3 DEF Acts, Longer
    <2>2. Follows(f, Len(s), N, 0, Walk(s, F)) /\ Follows(g, Len(t), N, 0, Walk(t, F))
      BY <1>5, <1>6
    <2> HIDE DEF f, g, N
    <2>3. f[Len(s)] \in N /\ g[Len(t)] = F[e][f[Len(s)]]
      BY <1>1, <2>1, <2>2, WalkAppend
    <2> QED
      BY <2>3 DEF f, g, N
  <1> QED
    BY <1>2, <1>5, <1>6, <1>8 DEF t

LEMMA TotalSame ==
  ASSUME NEW R, Sized(R), NEW s \in Seq(R), NEW t \in Seq(R), Len(s) = Len(t),
         \A k \in 1..Len(s) : s[k].size = t[k].size
  PROVE  Cache!Total(t) = Cache!Total(s)
PROOF
  <1> DEFINE F == Adds(R)
  <1>1. \A k \in 1..Len(s) : s[k] \in R /\ t[k] \in R
    BY ElementOfSeq
  <1>2. \A k \in 1..Len(s) : F[s[k]] = F[t[k]]
    BY <1>1 DEF Adds
  <1> HIDE DEF F
  <1>3. F \in [R -> [Nat -> Nat]] /\ 0 \in Nat
    BY TotalIs DEF F
  <1>4. /\ Cache!Total(s) = Summing(s)[Len(s)]
        /\ Follows(Summing(s), Len(s), Nat, 0, Walk(s, F))
    BY TotalIs DEF F
  <1>5. /\ Cache!Total(t) = Summing(t)[Len(t)]
        /\ Follows(Summing(t), Len(t), Nat, 0, Walk(t, F))
    BY TotalIs DEF F
  <1>6. Summing(t)[Len(t)] = Summing(s)[Len(s)]
    <2> DEFINE f == Summing(s)
               g == Summing(t)
               N == Nat
    <2>1. Acts(F, R, N) /\ 0 \in N
      BY <1>3 DEF Acts
    <2>2. Follows(f, Len(s), N, 0, Walk(s, F)) /\ Follows(g, Len(t), N, 0, Walk(t, F))
      BY <1>4, <1>5
    <2> HIDE DEF f, g, N
    <2>3. g[Len(t)] = f[Len(s)]
      BY <1>2, <2>1, <2>2, WalkSame
    <2> QED
      BY <2>3 DEF f, g
  <1> QED
    BY <1>4, <1>5, <1>6

Takes(R, kept) == [e \in R |-> [v \in Seq(R) |-> IF e \in kept THEN Append(v, e) ELSE v]]
Parts(f, s, kept) ==
    f = [k \in 0..Len(s) |-> IF k = 0 THEN <<>>
                             ELSE IF s[k] \in kept THEN Append(f[k - 1], s[k]) ELSE f[k - 1]]
Parting(s, kept) == CHOOSE f : Parts(f, s, kept)

LEMMA AmongIs ==
  ASSUME NEW R, NEW s \in Seq(R), NEW kept
  PROVE  /\ Cache!Among(s, kept) = Parting(s, kept)[Len(s)]
         /\ Takes(R, kept) \in [R -> [Seq(R) -> Seq(R)]]
         /\ Follows(Parting(s, kept), Len(s), Seq(R), <<>>, Walk(s, Takes(R, kept)))
PROOF
  <1> DEFINE n == Len(s)
             F == Takes(R, kept)
             V == Seq(R)
             none == <<>>
  <1>1. n \in Nat /\ none \in V /\ \A k \in 1..n : s[k] \in R
    BY LenProperties, ElementOfSeq, EmptySeq
  <1>2. F \in [R -> [V -> V]]
    <2>1. \A e \in R, v \in V : Append(v, e) \in V
      BY AppendProperties
    <2> HIDE DEF V
    <2>2. F = [e \in R |-> [v \in V |-> IF e \in kept THEN Append(v, e) ELSE v]]
      BY DEF Takes, V
    <2> HIDE DEF F
    <2> QED
      BY <2>1, <2>2
  <1>3. \A e \in R, v \in V : F[e][v] = IF e \in kept THEN Append(v, e) ELSE v
    BY DEF Takes
  <1> HIDE DEF F, V, none
  <1>4. PICK f \in [0..n -> V] : Follows(f, n, V, none, Walk(s, F))
    BY <1>1, <1>2, WalkExists
  <1>5. \A k \in 1..n : Walk(s, F)[k] = F[s[k]]
    BY DEF Walk
  <1> DEFINE G == Walk(s, F)
  <1> HIDE DEF G, n
  <1>6. Parts(f, s, kept)
    <2>1. \A k \in 0..n : f[k] = IF k = 0 THEN none
                                 ELSE IF s[k] \in kept THEN Append(f[k - 1], s[k]) ELSE f[k - 1]
      <3> SUFFICES ASSUME NEW k \in 0..n, k # 0
                   PROVE  f[k] = IF s[k] \in kept THEN Append(f[k - 1], s[k]) ELSE f[k - 1]
        BY <1>4 DEF Follows
      <3>1. k \in 1..n /\ k - 1 \in 0..n
        BY <1>1
      <3>2. f[k - 1] \in V /\ f[k] = G[k][f[k - 1]]
        BY <1>4, <3>1 DEF Follows, G
      <3> QED
        BY <1>1, <1>3, <1>5, <3>1, <3>2 DEF G
    <2>2. f = [k \in 0..n |-> f[k]]
      BY <1>4
    <2> QED
      BY <2>1, <2>2 DEF Parts, n, none
  <1> DEFINE g == Parting(s, kept)
  <1>7. Parts(g, s, kept)
    BY <1>6 DEF Parting
  <1> HIDE DEF g
  <1>8. Follows(g, n, V, none, G)
    <2>1. \A k \in 0..n : g[k] = IF k = 0 THEN none
                                 ELSE IF s[k] \in kept THEN Append(g[k - 1], s[k]) ELSE g[k - 1]
      BY <1>7 DEF Parts, n, none
    <2>2. g[0] = none
      <3>1. 0 \in 0..n
        BY <1>1
      <3> QED
        BY <2>1, <3>1
    <2>3. ASSUME NEW k \in 1..n, g[k - 1] \in V
          PROVE  g[k] = G[k][g[k - 1]]
      <3>1. k \in 0..n /\ k # 0
        BY <1>1
      <3>2. G[k] = F[s[k]] /\ s[k] \in R
        BY <1>1, <1>5 DEF G
      <3> QED
        BY <1>3, <2>1, <2>3, <3>1, <3>2
    <2> QED
      BY <2>2, <2>3 DEF Follows
  <1>9. Cache!Among(s, kept) = Parting(s, kept)[Len(s)]
    BY DEF Cache!Among, Parting, Parts
  <1> QED
    BY <1>2, <1>8, <1>9 DEF F, G, g, n, V, none

LEMMA AmongNothing ==
  ASSUME NEW kept
  PROVE  Cache!Among(<<>>, kept) = <<>>
PROOF
  <1> DEFINE R == {}
             none == <<>>
             g == Parting(none, kept)
  <1>1. none \in Seq(R) /\ Len(none) = 0
    BY EmptySeq
  <1> HIDE DEF none, R
  <1>2. /\ Cache!Among(none, kept) = g[Len(none)]
        /\ Follows(g, Len(none), Seq(R), <<>>, Walk(none, Takes(R, kept)))
    BY <1>1, AmongIs
  <1> QED
    BY <1>1, <1>2 DEF Follows, none

LEMMA AmongAppend ==
  ASSUME NEW R, NEW s \in Seq(R), NEW e \in R, NEW kept
  PROVE  /\ Cache!Among(s, kept) \in Seq(R)
         /\ Cache!Among(Append(s, e), kept) = IF e \in kept THEN Append(Cache!Among(s, kept), e)
                                              ELSE Cache!Among(s, kept)
PROOF
  <1> DEFINE none == <<>>
             t == Append(s, e)
             F == Takes(R, kept)
             V == Seq(R)
  <1>1. none \in V /\ none \in Seq(R) /\ Len(none) = 0 /\ t \in Seq(R)
    BY EmptySeq, AppendProperties
  <1>2. \A v \in V : F[e][v] = IF e \in kept THEN Append(v, e) ELSE v
    BY DEF Takes
  <1>3. Len(t) = Len(s) + 1 /\ t[Len(t)] = e /\ \A k \in 1..Len(s) : t[k] = s[k]
    BY AppendAt
  <1> HIDE DEF none, t, F, V
  <1> DEFINE f == Parting(s, kept)
             g == Parting(t, kept)
  <1>5. /\ Cache!Among(s, kept) = f[Len(s)]
        /\ Follows(f, Len(s), V, none, Walk(s, F))
        /\ F \in [R -> [V -> V]]
    BY AmongIs DEF F, V, none
  <1>6. /\ Cache!Among(t, kept) = g[Len(t)]
        /\ Follows(g, Len(t), V, none, Walk(t, F))
    BY <1>1, AmongIs DEF F, V, none
  <1> HIDE DEF f, g
  <1>8. f[Len(s)] \in V /\ g[Len(t)] = F[e][f[Len(s)]]
    <2>1. PICK W, c, H, u, p, q : W = V /\ c = none /\ H = F /\ u = t /\ p = f /\ q = g
      OBVIOUS
    <2>2. c \in W
      BY <1>1, <2>1
    <2>3. Acts(H, R, W)
      BY <1>5, <2>1 DEF Acts
    <2>4. u \in Seq(R) /\ Longer(s, u, e)
      BY <1>1, <1>3, <2>1 DEF Longer
    <2>5. Follows(p, Len(s), W, c, Walk(s, H))
      BY <1>5, <2>1
    <2>6. Follows(q, Len(u), W, c, Walk(u, H))
      BY <1>6, <2>1
    <2>7. p[Len(s)] \in W /\ q[Len(u)] = H[e][p[Len(s)]]
      BY <2>2, <2>3, <2>4, <2>5, <2>6, WalkAppend
    <2> QED
      BY <2>1, <2>7
  <1> QED
    BY <1>2, <1>5, <1>6, <1>8 DEF t, V

(* What is kept of a sequence, for a relation that holds between each two  *)
(* of its elements.                                                        *)
Pairwise(s, Q) == \A k, n \in DOMAIN s : k # n => <<s[k], s[n]>> \in Q

LEMMA PairwiseAppend ==
  ASSUME NEW R, NEW Q, NEW s \in Seq(R), NEW e \in R,
         Pairwise(s, Q), \A d \in Range(s) : <<d, e>> \in Q /\ <<e, d>> \in Q
  PROVE  Pairwise(Append(s, e), Q)
PROOF
  <1> DEFINE t == Append(s, e)
  <1>1. /\ Len(s) \in Nat /\ DOMAIN s = 1..Len(s) /\ DOMAIN t = 1..Len(s) + 1
        /\ \A k \in 1..Len(s) : t[k] = s[k]
        /\ t[Len(s) + 1] = e
    BY AppendAt
  <1>2. \A k \in 1..Len(s) : s[k] \in Range(s)
    BY <1>1 DEF Range
  <1>3. \A k \in 1..Len(s) + 1 : k \in 1..Len(s) \/ k = Len(s) + 1
    BY <1>1
  <1> HIDE DEF t
  <1>4. ASSUME NEW k \in DOMAIN t, NEW n \in DOMAIN t, k # n
        PROVE  <<t[k], t[n]>> \in Q
    <2>1. CASE k \in 1..Len(s) /\ n \in 1..Len(s)
      BY <1>1, <1>4, <2>1 DEF Pairwise
    <2>2. CASE k \in 1..Len(s) /\ n = Len(s) + 1
      BY <1>1, <1>2, <2>2
    <2>3. CASE k = Len(s) + 1 /\ n \in 1..Len(s)
      BY <1>1, <1>2, <2>3
    <2> QED
      BY <1>1, <1>3, <1>4, <2>1, <2>2, <2>3
  <1>5. Pairwise(t, Q)
    BY <1>4 DEF Pairwise
  <1> QED
    BY <1>5 DEF t

LEMMA RangeAppend ==
  ASSUME NEW R, NEW s \in Seq(R), NEW e \in R
  PROVE  /\ Range(Append(s, e)) = Range(s) \cup {e} /\ Range(s) \subseteq R
         /\ Range(<<>>) = {}
PROOF
  <1> DEFINE t == Append(s, e)
  <1>1. /\ Len(s) \in Nat /\ DOMAIN s = 1..Len(s) /\ DOMAIN t = 1..Len(s) + 1
        /\ \A k \in 1..Len(s) : t[k] = s[k]
        /\ t[Len(s) + 1] = e
    BY AppendAt
  <1>2. \A k \in 1..Len(s) + 1 : k \in 1..Len(s) \/ k = Len(s) + 1
    BY <1>1
  <1>3. \A k \in 1..Len(s) : k \in 1..Len(s) + 1 /\ s[k] \in R
    BY <1>1, ElementOfSeq
  <1>4. Len(s) + 1 \in 1..Len(s) + 1
    BY <1>1
  <1> HIDE DEF t
  <1>5. Range(t) = Range(s) \cup {e} /\ Range(s) \subseteq R
    BY <1>1, <1>2, <1>3, <1>4 DEF Range
  <1>6. Range(<<>>) = {}
    <2>1. <<>> \in Seq({})
      BY EmptySeq
    <2>2. DOMAIN <<>> = {}
      BY <2>1, EmptySeq, LenProperties
    <2> QED
      BY <2>2 DEF Range
  <1> QED
    BY <1>5, <1>6 DEF t

(* What taking the elements that are kept does to a sequence s. *)
Sifted(s, a, R, kept, Q) ==
    /\ a \in Seq(R)
    /\ Len(a) <= Len(s) /\ Cache!Total(a) <= Cache!Total(s)
    /\ Range(a) = Range(s) \cap kept
    /\ Pairwise(s, Q) => Pairwise(a, Q)
    /\ \A e \in Range(s) \ kept :
          Len(a) + 1 <= Len(s) /\ Cache!Total(a) + e.size <= Cache!Total(s)

LEMMA PairwiseBack ==
  ASSUME NEW R, NEW Q, NEW s \in Seq(R), NEW e \in R, Pairwise(Append(s, e), Q)
  PROVE  Pairwise(s, Q) /\ \A d \in Range(s) : <<d, e>> \in Q /\ <<e, d>> \in Q
PROOF
  <1> DEFINE t == Append(s, e)
  <1>1. /\ Len(s) \in Nat /\ DOMAIN s = 1..Len(s) /\ DOMAIN t = 1..Len(s) + 1
        /\ \A k \in 1..Len(s) : t[k] = s[k]
        /\ t[Len(s) + 1] = e
    BY AppendAt
  <1>2. Len(s) + 1 \in DOMAIN t /\ \A k \in DOMAIN s : k \in DOMAIN t /\ k # Len(s) + 1
    BY <1>1
  <1>3. Pairwise(t, Q)
    OBVIOUS
  <1> HIDE DEF t
  <1>4. \A k, n \in DOMAIN t : k # n => <<t[k], t[n]>> \in Q
    BY <1>3 DEF Pairwise
  <1>5. ASSUME NEW k \in DOMAIN s, NEW n \in DOMAIN s, k # n
        PROVE  <<s[k], s[n]>> \in Q
    <2>1. <<t[k], t[n]>> \in Q
      BY <1>2, <1>4, <1>5
    <2> QED
      BY <1>1, <2>1
  <1>6. ASSUME NEW k \in DOMAIN s
        PROVE  <<s[k], e>> \in Q /\ <<e, s[k]>> \in Q
    <2>1. <<t[k], t[Len(s) + 1]>> \in Q /\ <<t[Len(s) + 1], t[k]>> \in Q
      BY <1>2, <1>4
    <2> QED
      BY <1>1, <2>1
  <1> QED
    BY <1>5, <1>6 DEF Pairwise, Range

LEMMA SiftedAppend ==
  ASSUME NEW R, Sized(R), NEW kept, NEW Q, NEW s \in Seq(R), NEW a \in Seq(R), NEW e \in R,
         Sifted(s, a, R, kept, Q)
  PROVE  Sifted(Append(s, e), IF e \in kept THEN Append(a, e) ELSE a, R, kept, Q)
PROOF
  <1> DEFINE t == Append(s, e)
             b == Append(a, e)
             l == Len(s)
             m == Len(a)
             v == Cache!Total(s)
             w == Cache!Total(a)
  <1>1. /\ Len(t) = l + 1 /\ Len(b) = m + 1 /\ l \in Nat /\ m \in Nat
        /\ t \in Seq(R) /\ b \in Seq(R)
    BY AppendAt
  <1>2. /\ Cache!Total(t) = v + e.size /\ Cache!Total(b) = w + e.size
        /\ v \in Nat /\ w \in Nat /\ e.size \in Nat
    BY TotalAppend DEF Sized
  <1>3. Range(t) = Range(s) \cup {e} /\ Range(b) = Range(a) \cup {e} /\ Range(s) \subseteq R
    BY RangeAppend
  <1>4. /\ m <= l /\ w <= v /\ Range(a) = Range(s) \cap kept /\ (Pairwise(s, Q) => Pairwise(a, Q))
        /\ \A d \in Range(s) \ kept : m + 1 <= l /\ w + d.size <= v
    BY DEF Sifted
  <1>5. Pairwise(t, Q) => Pairwise(s, Q) /\ \A d \in Range(s) : <<d, e>> \in Q /\ <<e, d>> \in Q
    BY PairwiseBack
  <1>6. Pairwise(t, Q) => Pairwise(b, Q)
    <2> SUFFICES ASSUME Pairwise(t, Q)
                 PROVE  Pairwise(b, Q)
      OBVIOUS
    <2>1. Pairwise(a, Q) /\ \A d \in Range(a) : <<d, e>> \in Q /\ <<e, d>> \in Q
      BY <1>4, <1>5
    <2> QED
      BY <2>1, PairwiseAppend
  <1>7. \A d \in R : d.size \in Nat
    BY DEF Sized
  <1> HIDE DEF t, b, l, m, v, w
  <1>8. CASE e \in kept
    <2>1. Sifted(t, b, R, kept, Q)
      <3>1. m + 1 <= l + 1 /\ w + e.size <= v + e.size
        BY <1>1, <1>2, <1>4
      <3>2. Range(b) = Range(t) \cap kept
        BY <1>3, <1>4, <1>8
      <3>3. ASSUME NEW d \in Range(t) \ kept
            PROVE  (m + 1) + 1 <= l + 1 /\ (w + e.size) + d.size <= v + e.size
        <4>1. d \in Range(s) \ kept /\ d.size \in Nat
          BY <1>3, <1>7, <1>8
        <4>2. m + 1 <= l /\ w + d.size <= v
          BY <1>4, <4>1
        <4> QED
          BY <1>1, <1>2, <4>1, <4>2
      <3> QED
        BY <1>1, <1>2, <1>6, <3>1, <3>2, <3>3 DEF Sifted
    <2> QED
      BY <1>8, <2>1 DEF t, b
  <1>9. CASE e \notin kept
    <2>1. Sifted(t, a, R, kept, Q)
      <3>1. m <= l + 1 /\ w <= v + e.size
        BY <1>1, <1>2, <1>4
      <3>2. Range(a) = Range(t) \cap kept
        BY <1>3, <1>4, <1>9
      <3>3. ASSUME NEW d \in Range(t) \ kept
            PROVE  m + 1 <= l + 1 /\ w + d.size <= v + e.size
        <4>1. d.size \in Nat
          BY <1>3, <1>7
        <4>2. CASE d = e
          <5>1. m <= l /\ w <= v
            BY <1>4
          <5> QED
            BY <1>1, <1>2, <4>2, <5>1
        <4>3. CASE d # e
          <5>1. d \in Range(s) \ kept
            BY <1>3, <4>3
          <5>2. m + 1 <= l /\ w + d.size <= v
            BY <1>4, <5>1
          <5> QED
            BY <1>1, <1>2, <4>1, <5>2
        <4> QED
          BY <4>2, <4>3
      <3>4. Len(a) = m /\ Cache!Total(a) = w
        BY DEF m, w
      <3>5. Pairwise(t, Q) => Pairwise(a, Q)
        BY <1>4, <1>5
      <3> QED
        BY <1>1, <1>2, <3>1, <3>2, <3>3, <3>4, <3>5 DEF Sifted
    <2> QED
      BY <1>9, <2>1 DEF t
  <1> QED
    BY <1>8, <1>9

LEMMA AmongSifts ==
  ASSUME NEW R, Sized(R), NEW kept, NEW Q, NEW s \in Seq(R)
  PROVE  Sifted(s, Cache!Among(s, kept), R, kept, Q)
PROOF
  <1> DEFINE T == {t \in Seq(R) : Sifted(t, Cache!Among(t, kept), R, kept, Q)}
             none == <<>>
  <1>1. none \in T
    <2>1. none \in Seq(R) /\ Len(none) = 0 /\ DOMAIN none = {}
      BY EmptySeq, LenProperties
    <2>3. Cache!Among(none, kept) = none
      BY AmongNothing
    <2>4. Range(none) = {} /\ Pairwise(none, Q)
      BY <2>1 DEF Range, Pairwise
    <2>5. Cache!Total(none) \in Nat
      BY TotalNothing
    <2> HIDE DEF none
    <2>6. Sifted(none, none, R, kept, Q)
      BY <2>1, <2>4, <2>5 DEF Sifted
    <2> QED
      BY <2>1, <2>3, <2>6
  <1>2. ASSUME NEW t \in Seq(R), NEW e \in R, t \in T
        PROVE  Append(t, e) \in T
    <2> DEFINE a == Cache!Among(t, kept)
               u == Append(t, e)
    <2>1. /\ a \in Seq(R) /\ u \in Seq(R)
          /\ Cache!Among(u, kept) = IF e \in kept THEN Append(a, e) ELSE a
      <3>1. a \in Seq(R)
        BY AmongAppend
      <3>2. u \in Seq(R)
        BY AppendProperties
      <3>3. Cache!Among(u, kept) = IF e \in kept THEN Append(a, e) ELSE a
        BY AmongAppend
      <3> QED
        BY <3>1, <3>2, <3>3
    <2>2. Sifted(t, a, R, kept, Q)
      BY <1>2
    <2> HIDE DEF a
    <2>3. Sifted(u, IF e \in kept THEN Append(a, e) ELSE a, R, kept, Q)
      BY <2>1, <2>2, SiftedAppend
    <2> HIDE DEF u
    <2>4. u \in T
      BY <2>1, <2>3
    <2> QED
      BY <2>4 DEF u
  <1> HIDE DEF T
  <1>3. \A t \in Seq(R) : t \in T
    BY <1>1, <1>2, SeqInduction DEF none
  <1> QED
    BY <1>3 DEF T

----------------------------------------------------------------------------
(* The table: s are its entries, t and f the timers that run and that wait *)
(* for the lock, b is how many solvers were kept so far.                   *)
Solvers == Cache!Entry
Differing == {p \in Solvers \X Solvers : p[1].id # p[2].id /\ p[1].key.table # p[2].key.table}
Names(s) == {e.id : e \in Range(s)}

SolverIn(e, t, f, b) ==
    /\ e.id \in 1..b
    /\ e.weights >= e.key.model
    /\ e.id \in t \cup f
    /\ e.id \in f => e.due

Fitting(s) ==
    /\ s \in Seq(Solvers)
    /\ Len(s) <= 2 /\ Cache!Total(s) <= 2
    /\ Pairwise(s, Differing)

Table(s, t, f, b) ==
    /\ Fitting(s)
    /\ b \in 0..3 /\ t \subseteq 1..b /\ f \subseteq 1..b
    /\ \A e \in Range(s) : SolverIn(e, t, f, b)
    /\ t \subseteq Names(s)

Alike(d, e) == d.id = e.id /\ d.key = e.key /\ d.weights = e.weights /\ (e.due => d.due)

LEMMA SolversSized == Sized(Solvers)
PROOF
  <1>1. \A e \in Solvers : e.size \in 1..2 + 1
    BY DEF Solvers, Cache!Entry
  <1>2. \A n \in 1..2 + 1 : n \in Nat
    OBVIOUS
  <1> QED
    BY <1>1, <1>2 DEF Sized

LEMMA NamesAre ==
  ASSUME NEW s \in Seq(Solvers)
  PROVE  /\ Cache!IdsOf(s) = Names(s)
         /\ \A e : e \in Range(s) <=> \E k \in DOMAIN s : s[k] = e
         /\ Range(s) \subseteq Solvers
PROOF
  <1>1. \A e : e \in Range(s) <=> \E k \in DOMAIN s : s[k] = e
    BY DEF Range
  <1>2. DOMAIN s = 1..Len(s) /\ \A k \in 1..Len(s) : s[k] \in Solvers
    BY ElementOfSeq, LenProperties
  <1> QED
    BY <1>1, <1>2 DEF Cache!IdsOf, Names

LEMMA DifferingIn ==
  ASSUME NEW s \in Seq(Solvers), Pairwise(s, Differing), NEW d \in Range(s), NEW e \in Range(s), d # e
  PROVE  <<d, e>> \in Differing /\ <<e, d>> \in Differing
PROOF
  <1>1. PICK k \in DOMAIN s : s[k] = d
    BY NamesAre
  <1>2. PICK n \in DOMAIN s : s[n] = e
    BY NamesAre
  <1>3. k # n
    BY <1>1, <1>2
  <1>4. <<s[k], s[n]>> \in Differing /\ <<s[n], s[k]>> \in Differing
    BY <1>3 DEF Pairwise
  <1> QED
    BY <1>1, <1>2, <1>4

LEMMA FittingSifted ==
  ASSUME NEW s, Fitting(s), NEW kept
  PROVE  /\ Fitting(Cache!Among(s, kept))
         /\ Range(Cache!Among(s, kept)) = Range(s) \cap kept
         /\ \A e \in Range(s) \ kept :
               /\ Len(Cache!Among(s, kept)) + 1 <= Len(s)
               /\ Cache!Total(Cache!Among(s, kept)) + e.size <= Cache!Total(s)
PROOF
  <1> DEFINE a == Cache!Among(s, kept)
             R == Solvers
             Q == Differing
             v == Cache!Total(s)
             w == Cache!Total(a)
  <1>1. s \in Seq(R) /\ Len(s) <= 2 /\ v <= 2 /\ Pairwise(s, Q) /\ Sized(R)
    BY SolversSized DEF Fitting
  <1> HIDE DEF a, R, Q
  <1>2. Sifted(s, Cache!Among(s, kept), R, kept, Q)
    BY <1>1, AmongSifts
  <1>3. /\ a \in Seq(R) /\ Len(a) <= Len(s) /\ w <= v /\ Range(a) = Range(s) \cap kept
        /\ Pairwise(a, Q)
        /\ \A e \in Range(s) \ kept : Len(a) + 1 <= Len(s) /\ w + e.size <= v
    BY <1>1, <1>2 DEF Sifted, a
  <1>4. Len(s) \in Nat /\ Len(a) \in Nat
    BY <1>1, <1>3, LenProperties
  <1>6. v \in Nat /\ w \in Nat
    BY <1>1, <1>3, TotalNat
  <1> HIDE DEF v, w
  <1>7. Len(a) <= 2 /\ w <= 2
    BY <1>1, <1>3, <1>4, <1>6
  <1> QED
    BY <1>3, <1>7 DEF Fitting, a, R, Q, v, w

(* Entries may go, and be marked as used or due, while their timers do the *)
(* same.                                                                   *)
LEMMA TableKept ==
  ASSUME NEW s, NEW t, NEW f, NEW b, Table(s, t, f, b), NEW a, Fitting(a),
         \A d \in Range(a) : \E e \in Range(s) : Alike(d, e),
         NEW g \in SUBSET f, \A d \in Range(a) : d.id \in f => d.id \in g
  PROVE  Table(a, t \cap Cache!IdsOf(a), g, b)
PROOF
  <1> DEFINE u == t \cap Names(a)
  <1>1. /\ b \in 0..3 /\ t \subseteq 1..b /\ f \subseteq 1..b
        /\ \A e \in Range(s) : SolverIn(e, t, f, b)
    BY DEF Table
  <1>2. ASSUME NEW d \in Range(a)
        PROVE  SolverIn(d, u, g, b)
    <2>1. PICK e \in Range(s) : Alike(d, e)
      OBVIOUS
    <2>2. d.id = e.id /\ d.key = e.key /\ d.weights = e.weights /\ (e.due => d.due)
      BY <2>1 DEF Alike
    <2>3. /\ e.id \in 1..b /\ e.weights >= e.key.model /\ e.id \in t \cup f
          /\ e.id \in f => e.due
      BY <1>1 DEF SolverIn
    <2>4. d.id \in Names(a)
      BY DEF Names
    <2>5. d.id \in f => d.id \in g
      OBVIOUS
    <2>6. d.id \in g => d.id \in f
      OBVIOUS
    <2>7. d.id \in u \cup g
      BY <2>2, <2>3, <2>4, <2>5
    <2>8. d.weights >= d.key.model
      BY <2>2, <2>3
    <2>9. d.id \in g => d.due
      BY <2>2, <2>3, <2>6
    <2> QED
      BY <2>2, <2>3, <2>7, <2>8, <2>9 DEF SolverIn
  <1>3. u \subseteq 1..b /\ g \subseteq 1..b /\ u \subseteq Names(a)
    BY <1>1
  <1>4. Cache!IdsOf(a) = Names(a)
    BY NamesAre DEF Fitting
  <1> QED
    BY <1>1, <1>2, <1>3, <1>4 DEF Table

(* A solver is put, used again, or marked as due. *)
LEMMA FittingAppended ==
  ASSUME NEW s, Fitting(s), NEW e \in Solvers, Len(s) + 1 <= 2, Cache!Total(s) + e.size <= 2,
         \A d \in Range(s) : <<d, e>> \in Differing /\ <<e, d>> \in Differing
  PROVE  Fitting(Append(s, e)) /\ Range(Append(s, e)) = Range(s) \cup {e}
PROOF
  <1> DEFINE R == Solvers
             Q == Differing
             t == Append(s, e)
  <1>1. s \in Seq(R) /\ Pairwise(s, Q) /\ Sized(R) /\ e \in R
    BY SolversSized DEF Fitting
  <1> HIDE DEF R
  <1>2. Cache!Total(Append(s, e)) = Cache!Total(s) + e.size
    BY <1>1, TotalAppend
  <1>3. t \in Seq(R) /\ Len(t) = Len(s) + 1
    BY <1>1, AppendAt
  <1>4. Range(Append(s, e)) = Range(s) \cup {e}
    BY <1>1, RangeAppend
  <1> HIDE DEF Q
  <1>5. Pairwise(Append(s, e), Q)
    BY <1>1, PairwiseAppend DEF Q
  <1> QED
    BY <1>2, <1>3, <1>4, <1>5 DEF Fitting, t, R, Q

LEMMA FittingChanged ==
  ASSUME NEW s, Fitting(s), NEW k \in DOMAIN s, NEW e \in Solvers,
         e.id = s[k].id, e.key = s[k].key, e.size = s[k].size
  PROVE  /\ Fitting([s EXCEPT ![k] = e])
         /\ Range([s EXCEPT ![k] = e]) \subseteq Range(s) \cup {e}
         /\ Names([s EXCEPT ![k] = e]) = Names(s)
PROOF
  <1> DEFINE a == [s EXCEPT ![k] = e]
             R == Solvers
  <1>1. s \in Seq(R) /\ Sized(R) /\ e \in R /\ Pairwise(s, Differing)
    BY SolversSized DEF Fitting
  <1>2. DOMAIN s = 1..Len(s) /\ \A n \in 1..Len(s) : s[n] \in R
    BY <1>1, LenProperties, ElementOfSeq
  <1>3. a \in Seq(R) /\ Len(a) = Len(s)
    BY <1>1, <1>2, ExceptSeq
  <1>4. /\ DOMAIN a = DOMAIN s /\ a[k] = e
        /\ \A n \in DOMAIN s : n # k => a[n] = s[n]
    BY <1>1, <1>2
  <1>5. \A n \in DOMAIN s : a[n].id = s[n].id /\ a[n].key = s[n].key /\ a[n].size = s[n].size
                             /\ a[n] \in R
    BY <1>1, <1>2, <1>4
  <1> HIDE DEF a, R
  <1>6. Cache!Total(a) = Cache!Total(s)
    <2>1. \A n \in 1..Len(s) : s[n].size = a[n].size
      BY <1>2, <1>5
    <2>2. Len(s) = Len(a)
      BY <1>3
    <2> QED
      BY <1>1, <1>3, <2>1, <2>2, TotalSame
  <1>7. Pairwise(a, Differing)
    <2> SUFFICES ASSUME NEW m \in DOMAIN a, NEW n \in DOMAIN a, m # n
                 PROVE  <<a[m], a[n]>> \in Differing
      BY DEF Pairwise
    <2>1. <<s[m], s[n]>> \in Differing
      BY <1>1, <1>4 DEF Pairwise
    <2>2. s[m].id # s[n].id /\ s[m].key.table # s[n].key.table
      BY <2>1 DEF Differing
    <2>3. m \in DOMAIN s /\ n \in DOMAIN s
      BY <1>4
    <2>4. a[m].id # a[n].id /\ a[m].key.table # a[n].key.table /\ a[m] \in R /\ a[n] \in R
      BY <1>5, <2>2, <2>3
    <2> QED
      BY <2>4 DEF Differing, R
  <1>8. Range(a) \subseteq Range(s) \cup {e}
    BY <1>4 DEF Range
  <1>9. Names(a) = Names(s)
    BY <1>4, <1>5 DEF Names, Range
  <1>10. Fitting(a)
    BY <1>1, <1>3, <1>6, <1>7 DEF Fitting, R
  <1> QED
    BY <1>8, <1>9, <1>10 DEF a

LEMMA SuffixFits ==
  ASSUME NEW s, Fitting(s), NEW n \in 0..Len(s)
  PROVE  /\ Cache!Rest(s, n) \in Seq(Solvers) /\ Len(Cache!Rest(s, n)) = Len(s) - n
         /\ Range(Cache!Rest(s, n)) \subseteq Range(s)
         /\ Pairwise(Cache!Rest(s, n), Differing)
PROOF
  <1> DEFINE a == Cache!Rest(s, n)
             l == Len(s)
  <1>1. s \in Seq(Solvers) /\ l \in Nat /\ DOMAIN s = 1..l /\ Pairwise(s, Differing)
    BY LenProperties DEF Fitting
  <1>2. n \in Nat /\ n <= l
    BY <1>1
  <1>3. \A k \in n + 1..l : s[k] \in Solvers
    BY <1>1, <1>2, ElementOfSeq
  <1>4. a \in Seq(Solvers) /\ Len(a) = l - n /\ \A k \in 1..l - n : a[k] = s[k + n]
    <2>1. a = SubSeq(s, n + 1, l)
      BY DEF Cache!Rest
    <2> HIDE DEF a, l
    <2>2. /\ SubSeq(s, n + 1, l) \in Seq(Solvers)
          /\ Len(SubSeq(s, n + 1, l)) = IF n + 1 <= l THEN l - (n + 1) + 1 ELSE 0
      <3>1. n + 1 \in Int /\ l \in Int
        BY <1>1, <1>2
      <3> QED
        BY <1>3, <3>1, SubSeqProperties
    <2>3. \A k \in 1..l - n : SubSeq(s, n + 1, l)[k] = s[k + n]
      BY <1>1, <1>2, SubSeqProperties DEF l
    <2>4. (IF n + 1 <= l THEN l - (n + 1) + 1 ELSE 0) = l - n
      BY <1>1, <1>2
    <2> QED
      BY <2>1, <2>2, <2>3, <2>4
  <1>5. DOMAIN a = 1..l - n /\ \A k \in 1..l - n : k + n \in DOMAIN s
    BY <1>1, <1>2, <1>4, LenProperties
  <1> HIDE DEF a, l
  <1>6. Range(a) \subseteq Range(s)
    BY <1>4, <1>5 DEF Range
  <1>7. Pairwise(a, Differing)
    <2> SUFFICES ASSUME NEW k \in DOMAIN a, NEW m \in DOMAIN a, k # m
                 PROVE  <<a[k], a[m]>> \in Differing
      BY DEF Pairwise
    <2>1. k + n \in DOMAIN s /\ m + n \in DOMAIN s /\ k + n # m + n
      BY <1>1, <1>2, <1>5
    <2>2. <<s[k + n], s[m + n]>> \in Differing
      BY <1>1, <2>1 DEF Pairwise
    <2>3. a[k] = s[k + n] /\ a[m] = s[m + n]
      BY <1>4, <1>5
    <2> QED
      BY <2>2, <2>3
  <1> QED
    BY <1>4, <1>6, <1>7 DEF a, l

(* Eviction makes room for a solver that is not too large on its own. *)
LEMMA EvictedFits ==
  ASSUME NEW s, Fitting(s), NEW space \in 1..2
  PROVE  /\ Fitting(Cache!Evicted(s, space)) /\ Range(Cache!Evicted(s, space)) \subseteq Range(s)
         /\ Len(Cache!Evicted(s, space)) + 1 <= 2
         /\ Cache!Total(Cache!Evicted(s, space)) + space <= 2
PROOF
  <1> DEFINE l == Len(s)
             F(n) == Cache!Fits(Cache!Rest(s, n), space)
             P(n) == F(n) /\ \A m \in 0..n - 1 : ~F(m)
             p == CHOOSE n \in 0..l : P(n)
             none == <<>>
  <1>1. l \in 0..2
    <2>1. s \in Seq(Solvers) /\ l <= 2
      BY DEF Fitting
    <2>2. l \in Nat
      BY <2>1, LenProperties
    <2> HIDE DEF l
    <2> QED
      BY <2>1, <2>2
  <1>2. F(l)
    <2>1. Len(Cache!Rest(s, l)) = 0 /\ Cache!Rest(s, l) \in Seq(Solvers)
      BY <1>1, SuffixFits
    <2>2. Cache!Rest(s, l) = none
      BY <2>1, EmptySeq
    <2> QED
      BY <2>2 DEF Cache!Fits
  <1> HIDE DEF F, l
  <1>3. \E n \in 0..l : P(n)
    <2>1. CASE F(0)
      <3>1. 0 \in 0..l /\ \A m \in 0..0 - 1 : ~F(m)
        BY <1>1
      <3> QED
        BY <2>1, <3>1
    <2>2. CASE ~F(0) /\ l >= 1 /\ F(1)
      <3>1. 1 \in 0..l /\ \A m \in 0..1 - 1 : m = 0
        BY <1>1, <2>2
      <3> QED
        BY <2>2, <3>1
    <2>3. CASE ~F(0) /\ l = 2 /\ ~F(1)
      <3>1. 2 \in 0..l /\ \A m \in 0..2 - 1 : m \in {0, 1}
        BY <1>1, <2>3
      <3> QED
        BY <1>2, <2>3, <3>1
    <2>4. l = 0 \/ l = 1 \/ l = 2
      BY <1>1
    <2> QED
      BY <1>2, <2>1, <2>2, <2>3, <2>4
  <1>4. p \in 0..l /\ F(p)
    BY <1>3
  <1>5. Cache!Evicted(s, space) = Cache!Rest(s, p)
    BY DEF Cache!Evicted, F, l
  <1> HIDE DEF p
  <1> DEFINE a == Cache!Rest(s, p)
             v == Cache!Total(a)
  <1>6. /\ a \in Seq(Solvers) /\ Range(a) \subseteq Range(s) /\ Pairwise(a, Differing)
    BY <1>4, SuffixFits DEF l
  <1>7. v \in Nat /\ Len(a) \in Nat
    BY <1>6, SolversSized, TotalNat, LenProperties
  <1>8. \/ a = none
        \/ Len(a) < 2 /\ v + space <= 2
    BY <1>4 DEF F, Cache!Fits
  <1>9. a = none => Len(a) = 0 /\ v = 0
    BY TotalNothing
  <1> HIDE DEF a, v
  <1>10. Len(a) + 1 <= 2 /\ v + space <= 2 /\ Len(a) <= 2 /\ v <= 2
    BY <1>7, <1>8, <1>9
  <1> QED
    BY <1>5, <1>6, <1>10 DEF a, v, Fitting

(* What is left of the table after the sweep at the beginning of get. *)
LEMMA SweptFits ==
  ASSUME Fitting(entries), NEW key
  PROVE  /\ Fitting(Cache!Swept(key))
         /\ Range(Cache!Swept(key)) \subseteq Range(entries)
         /\ \A e \in Range(Cache!Swept(key)) : e.key.table = key.table => e.key = key
BY FittingSifted DEF Cache!Swept

LEMMA WithoutFits ==
  ASSUME NEW s, Fitting(s), NEW key
  PROVE  /\ Fitting(Cache!Without(s, key))
         /\ Range(Cache!Without(s, key)) = {e \in Range(s) : e.key # key}
         /\ \A e \in Range(s) : e.key = key =>
               /\ Len(Cache!Without(s, key)) + 1 <= Len(s)
               /\ Cache!Total(Cache!Without(s, key)) + e.size <= Cache!Total(s)
PROOF
  <1> DEFINE kept == {e \in Range(s) : e.key # key}
  <1>1. Cache!Without(s, key) = Cache!Among(s, kept)
    BY DEF Cache!Without, Cache!Range, Range
  <1>2. /\ Fitting(Cache!Among(s, kept))
        /\ Range(Cache!Among(s, kept)) = Range(s) \cap kept
        /\ \A e \in Range(s) \ kept :
               /\ Len(Cache!Among(s, kept)) + 1 <= Len(s)
               /\ Cache!Total(Cache!Among(s, kept)) + e.size <= Cache!Total(s)
    BY FittingSifted
  <1> QED
    BY <1>1, <1>2

LEMMA FoundIs ==
  ASSUME NEW s, Fitting(s), NEW key, Cache!With(s, key) # <<>>
  PROVE  Cache!With(s, key)[1] \in Range(s) /\ Cache!With(s, key)[1].key = key
PROOF
  <1> DEFINE kept == {e \in Range(s) : e.key = key}
             a == Cache!Among(s, kept)
  <1>1. Cache!With(s, key) = a
    BY DEF Cache!With, Cache!Range, Range
  <1>2. Fitting(a) /\ Range(a) = Range(s) \cap kept
    BY FittingSifted
  <1>3. a # <<>> /\ a \in Seq(Solvers)
    BY <1>1, <1>2 DEF Fitting
  <1> HIDE DEF a
  <1>4. 1 \in DOMAIN a
    BY <1>3, TailAt
  <1>5. a[1] \in Range(a)
    BY <1>4 DEF Range
  <1> QED
    BY <1>1, <1>2, <1>5

----------------------------------------------------------------------------
(* The request: b solvers were kept so far, f is the checkpoint on disk, w *)
(* are the weights of the evaluator.                                       *)
Works == [at : {"evaluator", "load", "build"}, key : Cache!Keys \cup {Cache!NoKey},
          position : 0..2, asked : 1..2, stat : 0..2]

Absent(key, s) == \A e \in Range(s) : e.key.table # key.table

Working(r, s, b, f, w) ==
    /\ r \in Works
    /\ r.asked <= f
    /\ r.at # "evaluator" => r.asked <= r.stat /\ r.stat <= f
    /\ r.at = "build" => r.stat <= w
    /\ \/ r.key = Cache!NoKey
       \/ r.key \in Cache!Keys /\ b < 3 /\ r.key.model = r.asked /\ Absent(r.key, s)

CaInv ==
    /\ Table(entries, timers, fired, built)
    /\ file \in 1..2 /\ loaded \in [stat : 0..2, weights : 0..2]
    /\ loaded.stat <= loaded.weights /\ loaded.weights <= file
    /\ request = Cache!NoRequest \/ Working(request, entries, built, file, loaded.weights)
    /\ told \in [weights : 0..2, asked : 0..2] /\ told.asked <= told.weights
    /\ lost = FALSE

LEMMA CaSafe ==
  ASSUME CaInv
  PROVE  Cache!TypeOK /\ Cache!EntriesHaveTheirTimers /\ Cache!AnswersAreCurrent
PROOF
  <1>1. /\ entries \in Seq(Solvers) /\ Len(entries) <= 2 /\ Cache!Total(entries) <= 2
        /\ Pairwise(entries, Differing)
        /\ built \in 0..3 /\ timers \subseteq 1..built /\ fired \subseteq 1..built
        /\ \A e \in Range(entries) : SolverIn(e, timers, fired, built)
        /\ timers \subseteq Names(entries)
    BY DEF CaInv, Table, Fitting
  <1>2. Cache!IdsOf(entries) = Names(entries)
    BY <1>1, NamesAre
  <1>3. \A k \in DOMAIN entries : entries[k] \in Range(entries)
    BY DEF Range
  <1>4. request.at \in {"free", "evaluator", "load", "build"}
    <2>1. CASE request = Cache!NoRequest
      BY <2>1 DEF Cache!NoRequest
    <2>2. CASE Working(request, entries, built, file, loaded.weights)
      BY <2>2 DEF Working, Works
    <2> QED
      BY <2>1, <2>2 DEF CaInv
  <1>5. Cache!TypeOK
    BY <1>1, <1>4 DEF Cache!TypeOK, CaInv, Solvers
  <1>6. Cache!EntriesHaveTheirTimers
    <2>1. Cache!IdsOf(entries) \subseteq timers \cup fired
      BY <1>1, <1>2 DEF Names, SolverIn
    <2>2. \A k, n \in DOMAIN entries : k # n => entries[k].key.table # entries[n].key.table
      BY <1>1 DEF Pairwise, Differing
    <2> QED
      BY <1>1, <1>2, <2>1, <2>2 DEF Cache!EntriesHaveTheirTimers, CaInv
  <1>7. Cache!AnswersAreCurrent
    <2>1. \A k \in DOMAIN entries : entries[k].weights >= entries[k].key.model
      BY <1>1, <1>3 DEF SolverIn
    <2>2. told.weights >= told.asked
      BY DEF CaInv
    <2> QED
      BY <2>1, <2>2 DEF Cache!AnswersAreCurrent
  <1> QED
    BY <1>5, <1>6, <1>7

LEMMA CaInit ==
  ASSUME Cache!Init
  PROVE  CaInv
PROOF
  <1> DEFINE none == <<>>
  <1>1. /\ entries = none /\ timers = {} /\ fired = {} /\ built = 0
        /\ file = 1 /\ loaded = [stat |-> 0, weights |-> 0] /\ request = Cache!NoRequest
        /\ told = [weights |-> 0, asked |-> 0] /\ lost = FALSE
    BY DEF Cache!Init, Cache!NoAnswer
  <1>2. none \in Seq(Solvers) /\ Len(none) = 0 /\ DOMAIN none = {}
    BY EmptySeq, LenProperties
  <1>3. Cache!Total(none) = 0
    BY TotalNothing
  <1> HIDE DEF none
  <1>4. Range(none) = {} /\ Pairwise(none, Differing)
    BY <1>2 DEF Range, Pairwise
  <1>5. Fitting(none)
    BY <1>2, <1>3, <1>4 DEF Fitting
  <1>6. Table(entries, timers, fired, built)
    BY <1>1, <1>4, <1>5 DEF Table
  <1>7. loaded \in [stat : 0..2, weights : 0..2] /\ told \in [weights : 0..2, asked : 0..2]
    BY <1>1
  <1>8. loaded.stat <= loaded.weights /\ loaded.weights <= file /\ told.asked <= told.weights
    BY <1>1
  <1> QED
    BY <1>1, <1>6, <1>7, <1>8 DEF CaInv

LEMMA CaUnchanged ==
  ASSUME CaInv, UNCHANGED cache
  PROVE  CaInv'
PROOF
  <1>1. UNCHANGED <<file, loaded, entries, timers, fired, request, told, built, lost>>
    BY DEF cache
  <1> QED
    BY <1>1 DEF CaInv

(* A request that begins to work out an answer for itself. *)
LEMMA SolveWorks ==
  ASSUME NEW s, NEW b, NEW w, NEW f \in 1..2, NEW position \in 0..2,
         NEW key, \/ key = Cache!NoKey
                  \/ key \in Cache!Keys /\ b < 3 /\ key.model = f /\ Absent(key, s),
         NEW r, r = [at |-> "evaluator", key |-> key, position |-> position,
                     asked |-> f, stat |-> 0]
  PROVE  Working(r, s, b, f, w)
PROOF
  <1>1. /\ r.at = "evaluator" /\ r.key = key /\ r.position = position /\ r.asked = f /\ r.stat = 0
    OBVIOUS
  <1>2. key \in Cache!Keys \cup {Cache!NoKey}
    OBVIOUS
  <1>3. 0 \in 0..2
    OBVIOUS
  <1>4. r \in Works
    BY <1>2, <1>3 DEF Works
  <1> HIDE DEF Works
  <1>5. r.asked <= f
    BY <1>1
  <1> QED
    BY <1>1, <1>4, <1>5 DEF Working

(* A step that leaves the request as it is. *)
LEMMA StillWorking ==
  ASSUME NEW r, NEW s, NEW b, NEW f, NEW w, Working(r, s, b, f, w), f \in 1..2, w \in 0..2,
         NEW a, \A d \in Range(a) : \E e \in Range(s) : d.key = e.key,
         NEW g \in 1..2, f <= g, NEW v \in 0..2, w <= v
  PROVE  Working(r, a, b, g, v)
PROOF
  <1>1. /\ r \in Works
        /\ r.asked <= f
        /\ r.at # "evaluator" => r.asked <= r.stat /\ r.stat <= f
        /\ r.at = "build" => r.stat <= w
        /\ \/ r.key = Cache!NoKey
           \/ r.key \in Cache!Keys /\ b < 3 /\ r.key.model = r.asked /\ Absent(r.key, s)
    BY DEF Working
  <1>2. r.asked \in 1..2 /\ r.stat \in 0..2
    BY <1>1 DEF Works
  <1>3. r.asked <= g /\ (r.stat <= f => r.stat <= g) /\ (r.stat <= w => r.stat <= v)
    BY <1>1, <1>2
  <1>4. Absent(r.key, s) => Absent(r.key, a)
    BY DEF Absent
  <1> QED
    BY <1>1, <1>3, <1>4 DEF Working

LEMMA CaReplace ==
  ASSUME CaInv, Cache!Replace
  PROVE  CaInv'
PROOF
  <1>1. /\ file < 2 /\ file' = file + 1
        /\ UNCHANGED <<loaded, entries, timers, fired, request, told, built, lost>>
    BY DEF Cache!Replace
  <1>2. file \in 1..2 /\ loaded \in [stat : 0..2, weights : 0..2] /\ loaded.weights <= file
    BY DEF CaInv
  <1>3. file' \in 1..2 /\ file <= file' /\ loaded.weights <= file' /\ loaded.weights \in 0..2
        /\ loaded.weights <= loaded.weights
    BY <1>1, <1>2
  <1>4. \A d \in Range(entries) : \E e \in Range(entries) : d.key = e.key
    OBVIOUS
  <1>5. Working(request, entries, built, file, loaded.weights)
          => Working(request, entries, built, file', loaded.weights)
    BY <1>2, <1>3, <1>4, StillWorking
  <1> QED
    BY <1>1, <1>3, <1>5 DEF CaInv

LEMMA CaRaise ==
  ASSUME CaInv, Cache!Raise
  PROVE  CaInv'
PROOF
  <1>1. /\ request' = Cache!NoRequest
        /\ UNCHANGED <<file, loaded, entries, timers, fired, told, built, lost>>
    BY DEF Cache!Raise
  <1> QED
    BY <1>1 DEF CaInv

LEMMA CaAskOnce ==
  ASSUME CaInv, NEW position \in 0..2, Cache!AskOnce(position)
  PROVE  CaInv'
PROOF
  <1>1. /\ request' = [at |-> "evaluator", key |-> Cache!NoKey, position |-> position,
                       asked |-> file, stat |-> 0]
        /\ UNCHANGED <<file, loaded, entries, timers, fired, told, built, lost>>
    BY DEF Cache!AskOnce, Cache!Solve
  <1>2. file \in 1..2
    BY DEF CaInv
  <1> DEFINE key == Cache!NoKey
  <1>3. key = Cache!NoKey
    OBVIOUS
  <1> HIDE DEF key
  <1>4. PICK r : r = [at |-> "evaluator", key |-> key, position |-> position,
                      asked |-> file, stat |-> 0]
    OBVIOUS
  <1>5. Working(r, entries, built, file, loaded.weights)
    BY <1>2, <1>3, <1>4, SolveWorks
  <1>6. request' = r
    BY <1>1, <1>3, <1>4
  <1>7. Working(request, entries, built, file, loaded.weights)'
    BY <1>1, <1>5, <1>6
  <1> QED
    BY <1>1, <1>7 DEF CaInv

LEMMA CaFindEvaluator ==
  ASSUME CaInv, Cache!FindEvaluator
  PROVE  CaInv'
PROOF
  <1>1. /\ request.at = "evaluator"
        /\ request' = [request EXCEPT !.at = IF loaded.stat = file THEN "build" ELSE "load",
                                      !.stat = file]
        /\ UNCHANGED <<file, loaded, entries, timers, fired, told, built, lost>>
    BY DEF Cache!FindEvaluator
  <1>2. request # Cache!NoRequest
    BY <1>1 DEF Cache!NoRequest
  <1>3. Working(request, entries, built, file, loaded.weights)
    BY <1>2 DEF CaInv
  <1>4. /\ file \in 1..2 /\ loaded.stat <= loaded.weights
        /\ request \in Works /\ request.asked <= file
        /\ \/ request.key = Cache!NoKey
           \/ /\ request.key \in Cache!Keys /\ built < 3
              /\ request.key.model = request.asked /\ Absent(request.key, entries)
    BY <1>3 DEF Working, CaInv
  <1> DEFINE at == IF loaded.stat = file THEN "build" ELSE "load"
  <1>5. at \in {"build", "load"} /\ (at = "build" => file <= loaded.weights)
    BY <1>4
  <1> HIDE DEF at
  <1>6. PICK r : r = [request EXCEPT !.at = at, !.stat = file]
    OBVIOUS
  <1>7. /\ r \in Works /\ r.at = at /\ r.stat = file /\ r.key = request.key
        /\ r.asked = request.asked
    <2>1. at \in {"evaluator", "load", "build"} /\ file \in 0..2
      BY <1>4, <1>5
    <2> QED
      BY <1>4, <1>6, <2>1 DEF Works
  <1>8. file <= file
    BY <1>4
  <1>9. Working(r, entries, built, file, loaded.weights)
    BY <1>4, <1>5, <1>7, <1>8 DEF Working
  <1>10. request' = r
    BY <1>1, <1>6 DEF at
  <1>11. Working(request, entries, built, file, loaded.weights)'
    BY <1>1, <1>9, <1>10
  <1> QED
    BY <1>1, <1>11 DEF CaInv

LEMMA CaLoad ==
  ASSUME CaInv, Cache!Load
  PROVE  CaInv'
PROOF
  <1>1. /\ request.at = "load"
        /\ loaded' = [stat |-> request.stat, weights |-> file]
        /\ request' = [request EXCEPT !.at = "build"]
        /\ UNCHANGED <<file, entries, timers, fired, told, built, lost>>
    BY DEF Cache!Load
  <1>2. request # Cache!NoRequest
    BY <1>1 DEF Cache!NoRequest
  <1>3. Working(request, entries, built, file, loaded.weights)
    BY <1>2 DEF CaInv
  <1>4. /\ file \in 1..2
        /\ request \in Works /\ request.asked <= file
        /\ request.asked <= request.stat /\ request.stat <= file
        /\ \/ request.key = Cache!NoKey
           \/ /\ request.key \in Cache!Keys /\ built < 3
              /\ request.key.model = request.asked /\ Absent(request.key, entries)
    BY <1>1, <1>3 DEF Working, CaInv
  <1>5. request.stat \in 0..2 /\ file \in 0..2 /\ file <= file
    BY <1>4 DEF Works
  <1>6. /\ loaded' \in [stat : 0..2, weights : 0..2]
        /\ loaded'.stat = request.stat /\ loaded'.weights = file
    BY <1>1, <1>5
  <1>7. PICK r : r = [request EXCEPT !.at = "build"]
    OBVIOUS
  <1>8. /\ r \in Works /\ r.stat = request.stat /\ r.key = request.key
        /\ r.asked = request.asked
    BY <1>4, <1>7 DEF Works
  <1>9. Working(r, entries, built, file, file)
    BY <1>4, <1>5, <1>8 DEF Working
  <1>10. Working(request, entries, built, file, loaded.weights)'
    BY <1>1, <1>6, <1>7, <1>9
  <1> QED
    BY <1>1, <1>4, <1>5, <1>6, <1>10 DEF CaInv

LEMMA CaFire ==
  ASSUME CaInv, NEW k, Cache!Fire(k)
  PROVE  CaInv'
PROOF
  <1>1. /\ k \in DOMAIN entries /\ entries[k].due /\ entries[k].id \in timers
        /\ timers' = timers \ {entries[k].id}
        /\ fired' = fired \cup {entries[k].id}
        /\ UNCHANGED <<file, loaded, entries, request, told, built, lost>>
    BY DEF Cache!Fire
  <1>2. /\ Fitting(entries)
        /\ built \in 0..3 /\ timers \subseteq 1..built /\ fired \subseteq 1..built
        /\ \A e \in Range(entries) : SolverIn(e, timers, fired, built)
        /\ timers \subseteq Names(entries)
    BY DEF CaInv, Table
  <1>3. entries[k] \in Range(entries) /\ entries \in Seq(Solvers) /\ Pairwise(entries, Differing)
    BY <1>1, <1>2 DEF Range, Fitting
  <1>4. ASSUME NEW e \in Range(entries)
        PROVE  SolverIn(e, timers', fired', built)
    <2>1. /\ e.id \in 1..built /\ e.weights >= e.key.model
          /\ e.id \in timers \cup fired /\ (e.id \in fired => e.due)
      BY <1>2 DEF SolverIn
    <2>2. e.id \in timers' \cup fired'
      BY <1>1, <2>1
    <2>3. ASSUME e # entries[k]
          PROVE  e.id # entries[k].id
      <3>1. PICK c \in Range(entries) : c = entries[k]
        BY <1>3
      <3>2. <<e, c>> \in Differing
        BY <1>3, <2>3, <3>1, DifferingIn
      <3> QED
        BY <3>1, <3>2 DEF Differing
    <2>4. e.id \in fired' => e.due
      BY <1>1, <2>1, <2>3
    <2> QED
      BY <2>1, <2>2, <2>4 DEF SolverIn
  <1>5. timers' \subseteq 1..built /\ fired' \subseteq 1..built /\ timers' \subseteq Names(entries)
    BY <1>1, <1>2
  <1>6. Table(entries, timers', fired', built)
    BY <1>2, <1>4, <1>5 DEF Table
  <1> QED
    BY <1>1, <1>6 DEF CaInv

LEMMA CaLapse ==
  ASSUME CaInv, NEW k, Cache!Lapse(k)
  PROVE  CaInv'
PROOF
  <1>1. /\ k \in DOMAIN entries
        /\ entries' = [entries EXCEPT ![k].due = TRUE]
        /\ UNCHANGED <<file, loaded, timers, fired, request, told, built, lost>>
    BY DEF Cache!Lapse
  <1>2. /\ Table(entries, timers, fired, built) /\ Fitting(entries)
        /\ timers \subseteq Names(entries)
    BY DEF CaInv, Table
  <1>3. entries[k] \in Solvers /\ entries[k] \in Range(entries) /\ entries \in Seq(Solvers)
    <2>1. entries \in Seq(Solvers)
      BY <1>2 DEF Fitting
    <2> QED
      BY <1>1, <2>1, ElementOfSeq, LenProperties DEF Range
  <1>4. PICK e : e = [entries[k] EXCEPT !.due = TRUE]
    OBVIOUS
  <1>5. /\ e \in Solvers /\ e.id = entries[k].id /\ e.key = entries[k].key
        /\ e.size = entries[k].size /\ e.weights = entries[k].weights /\ e.due
    BY <1>3, <1>4 DEF Solvers, Cache!Entry
  <1>6. PICK a : a = [entries EXCEPT ![k] = e]
    OBVIOUS
  <1>7. entries' = a
    BY <1>1, <1>4, <1>6
  <1>8. Fitting(a) /\ Range(a) \subseteq Range(entries) \cup {e} /\ Names(a) = Names(entries)
    BY <1>1, <1>2, <1>5, <1>6, FittingChanged
  <1>9. \A d \in Range(a) : \E c \in Range(entries) : Alike(d, c)
    BY <1>3, <1>5, <1>8 DEF Alike
  <1>10. \A d \in Range(a) : d.id \in fired => d.id \in fired
    OBVIOUS
  <1>11. Table(a, timers \cap Cache!IdsOf(a), fired, built)
    BY <1>2, <1>8, <1>9, <1>10, TableKept
  <1>12. timers \cap Cache!IdsOf(a) = timers
    BY <1>2, <1>8, NamesAre DEF Fitting
  <1>13. Table(entries, timers, fired, built)'
    BY <1>1, <1>7, <1>11, <1>12
  <1>14. /\ \A d \in Range(a) : \E c \in Range(entries) : d.key = c.key
         /\ file \in 1..2 /\ loaded.weights \in 0..2 /\ file <= file
         /\ loaded.weights <= loaded.weights
    BY <1>9 DEF Alike, CaInv
  <1>15. Working(request, entries, built, file, loaded.weights)
           => Working(request, a, built, file, loaded.weights)
    BY <1>14, StillWorking
  <1> QED
    BY <1>1, <1>7, <1>13, <1>15 DEF CaInv

LEMMA CaExpire ==
  ASSUME CaInv, NEW id, Cache!Expire(id)
  PROVE  CaInv'
PROOF
  <1> DEFINE kept == {e \in Range(entries) : e.id # id}
  <1>1. PICK a : a = Cache!Among(entries, kept)
    OBVIOUS
  <1>2. /\ request = Cache!NoRequest /\ id \in fired
        /\ fired' = fired \ {id}
        /\ entries' = a /\ timers' = timers \cap Cache!IdsOf(a)
        /\ lost' = (lost \/ \E k \in DOMAIN entries :
                                ~entries[k].due /\ entries[k].id \notin Cache!IdsOf(a))
        /\ UNCHANGED <<file, loaded, request, told, built>>
    <2>1. kept = {e \in Cache!Range(entries) : e.id # id}
      BY DEF Range, Cache!Range
    <2> HIDE DEF kept
    <2> QED
      BY <1>1, <2>1 DEF Cache!Expire, Cache!Keep
  <1>3. /\ Table(entries, timers, fired, built) /\ Fitting(entries)
        /\ \A e \in Range(entries) : SolverIn(e, timers, fired, built)
        /\ lost = FALSE
    BY DEF CaInv, Table
  <1>4. Fitting(a) /\ Range(a) = Range(entries) \cap kept
    BY <1>1, <1>3, FittingSifted
  <1>5. Range(a) = kept
    BY <1>4
  <1>6. \A d \in Range(a) : \E e \in Range(entries) : Alike(d, e)
    BY <1>5 DEF Alike
  <1>7. PICK g \in SUBSET fired : g = fired \ {id}
    OBVIOUS
  <1>8. \A d \in Range(a) : d.id \in fired => d.id \in g
    BY <1>5, <1>7
  <1>9. Table(a, timers \cap Cache!IdsOf(a), g, built)
    BY <1>3, <1>4, <1>6, <1>8, TableKept
  <1>10. Table(entries, timers, fired, built)'
    BY <1>2, <1>7, <1>9
  <1>11. lost' = FALSE
    <2>1. ASSUME NEW k \in DOMAIN entries, ~entries[k].due
          PROVE  entries[k].id \in Cache!IdsOf(a)
      <3>1. entries[k] \in Range(entries)
        BY DEF Range
      <3>2. entries[k].id \notin fired
        BY <1>3, <2>1, <3>1 DEF SolverIn
      <3>3. entries[k] \in Range(a)
        BY <1>2, <1>5, <3>1, <3>2
      <3>4. Cache!IdsOf(a) = Names(a)
        BY <1>4, NamesAre DEF Fitting
      <3> QED
        BY <3>3, <3>4 DEF Names
    <2> QED
      BY <1>2, <1>3, <2>1
  <1> QED
    BY <1>2, <1>10, <1>11 DEF CaInv

(* The solver of a request that is finished is put at the end. *)
LEMMA CaPut ==
  ASSUME Table(entries, timers, fired, built), built < 3,
         NEW key \in Cache!Keys, Absent(key, entries),
         NEW position \in 0..2, Cache!Size(position) <= 2, NEW w \in 1..2, key.model <= w,
         NEW room, room = Cache!Evicted(Cache!Without(entries, key), Cache!Size(position)),
         NEW new, new = [id |-> built + 1, key |-> key, size |-> Cache!Size(position),
                         runners |-> position, due |-> FALSE, weights |-> w]
  PROVE  Table(Append(room, new), (timers \cap Cache!IdsOf(room)) \cup {new.id}, fired,
               built + 1)
PROOF
  <1>1. /\ Fitting(entries)
        /\ built \in 0..3 /\ timers \subseteq 1..built /\ fired \subseteq 1..built
        /\ \A e \in Range(entries) : SolverIn(e, timers, fired, built)
    BY DEF Table
  <1> DEFINE space == Cache!Size(position)
             left == Cache!Without(entries, key)
             n == built + 1
  <1>2. space \in 1..2 /\ space \in 1..3
    BY DEF Cache!Size
  <1>3. Fitting(left) /\ Range(left) \subseteq Range(entries)
    BY <1>1, WithoutFits
  <1> HIDE DEF space, left
  <1>4. room = Cache!Evicted(left, space)
    BY DEF space, left
  <1>5. /\ Fitting(room) /\ Range(room) \subseteq Range(left)
        /\ Len(room) + 1 <= 2 /\ Cache!Total(room) + space <= 2
    BY <1>2, <1>3, <1>4, EvictedFits
  <1>6. /\ n \in 1..3 /\ n \notin 1..built /\ \A k \in 1..built : k \in 1..n
    BY <1>1
  <1> HIDE DEF n
  <1>7. /\ new \in Solvers /\ new.id = n /\ new.key = key /\ new.size = space /\ new.due = FALSE
        /\ new.weights = w
    <2>1. new = [id |-> n, key |-> key, size |-> space, runners |-> position,
                 due |-> FALSE, weights |-> w]
      BY DEF n, space
    <2>2. FALSE \in BOOLEAN
      OBVIOUS
    <2> QED
      BY <1>2, <1>6, <2>1, <2>2 DEF Solvers, Cache!Entry
  <1>8. room \in Seq(Solvers) /\ Range(room) \subseteq Range(entries) /\ Range(room) \subseteq Solvers
    BY <1>3, <1>5, NamesAre DEF Fitting
  <1>9. ASSUME NEW d \in Range(room)
        PROVE  <<d, new>> \in Differing /\ <<new, d>> \in Differing
    <2>1. d.key.table # key.table
      BY <1>8 DEF Absent
    <2>2. d.id \in 1..built
      BY <1>1, <1>8 DEF SolverIn
    <2>3. d.id # n /\ d \in Solvers
      BY <1>6, <1>8, <2>2
    <2> QED
      BY <1>7, <2>1, <2>3 DEF Differing
  <1>10. Fitting(Append(room, new)) /\ Range(Append(room, new)) = Range(room) \cup {new}
    BY <1>5, <1>7, <1>9, FittingAppended
  <1> DEFINE a == Append(room, new)
             t == (timers \cap Cache!IdsOf(room)) \cup {n}
  <1>11. Cache!IdsOf(room) = Names(room)
    BY <1>8, NamesAre
  <1>12. ASSUME NEW e \in Range(a)
         PROVE  SolverIn(e, t, fired, n)
    <2>1. CASE e = new
      <3>1. n \in 1..n /\ n \notin fired
        BY <1>1, <1>6
      <3>2. key.model \in 1..2
        BY DEF Cache!Keys
      <3>3. w >= key.model
        BY <3>2
      <3> QED
        BY <1>7, <2>1, <3>1, <3>3 DEF SolverIn
    <2>2. CASE e \in Range(room)
      <3>1. /\ e.id \in 1..built /\ e.weights >= e.key.model
            /\ e.id \in timers \cup fired /\ (e.id \in fired => e.due)
        BY <1>1, <1>8, <2>2 DEF SolverIn
      <3>2. e.id \in Names(room) /\ e.id \in 1..n
        BY <1>6, <2>2, <3>1 DEF Names
      <3> QED
        BY <1>11, <3>1, <3>2 DEF SolverIn
    <2> QED
      BY <1>10, <2>1, <2>2
  <1>13. t \subseteq 1..n /\ fired \subseteq 1..n
    <2>1. n \in 1..n
      BY <1>6
    <2>2. timers \subseteq 1..n /\ fired \subseteq 1..n
      BY <1>1, <1>6
    <2> QED
      BY <2>1, <2>2
  <1>14. t \subseteq Names(a)
    BY <1>7, <1>10, <1>11 DEF Names
  <1>15. n \in 0..3
    BY <1>6
  <1> HIDE DEF a, t
  <1>16. Table(a, t, fired, n)
    BY <1>10, <1>12, <1>13, <1>14, <1>15 DEF Table, a
  <1> QED
    BY <1>7, <1>16 DEF a, t, n

LEMMA CaBuild ==
  ASSUME CaInv, Cache!Build
  PROVE  CaInv'
PROOF
  <1> DEFINE position == request.position
             space == Cache!Size(position)
             key == request.key
             w == loaded.weights
             room == Cache!Evicted(Cache!Without(entries, key), space)
             new == [id |-> built + 1, key |-> key, size |-> space, runners |-> position,
                     due |-> FALSE, weights |-> w]
  <1>1. /\ request.at = "build"
        /\ IF key = Cache!NoKey \/ space > 2
           THEN UNCHANGED <<entries, timers, built>>
           ELSE /\ entries' = Append(room, new)
                /\ timers' = (timers \cap Cache!IdsOf(room)) \cup {new.id}
                /\ built' = built + 1
        /\ told' = [weights |-> w, asked |-> request.asked]
        /\ request' = Cache!NoRequest
        /\ UNCHANGED <<file, loaded, fired, lost>>
    BY DEF Cache!Build
  <1>2. request # Cache!NoRequest
    BY <1>1 DEF Cache!NoRequest
  <1>3. Working(request, entries, built, file, w) /\ Table(entries, timers, fired, built)
    BY <1>2 DEF CaInv
  <1>4. /\ request \in Works /\ request.asked <= request.stat /\ request.stat <= w
        /\ \/ key = Cache!NoKey
           \/ /\ key \in Cache!Keys /\ built < 3
              /\ key.model = request.asked /\ Absent(key, entries)
    BY <1>1, <1>3 DEF Working
  <1>5. /\ request.asked \in 1..2 /\ request.stat \in 0..2 /\ position \in 0..2
        /\ w \in 0..2
    BY <1>4 DEF Works, CaInv
  <1>6. request.asked <= w /\ w \in 1..2 /\ request.asked \in 0..2
    <2>1. PICK x : x = w
      OBVIOUS
    <2>2. x \in 0..2 /\ request.stat <= x
      BY <1>4, <1>5, <2>1
    <2>3. request.asked <= x /\ x \in 1..2
      BY <1>4, <1>5, <2>2
    <2>4. request.asked \in 0..2
      BY <1>5
    <2> QED
      BY <2>1, <2>3, <2>4
  <1>7. told' \in [weights : 0..2, asked : 0..2] /\ told'.asked <= told'.weights
    <2>1. told'.asked = request.asked /\ told'.weights = w
      BY <1>1
    <2> QED
      BY <1>1, <1>5, <1>6, <2>1
  <1>8. Table(entries, timers, fired, built)'
    <2>1. CASE key = Cache!NoKey \/ space > 2
      BY <1>1, <1>3, <2>1
    <2>2. CASE ~(key = Cache!NoKey \/ space > 2)
      <3>1. /\ key \in Cache!Keys /\ built < 3 /\ Absent(key, entries)
            /\ key.model <= w
        BY <1>4, <1>6, <2>2
      <3>2. space \in Int
        BY <1>5 DEF Cache!Size
      <3>3. space <= 2
        BY <2>2, <3>2
      <3>4. PICK p, k, v : p = position /\ k = key /\ v = w
        OBVIOUS
      <3>5. PICK r : r = Cache!Evicted(Cache!Without(entries, k), Cache!Size(p))
        OBVIOUS
      <3>6. PICK n : n = [id |-> built + 1, key |-> k, size |-> Cache!Size(p), runners |-> p,
                          due |-> FALSE, weights |-> v]
        OBVIOUS
      <3>7. /\ k \in Cache!Keys /\ Absent(k, entries) /\ k.model <= v /\ v \in 1..2
            /\ p \in 0..2 /\ Cache!Size(p) <= 2
        BY <1>5, <1>6, <3>1, <3>3, <3>4
      <3>8. Table(Append(r, n), (timers \cap Cache!IdsOf(r)) \cup {n.id}, fired, built + 1)
        BY <1>3, <3>1, <3>5, <3>6, <3>7, CaPut
      <3>9. r = room /\ n = new
        BY <3>4, <3>5, <3>6
      <3> HIDE DEF room, new
      <3>10. entries' = Append(r, n) /\ timers' = (timers \cap Cache!IdsOf(r)) \cup {n.id}
             /\ built' = built + 1 /\ fired' = fired
        BY <1>1, <2>2, <3>9
      <3> QED
        BY <3>8, <3>10
    <2> QED
      BY <2>1, <2>2
  <1> QED
    BY <1>1, <1>7, <1>8 DEF CaInv

(* A solver that is found stays, as the most recently used one. *)
LEMMA CaHit ==
  ASSUME CaInv, NEW key, key.model = file, NEW position \in 0..2,
         Cache!With(Cache!Swept(key), key) # <<>>,
         Cache!AnswerFromCache(key, position),
         UNCHANGED <<file, loaded, fired, built, lost>>, request = Cache!NoRequest
  PROVE  CaInv'
PROOF
  <1>1. PICK swept, entry : swept = Cache!Swept(key) /\ entry = Cache!With(swept, key)[1]
    OBVIOUS
  <1>2. PICK left, used : left = Cache!Without(swept, key)
                          /\ used = [entry EXCEPT !.runners = position]
    OBVIOUS
  <1>3. PICK a : a = Append(left, used)
    OBVIOUS
  <1>4. /\ entries' = a /\ timers' = timers \cap Cache!IdsOf(a)
        /\ told' = [weights |-> entry.weights, asked |-> file]
        /\ request' = request
    BY <1>1, <1>2, <1>3 DEF Cache!AnswerFromCache, Cache!Keep
  <1>5. /\ Table(entries, timers, fired, built) /\ Fitting(entries) /\ file \in 1..2
        /\ \A e \in Range(entries) : SolverIn(e, timers, fired, built)
    BY DEF CaInv, Table
  <1>6. Fitting(swept) /\ Range(swept) \subseteq Range(entries)
    BY <1>1, <1>5, SweptFits
  <1>7. entry \in Range(swept) /\ entry.key = key
    <2>1. Cache!With(swept, key) # <<>>
      BY <1>1
    <2> QED
      BY <1>1, <1>6, <2>1, FoundIs
  <1>8. swept \in Seq(Solvers) /\ Pairwise(swept, Differing) /\ entry \in Solvers
    <2>1. swept \in Seq(Solvers) /\ Pairwise(swept, Differing)
      BY <1>6 DEF Fitting
    <2> QED
      BY <1>7, <2>1, NamesAre
  <1>9. /\ used \in Solvers /\ used.id = entry.id /\ used.key = entry.key
        /\ used.size = entry.size /\ used.due = entry.due /\ used.weights = entry.weights
    BY <1>2, <1>8 DEF Solvers, Cache!Entry
  <1>10. /\ Fitting(left) /\ Range(left) = {e \in Range(swept) : e.key # key}
         /\ Len(left) + 1 <= Len(swept)
         /\ Cache!Total(left) + entry.size <= Cache!Total(swept)
    BY <1>2, <1>6, <1>7, WithoutFits
  <1>11. Len(left) + 1 <= 2 /\ Cache!Total(left) + used.size <= 2
    <2>1. Len(swept) <= 2 /\ Cache!Total(swept) <= 2 /\ left \in Seq(Solvers)
      BY <1>6, <1>10 DEF Fitting
    <2>2. Cache!Total(left) \in Nat /\ Cache!Total(swept) \in Nat
      BY <1>8, <2>1, SolversSized, TotalNat
    <2>3. Len(left) \in Nat /\ Len(swept) \in Nat
      BY <1>8, <2>1, LenProperties
    <2>4. used.size \in Nat
      BY <1>9, SolversSized DEF Sized
    <2> QED
      BY <1>9, <1>10, <2>1, <2>2, <2>3, <2>4
  <1>12. ASSUME NEW d \in Range(left)
         PROVE  <<d, used>> \in Differing /\ <<used, d>> \in Differing
    <2>1. d \in Range(swept) /\ d # entry
      BY <1>7, <1>10
    <2>2. <<d, entry>> \in Differing
      BY <1>7, <1>8, <2>1, DifferingIn
    <2>3. d.id # entry.id /\ d.key.table # entry.key.table /\ d \in Solvers
      BY <2>2 DEF Differing
    <2> QED
      BY <1>9, <2>3 DEF Differing
  <1>13. Fitting(a) /\ Range(a) = Range(left) \cup {used}
    BY <1>3, <1>9, <1>10, <1>11, <1>12, FittingAppended
  <1>14. \A d \in Range(a) : \E e \in Range(entries) : Alike(d, e)
    BY <1>6, <1>7, <1>9, <1>10, <1>13 DEF Alike
  <1>15. \A d \in Range(a) : d.id \in fired => d.id \in fired
    OBVIOUS
  <1>16. Table(a, timers \cap Cache!IdsOf(a), fired, built)
    BY <1>5, <1>13, <1>14, <1>15, TableKept
  <1>17. told' \in [weights : 0..2, asked : 0..2] /\ told'.asked <= told'.weights
    <2>1. entry.weights >= file
      BY <1>5, <1>6, <1>7 DEF SolverIn
    <2>2. entry.weights \in 1..2
      BY <1>8 DEF Solvers, Cache!Entry
    <2>3. entry.weights \in 0..2 /\ file \in 0..2 /\ file <= entry.weights
      BY <1>5, <2>1, <2>2
    <2>4. told'.asked = file /\ told'.weights = entry.weights
      BY <1>4
    <2> QED
      BY <1>4, <2>3, <2>4
  <1>18. Table(entries, timers, fired, built)'
    BY <1>4, <1>16
  <1> QED
    BY <1>4, <1>17, <1>18 DEF CaInv

LEMMA CaMiss ==
  ASSUME CaInv, NEW key \in Cache!Keys, key.model = file, NEW position \in 0..2,
         Cache!Miss(key, position),
         UNCHANGED <<file, loaded, fired, built, lost>>
  PROVE  CaInv'
PROOF
  <1>1. PICK swept : swept = Cache!Swept(key)
    OBVIOUS
  <1>2. PICK a : a = Cache!Without(swept, key)
    OBVIOUS
  <1>3. PICK r : r = [at |-> "evaluator", key |-> key, position |-> position,
                      asked |-> file, stat |-> 0]
    OBVIOUS
  <1>4. /\ built < 3 /\ entries' = a /\ timers' = timers \cap Cache!IdsOf(a)
        /\ request' = r /\ told' = told
    BY <1>1, <1>2, <1>3 DEF Cache!Miss, Cache!Keep, Cache!Solve
  <1>5. /\ Table(entries, timers, fired, built) /\ Fitting(entries) /\ file \in 1..2
    BY DEF CaInv, Table
  <1>6. /\ Fitting(swept) /\ Range(swept) \subseteq Range(entries)
        /\ \A e \in Range(swept) : e.key.table = key.table => e.key = key
    BY <1>1, <1>5, SweptFits
  <1>7. Fitting(a) /\ Range(a) = {e \in Range(swept) : e.key # key}
    BY <1>2, <1>6, WithoutFits
  <1>8. \A d \in Range(a) : \E e \in Range(entries) : Alike(d, e)
    BY <1>6, <1>7 DEF Alike
  <1>9. \A d \in Range(a) : d.id \in fired => d.id \in fired
    OBVIOUS
  <1>10. Table(a, timers \cap Cache!IdsOf(a), fired, built)
    BY <1>5, <1>7, <1>8, <1>9, TableKept
  <1>11. Absent(key, a)
    BY <1>6, <1>7 DEF Absent
  <1>12. Working(r, a, built, file, loaded.weights)
    BY <1>3, <1>4, <1>5, <1>11, SolveWorks
  <1>13. Table(entries, timers, fired, built)'
    BY <1>4, <1>10
  <1>14. Working(request, entries, built, file, loaded.weights)'
    BY <1>4, <1>12
  <1> QED
    BY <1>4, <1>13, <1>14 DEF CaInv

LEMMA CaAsk ==
  ASSUME CaInv, NEW tbl \in Callers, NEW turn \in 1..2, NEW position \in 0..2, NEW known \in BOOLEAN,
         Cache!Ask(tbl, turn, position, known)
  PROVE  CaInv'
PROOF
  <1>1. PICK key : key = [table |-> tbl, turn |-> turn, model |-> file]
    OBVIOUS
  <1>2. file \in 1..2
    BY DEF CaInv
  <1>3. key \in Cache!Keys /\ key.model = file
    BY <1>1, <1>2 DEF Cache!Keys
  <1>4. /\ request = Cache!NoRequest
        /\ IF Cache!Hit(key, position, known) THEN Cache!AnswerFromCache(key, position)
                                              ELSE Cache!Miss(key, position)
        /\ UNCHANGED <<file, loaded, fired, built, lost>>
    BY <1>1 DEF Cache!Ask
  <1>5. CASE Cache!Hit(key, position, known)
    <2>1. Cache!With(Cache!Swept(key), key) # <<>>
      BY <1>5 DEF Cache!Hit
    <2> QED
      BY <1>3, <1>4, <1>5, <2>1, CaHit
  <1>6. CASE ~Cache!Hit(key, position, known)
    BY <1>3, <1>4, <1>6, CaMiss
  <1> QED
    BY <1>5, <1>6

LEMMA CaInductive ==
  ASSUME CaInv, Cache!Next
  PROVE  CaInv'
PROOF
  <1>1. CASE \E tbl \in Callers, turn \in 1..2, position \in 0..2, known \in BOOLEAN :
                Cache!Ask(tbl, turn, position, known)
    BY <1>1, CaAsk
  <1>2. CASE \E position \in 0..2 : Cache!AskOnce(position)
    BY <1>2, CaAskOnce
  <1>3. CASE Cache!FindEvaluator
    BY <1>3, CaFindEvaluator
  <1>4. CASE Cache!Load
    BY <1>4, CaLoad
  <1>5. CASE Cache!Raise
    BY <1>5, CaRaise
  <1>6. CASE Cache!Build
    BY <1>6, CaBuild
  <1>7. ASSUME NEW k \in 1..2, Cache!Lapse(k)
        PROVE  CaInv'
    BY <1>7, CaLapse
  <1>8. ASSUME NEW k \in 1..2, Cache!Fire(k)
        PROVE  CaInv'
    BY <1>8, CaFire
  <1>9. CASE \E id \in 1..3 : Cache!Expire(id)
    BY <1>9, CaExpire
  <1>10. CASE Cache!Replace
    BY <1>10, CaReplace
  <1> QED
    BY <1>1, <1>2, <1>3, <1>4, <1>5, <1>6, <1>7, <1>8, <1>9, <1>10 DEF Cache!Next

----------------------------------------------------------------------------
(* A behaviour is one of one service.                                      *)

ServicesInv ==
    /\ which \in {"coalescing", "batching", "local", "remote", "updated", "cache"}
    /\ which = "coalescing" => CoInv
    /\ which = "batching"   => BaInv
    /\ which = "local"      => LoInv
    /\ which = "remote"     => ReInv(2, 1)
    /\ which = "updated"    => ReInv(1, 2)
    /\ which = "cache"      => CaInv /\ caller = <<>>

LEMMA ServicesInvInit ==
  ServicesInit => ServicesInv
PROOF
  <1> SUFFICES ASSUME ServicesInit
               PROVE  ServicesInv
    OBVIOUS
  <1>1. CASE which = "cache" /\ Cache!Init /\ caller = <<>>
    BY <1>1, CaInit DEF ServicesInv
  <1>2. CASE which = "coalescing" /\ Coalescing!Init
    BY <1>2, CoInit DEF ServicesInv
  <1>3. CASE which = "batching" /\ Batching!Init
    BY <1>3, BaInit DEF ServicesInv
  <1>4. CASE which = "local" /\ Local!Init
    BY <1>4, LoInit DEF ServicesInv
  <1>5. CASE which = "remote" /\ Remote!Init
    BY <1>5, RemoteInit DEF ServicesInv
  <1>6. CASE which = "updated" /\ Updated!Init
    BY <1>6, UpdatedInit DEF ServicesInv
  <1> QED
    BY <1>1, <1>2, <1>3, <1>4, <1>5, <1>6 DEF ServicesInit, NoService

LEMMA ServicesSteps ==
  ASSUME ServicesNext
  PROVE  /\ which' = which
         /\ \/ which = "coalescing" /\ Coalescing!Next
            \/ which = "batching" /\ Batching!Next
            \/ which = "local" /\ Local!Next
            \/ which = "remote" /\ Remote!Next
            \/ which = "updated" /\ Updated!Next
            \/ which = "cache" /\ Cache!Next /\ UNCHANGED shared
BY DEF ServicesNext, Either, Step, notCoalescing, notBatching, notLocal, notRemote, notCache

LEMMA Everything ==
  ASSUME UNCHANGED everything
  PROVE  /\ which' = which /\ UNCHANGED shared /\ UNCHANGED coalescing /\ UNCHANGED batching
         /\ future' = future /\ UNCHANGED inference /\ UNCHANGED remote /\ UNCHANGED cache
PROOF
  <1>1. UNCHANGED <<shared, coalescing, notCoalescing>>
    BY DEF everything
  <1>2. UNCHANGED notCoalescing
    BY <1>1
  <1>3. UNCHANGED <<which, future, batching, inference, remote, cache>>
    BY <1>2 DEF notCoalescing
  <1> QED
    BY <1>1, <1>3

LEMMA ServicesInvStep ==
  ASSUME ServicesInv, [ServicesNext]_everything
  PROVE  ServicesInv'
PROOF
  <1>1. CASE UNCHANGED everything
    <2>1. /\ which' = which /\ UNCHANGED shared /\ UNCHANGED coalescing /\ UNCHANGED batching
          /\ future' = future /\ UNCHANGED inference /\ UNCHANGED remote /\ UNCHANGED cache
      BY <1>1, Everything
    <2>2. UNCHANGED <<queue, closed, closer, caller, round, size, got, server, batch, done, late>>
      <3>1. UNCHANGED <<queue, closed, closer, caller, round, size, got, server, batch>>
        BY <2>1 DEF shared
      <3>2. UNCHANGED <<done, late>>
        BY <2>1 DEF coalescing
      <3> QED
        BY <3>1, <3>2
    <2>3. UNCHANGED <<shared, batching, future>> /\ UNCHANGED <<shared, future, inference>>
          /\ UNCHANGED <<shared, future, inference, remote>>
      BY <2>1
    <2>4. CoInv => CoInv'
      BY <2>2, CoUnchanged
    <2>5. BaInv => BaInv'
      BY <2>3, BaUnchanged
    <2>6. LoInv => LoInv'
      BY <2>3, LoUnchanged
    <2>7. ReInv(2, 1) => ReInv(2, 1)'
      BY <2>3, ReUnchanged
    <2>8. ReInv(1, 2) => ReInv(1, 2)'
      BY <2>3, ReUnchanged
    <2>9. CaInv => CaInv'
      BY <2>1, CaUnchanged
    <2> QED
      BY <2>1, <2>2, <2>4, <2>5, <2>6, <2>7, <2>8, <2>9 DEF ServicesInv
  <1>2. CASE ServicesNext
    <2>1. which' = which
      BY <1>2, ServicesSteps
    <2>2. CASE which = "coalescing" /\ Coalescing!Next
      BY <2>1, <2>2, CoInductive DEF ServicesInv
    <2>3. CASE which = "batching" /\ Batching!Next
      BY <2>1, <2>3, BaInductive DEF ServicesInv
    <2>4. CASE which = "local" /\ Local!Next
      BY <2>1, <2>4, LoInductive DEF ServicesInv
    <2>5. CASE which = "remote" /\ Remote!Next
      BY <2>1, <2>5, RemoteInductive DEF ServicesInv
    <2>6. CASE which = "updated" /\ Updated!Next
      BY <2>1, <2>6, UpdatedInductive DEF ServicesInv
    <2>7. CASE which = "cache" /\ Cache!Next /\ UNCHANGED shared
      <3>1. caller' = caller
        BY <2>7 DEF shared
      <3> QED
        BY <2>1, <2>7, <3>1, CaInductive DEF ServicesInv
    <2> QED
      BY <1>2, <2>2, <2>3, <2>4, <2>5, <2>6, <2>7, ServicesSteps
  <1> QED
    BY <1>1, <1>2

LEMMA ServicesSafe ==
  ASSUME ServicesInv
  PROVE  ServicesTypeOK /\ NothingIsForgotten /\ StopEndsEveryCall /\ BarrierHolds
PROOF
  <1> USE DEF ServicesTypeOK, NothingIsForgotten, StopEndsEveryCall, BarrierHolds
  <1>1. CASE which = "coalescing"
    <2>1. Coalescing!TypeOK /\ Coalescing!EndsAfterServing
      BY <1>1, CoTypeOK DEF ServicesInv, CoInv
    <2> QED
      BY <1>1, <2>1
  <1>2. CASE which = "batching"
    <2>1. Batching!TypeOK /\ Batching!RowsAccounted
      BY <1>2, BaTypeOK DEF ServicesInv, BaInv
    <2> QED
      BY <1>2, <2>1
  <1>3. CASE which = "local"
    BY <1>3, LoSafe DEF ServicesInv
  <1>4. CASE which = "remote"
    BY <1>4, RemoteSafe DEF ServicesInv
  <1>5. CASE which = "updated"
    BY <1>5, UpdatedSafe DEF ServicesInv
  <1>6. CASE which = "cache"
    BY <1>6, CaSafe DEF ServicesInv
  <1> QED
    BY <1>1, <1>2, <1>3, <1>4, <1>5, <1>6 DEF ServicesInv

----------------------------------------------------------------------------
LEMMA PhasesSame ==
  ASSUME UNCHANGED <<which, caller, round, size, got>>
  PROVE  Phases' = Phases
PROOF
  <1>1. /\ which' = which /\ caller' = caller /\ round' = round /\ size' = size /\ got' = got
    OBVIOUS
  <1>2. \A c : PhaseIn(c)' = PhaseIn(c)
    BY <1>1 DEF PhaseIn, Coalescing!Phase, Batching!Phase, Local!Phase, Remote!Phase, Updated!Phase
  <1> QED
    BY <1>1, <1>2 DEF Phases

LEMMA ServicesPromiseStep ==
  ASSUME ServicesInv, ServicesInv', [ServicesNext]_everything
  PROVE  [Abstract!Next]_(Abstract!vars)
PROOF
  <1>1. CASE UNCHANGED everything
    <2>1. UNCHANGED <<which, caller, round, size, got>> /\ closed' = closed
      BY <1>1, Everything DEF shared
    <2>2. Phases' = Phases
      BY <2>1, PhasesSame
    <2> QED
      BY <2>1, <2>2, PromiseKept
  <1>2. CASE ServicesNext
    <2>1. which' = which
      BY <1>2, ServicesSteps
    <2>2. CASE which = "coalescing" /\ Coalescing!Next
      BY <2>1, <2>2, CoPromise DEF ServicesInv
    <2>3. CASE which = "batching" /\ Batching!Next
      BY <2>1, <2>3, BaPromise DEF ServicesInv
    <2>4. CASE which = "local" /\ Local!Next
      BY <2>1, <2>4, LoPromise DEF ServicesInv
    <2>5. CASE which = "remote" /\ Remote!Next
      <3>1. WiInv /\ WiInv'
        BY <2>1, <2>5 DEF ServicesInv, ReInv
      <3>2. Wide!Next
        BY <2>5, <3>1, ReCounts, RemoteIsWide
      <3>3. DOMAIN caller = One /\ DOMAIN caller' = One
        BY <3>1 DEF WiInv, InAll, InClients, ClTyped
      <3> QED
        BY <2>1, <2>5, <3>1, <3>2, <3>3, RemotePhases, WiPromise
    <2>6. CASE which = "updated" /\ Updated!Next
      <3>1. WiInv /\ WiInv'
        BY <2>1, <2>6 DEF ServicesInv, ReInv
      <3>2. Wide!Next
        BY <2>6, <3>1, ReCounts, UpdatedIsWide
      <3>3. DOMAIN caller = One /\ DOMAIN caller' = One
        BY <3>1 DEF WiInv, InAll, InClients, ClTyped
      <3> QED
        BY <2>1, <2>6, <3>1, <3>2, <3>3, UpdatedPhases, WiPromise
    <2>7. CASE which = "cache" /\ Cache!Next /\ UNCHANGED shared
      <3>1. UNCHANGED <<which, caller, round, size, got>> /\ closed' = closed
        BY <2>1, <2>7 DEF shared
      <3>2. Phases' = Phases
        BY <3>1, PhasesSame
      <3> QED
        BY <3>1, <3>2, PromiseKept
    <2> QED
      BY <1>2, <2>2, <2>3, <2>4, <2>5, <2>6, <2>7, ServicesSteps
  <1> QED
    BY <1>1, <1>2

LEMMA PromiseInit ==
  ServicesInit => Abstract!Init
PROOF
  <1> SUFFICES ASSUME ServicesInit
               PROVE  Abstract!Init
    OBVIOUS
  <1>1. ServicesInv
    BY ServicesInvInit
  <1>2. ASSUME NEW C, DOMAIN caller = C,
               \A c \in C : caller[c] = "idle" /\ round[c] = 0,
               \/ Phases = [c \in Callers |-> CoPhase(c)] /\ C = Callers
               \/ Phases = [c \in Callers |-> IF c \in C THEN InPhase(c) ELSE "none"]
        PROVE  Phases = [c \in Callers |-> "none"]
    <2>1. \A c \in C : CoPhase(c) = "none" /\ InPhase(c) = "none"
      BY <1>2 DEF CoPhase, InPhase, PhaseOf
    <2> QED
      BY <1>2, <2>1
  <1>3. closed = FALSE /\ Phases = [c \in Callers |-> "none"]
    <2>1. CASE which = "cache" /\ NoService
      <3>1. closed = FALSE /\ caller = <<>>
        BY <2>1 DEF NoService
      <3>2. DOMAIN caller = {}
        <4>1. <<>> \in Seq({}) /\ Len(<<>>) = 0
          BY EmptySeq
        <4>2. DOMAIN <<>> = 1..0
          BY <4>1, LenProperties
        <4> QED
          BY <3>1, <4>2
      <3> QED
        BY <3>1, <3>2 DEF Phases
    <2>2. CASE which = "coalescing" /\ Coalescing!Init
      <3>1. /\ closed = FALSE
            /\ DOMAIN caller = Callers /\ \A c \in Callers : caller[c] = "idle" /\ round[c] = 0
        BY <2>2 DEF Coalescing!Init
      <3>2. Phases = [c \in Callers |-> CoPhase(c)]
        BY <1>1, <2>2, CoPhases DEF ServicesInv, CoInv
      <3> QED
        BY <1>2, <3>1, <3>2
    <2>3. CASE which = "batching" /\ Batching!Init
      <3>1. /\ closed = FALSE
            /\ DOMAIN caller = Callers /\ \A c \in Callers : caller[c] = "idle" /\ round[c] = 0
        BY <2>3 DEF Batching!Init
      <3>2. Phases = [c \in Callers |-> CoPhase(c)]
        BY <1>1, <2>3, BaPhases DEF ServicesInv, BaInv
      <3> QED
        BY <1>2, <3>1, <3>2
    <2>4. CASE which = "local" /\ Local!Init
      <3>1. /\ closed = FALSE
            /\ DOMAIN caller = Callers /\ \A c \in Callers : caller[c] = "idle" /\ round[c] = 0
        BY <2>4 DEF Local!Init, Local!RequestsInit
      <3>2. Phases = [c \in Callers |-> IF c \in Callers THEN InPhase(c) ELSE "none"]
        BY <2>4, <3>1, LoPhases
      <3> QED
        BY <1>2, <3>1, <3>2
    <2>5. CASE which = "remote" /\ Remote!Init
      <3>1. /\ closed = FALSE
            /\ DOMAIN caller = One /\ \A c \in One : caller[c] = "idle" /\ round[c] = 0
        BY <2>5 DEF Remote!Init, Remote!RequestsInit
      <3>2. Phases = [c \in Callers |-> IF c \in One THEN InPhase(c) ELSE "none"]
        BY <2>5, <3>1, RemotePhases
      <3> QED
        BY <1>2, <3>1, <3>2
    <2>6. CASE which = "updated" /\ Updated!Init
      <3>1. /\ closed = FALSE
            /\ DOMAIN caller = One /\ \A c \in One : caller[c] = "idle" /\ round[c] = 0
        BY <2>6 DEF Updated!Init, Updated!RequestsInit
      <3>2. Phases = [c \in Callers |-> IF c \in One THEN InPhase(c) ELSE "none"]
        BY <2>6, <3>1, UpdatedPhases
      <3> QED
        BY <1>2, <3>1, <3>2
    <2> QED
      BY <2>1, <2>2, <2>3, <2>4, <2>5, <2>6 DEF ServicesInit
  <1> QED
    BY <1>3 DEF Abstract!Init, Phases

----------------------------------------------------------------------------
(* Each service keeps its invariant, whatever its threads do and whenever  *)
(* it is closed, stopped, given new weights or crashes.                    *)
THEOREM ServicesInductive == ServicesSpec => []ServicesInv
PROOF
  <1>1. ServicesInv /\ [ServicesNext]_everything => ServicesInv'
    BY ServicesInvStep
  <1> QED
    BY <1>1, ServicesInvInit, PTL DEF ServicesSpec

(* The variables of each service have their types, and its batches, queues *)
(* and tables stay within their bounds: no batch is longer than its limit, *)
(* and the solvers that are kept are at most as many, and together at most *)
(* as large, as the table may hold.                                        *)
THEOREM ServicesTyped == ServicesSpec => []ServicesTypeOK
PROOF
  <1>1. ServicesInv => ServicesTypeOK
    BY ServicesSafe
  <1> QED
    BY <1>1, ServicesInductive, PTL

(* The coalescing service ends only when it has served what was asked      *)
(* before it was closed, the batching one counts exactly the rows it       *)
(* holds, also after a batch that failed, no call that has ended leaves an *)
(* entry in the table of an inference service, and each turn solver has    *)
(* its timer, which takes out no other one.                                *)
THEOREM NothingForgotten == ServicesSpec => []NothingIsForgotten
PROOF
  <1>1. ServicesInv => NothingIsForgotten
    BY ServicesSafe
  <1> QED
    BY <1>1, ServicesInductive, PTL

(* When the client of an inference service has been stopped, no caller is  *)
(* left whom only his timeout can end.                                     *)
THEOREM StopEnds == ServicesSpec => []StopEndsEveryCall
PROOF
  <1>1. ServicesInv => StopEndsEveryCall
    BY ServicesSafe
  <1> QED
    BY <1>1, ServicesInductive, PTL

(* What wait_for_version has confirmed holds for each call that begins     *)
(* later, whichever thread the weights are with, and a turn is never       *)
(* solved under weights older than the checkpoint was when it was asked.   *)
THEOREM BarrierKept == ServicesSpec => []BarrierHolds
PROOF
  <1>1. ServicesInv => BarrierHolds
    BY ServicesSafe
  <1> QED
    BY <1>1, ServicesInductive, PTL

(* Every service does what the abstract one promises its callers: a call   *)
(* ends with the answers to its own rows or with an error, and waits only  *)
(* when it began before the service was closed.                            *)
THEOREM ServicesImplement == ServicesSpec => ServicesImplementTheirPromise
PROOF
  <1>1. ServicesInv /\ ServicesInv' /\ [ServicesNext]_everything => [Abstract!Next]_(Abstract!vars)
    BY ServicesPromiseStep
  <1>2. ServicesSpec => Abstract!Init /\ [][Abstract!Next]_(Abstract!vars)
    BY <1>1, PromiseInit, ServicesInductive, PTL DEF ServicesSpec
  <1> QED
    BY <1>2 DEF ServicesImplementTheirPromise, Abstract!Spec
===============================================================================
