------------------------- MODULE LeafSchedulersProofs -------------------------
(***************************************************************************)
(* Proofs about the two wave schedulers: types, answers that reach the     *)
(* search they are about, and slots that get their searches back, for any  *)
(* pool, batch size, requests and number of panics.                        *)
(***************************************************************************)
EXTENDS MCLeafSchedulers, FiniteSetTheorems, SequenceTheorems, WellFoundedInduction,
        TLAPS

(* A function on 1..n is a sequence of n elements.                         *)
LEMMA RowByRow ==
  ASSUME NEW S, NEW n \in Nat, NEW f \in [1..n -> S]
  PROVE  f \in Seq(S) /\ Len(f) = n
PROOF
  <1>1. f = [i \in 1..n |-> f[i]] /\ \A i \in 1..n : f[i] \in S
    OBVIOUS
  <1>2. [i \in 1..n |-> f[i]] \in Seq(S) /\ Len([i \in 1..n |-> f[i]]) = n
    BY <1>1
  <1> QED
    BY <1>1, <1>2

(* The first n numbers are n.                                              *)
LEMMA FirstNumbers ==
  ASSUME NEW n \in Nat
  PROVE  IsFiniteSet(1..n) /\ Cardinality(1..n) = n
PROOF
  <1>1. /\ IsFiniteSet(1..n)
        /\ Cardinality(1..n) = IF 1 > n THEN 0 ELSE n - 1 + 1
    BY FS_Interval
  <1> QED
    BY <1>1

(* In a finite set that below puts in order, every rank is that of one     *)
(* element.                                                                *)
LEMMA Ranks ==
  ASSUME NEW S, IsFiniteSet(S), NEW below \in [S -> SUBSET S],
         \A x \in S : x \in below[x],
         \A x, y \in S : x # y => \/ below[x] \subseteq below[y] /\ y \notin below[x]
                                  \/ below[y] \subseteq below[x] /\ x \notin below[y]
  PROVE  /\ Cardinality(S) \in Nat
         /\ \A x \in S : Cardinality(below[x]) \in 1..Cardinality(S)
         /\ \A x, y \in S : Cardinality(below[x]) = Cardinality(below[y]) => x = y
         /\ \A i \in 1..Cardinality(S) : \E x \in S : Cardinality(below[x]) = i
PROOF
  <1> DEFINE N == Cardinality(S)
             rank == [x \in S |-> Cardinality(below[x])]
  <1>1. N \in Nat
    BY FS_CardinalityType
  <1>2. ASSUME NEW x \in S
        PROVE  IsFiniteSet(below[x]) /\ Cardinality(below[x]) \in 1..N
    <2>1. IsFiniteSet(below[x]) /\ Cardinality(below[x]) <= N
      BY FS_Subset
    <2>2. Cardinality(below[x]) \in Nat
      BY <2>1, FS_CardinalityType
    <2>3. Cardinality(below[x]) # 0
      BY <2>1, FS_EmptySet
    <2> QED
      BY <1>1, <2>1, <2>2, <2>3
  <1>3. ASSUME NEW x \in S, NEW y \in S, below[x] \subseteq below[y], y \notin below[x]
        PROVE  Cardinality(below[x]) # Cardinality(below[y])
    <2>1. IsFiniteSet(below[y]) /\ below[x] # below[y]
      BY <1>2, <1>3
    <2> QED
      BY <2>1, <1>3, FS_Subset
  <1>4. \A x, y \in S : Cardinality(below[x]) = Cardinality(below[y]) => x = y
    BY <1>3
  <1>5. rank \in Injection(S, 1..N)
    BY <1>2, <1>4 DEF Injection, IsInjective
  <1>6. IsFiniteSet(1..N) /\ Cardinality(1..N) = N
    BY <1>1, FirstNumbers
  <1>7. rank \in Surjection(S, 1..N)
    BY <1>5, <1>6, FS_Injection
  <1>8. \A i \in 1..N : \E x \in S : rank[x] = i
    BY <1>7 DEF Surjection
  <1> QED
    BY <1>1, <1>2, <1>4, <1>8

(* Putting the requests of a wave in order loses none and doubles none.    *)
LEMMA RowOrder ==
  ASSUME NEW S, NEW p \in Seq(S), \A k \in DOMAIN p : p[k].of.row \in Nat
  PROVE  /\ InRowOrder(p) \in Seq(S) /\ Len(InRowOrder(p)) = Len(p)
         /\ \E o \in [DOMAIN p -> DOMAIN p] :
              /\ \A i \in DOMAIN p : InRowOrder(p)[i] = p[o[i]]
              /\ \A i, j \in DOMAIN p : o[i] = o[j] => i = j
              /\ \A k \in DOMAIN p : \E i \in DOMAIN p : o[i] = k
PROOF
  <1> DEFINE D == DOMAIN p
             below == [k \in D |-> Upto(p, k)]
             o == [i \in D |-> CHOOSE k \in D : Cardinality(Upto(p, k)) = i]
  <1>1. Len(p) \in Nat /\ D = 1..Len(p) /\ D \subseteq Int
    OBVIOUS
  <1>2. IsFiniteSet(D) /\ Cardinality(D) = Len(p)
    BY <1>1, FirstNumbers
  <1>3. below \in [D -> SUBSET D] /\ \A x \in D : x \in below[x]
    BY <1>1 DEF Upto
  <1>4. ASSUME NEW x \in D, NEW y \in D, x # y
        PROVE  \/ below[x] \subseteq below[y] /\ y \notin below[x]
               \/ below[y] \subseteq below[x] /\ x \notin below[y]
    <2> DEFINE a == p[x].of.row
               b == p[y].of.row
    <2>1. x \in Int /\ y \in Int /\ a \in Nat /\ b \in Nat
      BY <1>1
    <2>2. CASE a < b \/ (a = b /\ x < y)
      <3>1. y \notin Upto(p, x)
        BY <2>1, <2>2 DEF Upto
      <3>2. Upto(p, x) \subseteq Upto(p, y)
        BY <1>1, <2>1, <2>2 DEF Upto
      <3> QED
        BY <3>1, <3>2
    <2>3. CASE b < a \/ (a = b /\ y < x)
      <3>1. x \notin Upto(p, y)
        BY <2>1, <2>3 DEF Upto
      <3>2. Upto(p, y) \subseteq Upto(p, x)
        BY <1>1, <2>1, <2>3 DEF Upto
      <3> QED
        BY <3>1, <3>2
    <2> QED
      BY <2>1, <2>2, <2>3, <1>4
  <1>5. /\ \A k \in D : Cardinality(below[k]) \in 1..Len(p)
        /\ \A k, l \in D : Cardinality(below[k]) = Cardinality(below[l]) => k = l
        /\ \A i \in 1..Len(p) : \E k \in D : Cardinality(below[k]) = i
    <2> HIDE DEF D, below
    <2> QED
      BY <1>2, <1>3, <1>4, Ranks
  <1>6. \A i \in D : o[i] \in D /\ Cardinality(Upto(p, o[i])) = i
    BY <1>1, <1>5
  <1>7. o \in [D -> D] /\ \A i, j \in D : o[i] = o[j] => i = j
    BY <1>6
  <1>8. ASSUME NEW k \in D PROVE \E i \in D : o[i] = k
    <2>1. Cardinality(Upto(p, k)) \in D
      BY <1>1, <1>5
    <2> QED
      BY <2>1, <1>5, <1>6
  <1>9. \A i \in D : InRowOrder(p)[i] = p[o[i]]
    BY DEF InRowOrder
  <1>10. InRowOrder(p) = [i \in 1..Len(p) |-> p[o[i]]]
    BY <1>1 DEF InRowOrder
  <1>11. \A i \in 1..Len(p) : p[o[i]] \in S
    BY <1>1, <1>7
  <1>12. InRowOrder(p) \in Seq(S) /\ Len(InRowOrder(p)) = Len(p)
    <2> HIDE DEF o
    <2> QED
      BY <1>1, <1>10, <1>11
  <1> QED
    BY <1>7, <1>8, <1>9, <1>12

(* The chunk and what is left of the wave.                                 *)
LEMMA Cut ==
  ASSUME NEW S, NEW p \in Seq(S)
  PROVE  \E c \in 0..Len(p) :
           /\ FirstChunk(p) \in Seq(S) /\ Len(FirstChunk(p)) = c
           /\ \A k \in 1..c : FirstChunk(p)[k] = p[k]
           /\ OtherChunks(p) \in Seq(S) /\ Len(OtherChunks(p)) = Len(p) - c
           /\ \A k \in 1..(Len(p) - c) : OtherChunks(p)[k] = p[c + k]
PROOF
  <1> DEFINE c == IF Len(p) < MaxBatch THEN Len(p) ELSE MaxBatch
  <1>1. MaxBatch \in Nat /\ Len(p) \in Nat /\ c \in 0..Len(p)
    BY BatchAssumption
  <1>2. FirstChunk(p) = SubSeq(p, 1, c)
    BY DEF FirstChunk
  <1>3. /\ FirstChunk(p) \in Seq(S) /\ Len(FirstChunk(p)) = c
        /\ \A k \in 1..c : FirstChunk(p)[k] = p[k]
    <2> HIDE DEF c
    <2> QED
      BY <1>1, <1>2
  <1>4. OtherChunks(p) = SubSeq(p, c + 1, Len(p))
    BY <1>3 DEF OtherChunks
  <1>5. /\ OtherChunks(p) \in Seq(S) /\ Len(OtherChunks(p)) = Len(p) - c
        /\ \A k \in 1..(Len(p) - c) : OtherChunks(p)[k] = p[c + k]
    <2> HIDE DEF c
    <2> QED
      BY <1>1, <1>4
  <1> HIDE DEF c
  <1> QED
    BY <1>1, <1>3, <1>5

(* In whatever order the evaluator answers, an answer is about the request *)
(* whose id it bears.                                                      *)
LEMMA AnsweredById ==
  ASSUME NEW S, NEW chunk \in Seq(S), NEW order \in Orders(chunk), NEW k \in DOMAIN chunk
  PROVE  Answered(chunk, k, order) = chunk[k].of
PROOF
  <1> DEFINE D == DOMAIN chunk
  <1>1. Len(chunk) \in Nat /\ D = 1..Len(chunk)
    OBVIOUS
  <1>2. IsFiniteSet(D) /\ Cardinality(D) = Len(chunk)
    BY <1>1, FirstNumbers
  <1>3. order \in [D -> D] /\ \A i, j \in D : i # j => order[i] # order[j]
    BY <1>1, <1>2 DEF Orders, SetToSeqs
  <1>4. order \in Injection(D, D)
    BY <1>3 DEF Injection, IsInjective
  <1>5. order \in Surjection(D, D)
    BY <1>2, <1>4, FS_Injection
  <1>6. \E i \in D : order[i] = k
    BY <1>5 DEF Surjection
  <1>7. DOMAIN order = D
    BY <1>3
  <1>8. order[CHOOSE i \in DOMAIN order : order[i] = k] = k
    BY <1>6, <1>7
  <1> QED
    BY <1>8 DEF Answered

By(m) == IF m.type = "request" THEN m.of.row ELSE m.row
Over(r) == \E f \in finished : f.row = r
Running == {r \in Rows : ~Over(r)}

(* Where a thread stands that has asked for of. *)
Suspended(of) ==
    /\ of.row \in Rows /\ threads[of.row] = "waiting"
    /\ of.left = left[of.row] /\ replies[of.row] = <<>>

(* ... or what it has said. *)
Said(m) ==
    IF m.type = "request" THEN Suspended(m.of)
    ELSE m.row \in Rows /\ ~Over(m.row) /\ threads[m.row] = "ended"

ThreadMessages ==
    /\ \A i \in DOMAIN messages : Said(messages[i])
    /\ \A i, j \in DOMAIN messages : By(messages[i]) = By(messages[j]) => i = j
    /\ \A i \in DOMAIN messages, k \in DOMAIN pending :
         By(messages[i]) # pending[k].of.row
ThreadRequests ==
    /\ \A k \in DOMAIN pending : Suspended(pending[k].of)
    /\ \A k, l \in DOMAIN pending :
         pending[k].of.row = pending[l].of.row => k = l
ThreadsOver ==
    /\ \A f \in finished : threads[f.row] = "ended"
    /\ live = Cardinality(Running)
ThreadPhases ==
    /\ pc = "idle" => messages = <<>> /\ \A r \in Rows : threads[r] = "ended"
    /\ pc = "restoring" => live = 0
    /\ \A s \in Slots : searches[s] = "taken" => pc # "idle" /\ \E r \in Rows : slots[r] = s

RustInv == /\ Rust!TypeOK /\ ThreadMessages /\ ThreadRequests /\ ThreadsOver
           /\ ThreadPhases /\ Rust!OneOwnReply

(* Where the thread of row r has no message on its way and no request that *)
(* waits for an evaluation.                                                *)
LEMMA SearchingIsSilent ==
  ASSUME RustInv, NEW r \in Rows, threads[r] = "searching" \/ replies[r] # <<>>
  PROVE  /\ \A i \in DOMAIN messages : By(messages[i]) # r
         /\ \A k \in DOMAIN pending : pending[k].of.row # r
         /\ ~Over(r)
PROOF
  <1>1. threads[r] # "ended"
    BY DEF RustInv, Rust!OneOwnReply, Rust!Rows, Rows
  <1> QED
    BY <1>1 DEF RustInv, ThreadMessages, ThreadRequests, ThreadsOver, Said, Suspended, By, Over

(* A thread whose turn it is says one thing, and waits or ends. *)
LEMMA ThreadSpeaks ==
  ASSUME RustInv, NEW r \in Rows, threads[r] = "searching" \/ replies[r] # <<>>,
         NEW m \in Rust!Messages, By(m) = r,
         NEW t \in {"waiting", "ended"}, NEW l \in 0..MaxEvals,
         IF m.type = "request" THEN t = "waiting" /\ m.of.left = l ELSE t = "ended",
         messages' = Append(messages, m),
         threads' = [threads EXCEPT ![r] = t],
         left' = [left EXCEPT ![r] = l],
         replies' = [replies EXCEPT ![r] = <<>>],
         UNCHANGED <<searches, slots, needs, pc, live, pending, failed, finished,
                     result, plays, calls>>
  PROVE  RustInv'
PROOF
  <1> USE DEF Rows, Rust!Rows
  <1> DEFINE n == Len(messages)
  <1>1. /\ Rust!TypeOK /\ ThreadMessages /\ ThreadRequests /\ ThreadsOver
        /\ ThreadPhases /\ Rust!OneOwnReply
    BY DEF RustInv
  <1>2. /\ left \in [Rows -> 0..MaxEvals]
        /\ threads \in [Rows -> {"searching", "waiting", "ended"}]
        /\ replies \in [Rows -> Seq([to : Rows, ok : BOOLEAN, of : Rust!Asked])]
        /\ messages \in Seq(Rust!Messages)
    BY <1>1 DEF Rust!TypeOK
  <1>3. /\ n \in Nat /\ DOMAIN messages = 1..n
        /\ DOMAIN messages' = 1..(n + 1) /\ messages'[n + 1] = m
        /\ \A i \in 1..n : messages'[i] = messages[i]
        /\ messages' \in Seq(Rust!Messages)
    BY <1>2
  <1>4. /\ \A i \in DOMAIN messages : By(messages[i]) # r
        /\ \A k \in DOMAIN pending : pending[k].of.row # r
        /\ ~Over(r)
    BY SearchingIsSilent
  <1>5. threads[r] # "ended"
    BY <1>1 DEF Rust!OneOwnReply
  <1>6. Rust!TypeOK'
    <2>1. /\ left' \in [Rows' -> 0..MaxEvals]
          /\ threads' \in [Rows' -> {"searching", "waiting", "ended"}]
      BY <1>2
    <2>2. replies' \in [Rows' -> Seq([to : Rows', ok : BOOLEAN, of : Rust!Asked])]
      <3> DEFINE R == [to : Rows, ok : BOOLEAN, of : Rust!Asked]
      <3>1. replies \in [Rows -> Seq(R)]
        BY <1>2
      <3> HIDE DEF R
      <3>2. replies' \in [Rows -> Seq(R)]
        <4>1. <<>> \in Seq(R)
          OBVIOUS
        <4> QED
          BY <3>1, <4>1
      <3> QED
        BY <3>2 DEF R
    <2> QED
      BY <1>1, <1>3, <2>1, <2>2 DEF Rust!TypeOK
  <1>7. \A o : Suspended(o) /\ o.row # r => Suspended(o)'
    BY <1>2 DEF Suspended
  <1>8. \A x : Said(x) /\ By(x) # r => Said(x)'
    BY <1>2, <1>7 DEF Said, By, Over
  <1>9. Said(m)'
    BY <1>2, <1>4 DEF Said, By, Over, Suspended
  <1>10. \A i \in 1..(n + 1) : i = n + 1 \/ i \in 1..n
    BY <1>3
  <1>11. ThreadMessages'
    <2>1. ASSUME NEW i \in DOMAIN messages'
          PROVE  Said(messages[i])'
      <3>1. CASE i = n + 1
        BY <3>1, <1>3, <1>9 DEF Said, Suspended, Over
      <3>2. CASE i \in 1..n
        <4>1. PICK x : x = messages[i]
          OBVIOUS
        <4>2. x = messages'[i] /\ Said(x) /\ By(x) # r
          BY <3>2, <4>1, <1>1, <1>3, <1>4 DEF ThreadMessages
        <4> QED
          BY <4>2, <1>8 DEF Said, Suspended, Over
      <3> QED
        BY <1>3, <1>10, <3>1, <3>2
    <2>2. \A i, j \in DOMAIN messages' : By(messages'[i]) = By(messages'[j]) => i = j
      BY <1>1, <1>3, <1>4, <1>10 DEF ThreadMessages
    <2>3. \A i \in DOMAIN messages', k \in DOMAIN pending' :
            By(messages'[i]) # pending'[k].of.row
      BY <1>1, <1>3, <1>4, <1>10 DEF ThreadMessages
    <2> QED
      BY <2>1, <2>2, <2>3 DEF ThreadMessages, By
  <1>12. ThreadRequests'
    BY <1>1, <1>4, <1>7 DEF ThreadRequests, Suspended
  <1>13. ThreadsOver'
    BY <1>1, <1>2, <1>4 DEF ThreadsOver, Over, Running
  <1>14. ThreadPhases'
    BY <1>1, <1>5 DEF ThreadPhases
  <1>15. Rust!OneOwnReply'
    BY <1>1, <1>2 DEF Rust!OneOwnReply
  <1> QED
    BY <1>6, <1>11, <1>12, <1>13, <1>14, <1>15 DEF RustInv

(* A sequence of one element is its head.                                  *)
LEMMA OnlyOne ==
  ASSUME NEW S, NEW s \in Seq(S), Len(s) = 1
  PROVE  Tail(s) = <<>>
PROOF
  <1>1. s # <<>>
    OBVIOUS
  <1>2. Tail(s) \in Seq(S) /\ Len(Tail(s)) = 0
    BY <1>1
  <1> QED
    BY <1>2, EmptySeq

(* Every step of a thread: it asks, ends, or takes the reply it waits for. *)
LEMMA ThreadKeepsInv ==
  ASSUME RustInv, NEW r \in Rows, Rust!Thread(r)
  PROVE  RustInv'
PROOF
  <1> USE DEF Rows, Rust!Rows, Rust!call, Rust!wave
  <1>1. /\ left \in [Rows -> 0..MaxEvals] /\ left[r] \in 0..MaxEvals
        /\ MaxEvals \in Nat /\ r \in Nat
        /\ threads \in [Rows -> {"searching", "waiting", "ended"}]
        /\ replies \in [Rows -> Seq([to : Rows, ok : BOOLEAN, of : Rust!Asked])]
        /\ Rust!OneOwnReply
    <2>1. Rust!TypeOK /\ Rust!OneOwnReply
      BY DEF RustInv
    <2>2. slots \in Seq(Slots) /\ r \in Nat
      BY <2>1 DEF Rust!TypeOK
    <2> QED
      BY <2>1, <2>2, BatchAssumption DEF Rust!TypeOK
  <1>2. threads[r] # "waiting" => replies[r] = <<>>
    BY <1>1 DEF Rust!OneOwnReply
  <1>3. replies[r] = <<>> => replies = [replies EXCEPT ![r] = <<>>]
    BY <1>1
  <1>4. left = [left EXCEPT ![r] = left[r]]
    BY <1>1
  <1>5. CASE Rust!Ask(r)
    <2> DEFINE of == [row |-> r, left |-> left[r] - 1]
               m  == [type |-> "request", of |-> of]
    <2>1. /\ threads[r] = "searching" /\ left[r] - 1 \in 0..MaxEvals
          /\ left' = [left EXCEPT ![r] = left[r] - 1]
          /\ threads' = [threads EXCEPT ![r] = "waiting"]
          /\ replies' = replies
          /\ UNCHANGED <<searches, slots, needs, pc, live, pending, failed,
                         finished, result, plays, calls>>
      BY <1>1, <1>5 DEF Rust!Ask
    <2>2. left'[r] = left[r] - 1
      BY <1>1, <2>1
    <2>3. messages' = Append(messages, m)
      BY <1>5, <2>2 DEF Rust!Ask, Rust!Says
    <2>4. /\ m \in Rust!Messages /\ By(m) = r
          /\ m.type = "request" /\ m.of.left = left[r] - 1
      BY <1>1, <2>1 DEF Rust!Messages, Rust!Asked, By
    <2>5. replies' = [replies EXCEPT ![r] = <<>>]
      BY <1>2, <1>3, <2>1
    <2> HIDE DEF m
    <2> QED
      BY <2>1, <2>3, <2>4, <2>5, ThreadSpeaks
  <1>6. ASSUME NEW ok \in BOOLEAN, Rust!End(r, ok)
        PROVE  RustInv'
    <2> DEFINE m == [type |-> "finished", row |-> r, ok |-> ok]
    <2>1. /\ threads[r] = "searching" /\ messages' = Append(messages, m)
          /\ threads' = [threads EXCEPT ![r] = "ended"]
          /\ left' = left /\ replies' = replies
          /\ UNCHANGED <<searches, slots, needs, pc, live, pending, failed,
                         finished, result, plays, calls>>
      BY <1>6 DEF Rust!End, Rust!Says
    <2>2. m \in Rust!Messages /\ By(m) = r /\ m.type # "request"
      BY <1>1 DEF Rust!Messages, By
    <2>3. left' = [left EXCEPT ![r] = left[r]] /\ replies' = [replies EXCEPT ![r] = <<>>]
      BY <1>2, <1>3, <1>4, <2>1
    <2> HIDE DEF m
    <2> QED
      BY <1>1, <2>1, <2>2, <2>3, ThreadSpeaks
  <1>7. CASE Rust!GiveUp(r)
    <2> DEFINE m == [type |-> "finished", row |-> r, ok |-> FALSE]
    <2>1. /\ replies[r] # <<>> /\ messages' = Append(messages, m)
          /\ threads' = [threads EXCEPT ![r] = "ended"]
          /\ left' = left /\ replies' = [replies EXCEPT ![r] = Tail(replies[r])]
          /\ UNCHANGED <<searches, slots, needs, pc, live, pending, failed,
                         finished, result, plays, calls>>
      BY <1>7 DEF Rust!GiveUp, Rust!Says, Rust!Taken
    <2>2. m \in Rust!Messages /\ By(m) = r /\ m.type # "request"
      BY <1>1 DEF Rust!Messages, By
    <2>3. Tail(replies[r]) = <<>>
      BY <1>1, <2>1, OnlyOne DEF Rust!OneOwnReply
    <2>4. left' = [left EXCEPT ![r] = left[r]] /\ replies' = [replies EXCEPT ![r] = <<>>]
      BY <1>4, <2>1, <2>3
    <2> HIDE DEF m
    <2> QED
      BY <1>1, <2>1, <2>2, <2>4, ThreadSpeaks
  <1>8. CASE Rust!Resume(r)
    <2>1. /\ threads[r] = "waiting" /\ replies[r] # <<>>
          /\ replies' = [replies EXCEPT ![r] = Tail(replies[r])]
          /\ threads' = [threads EXCEPT ![r] = "searching"]
          /\ UNCHANGED <<searches, slots, needs, pc, messages, live, pending,
                         failed, finished, result, left, plays, calls>>
      BY <1>8 DEF Rust!Resume, Rust!Taken
    <2>2. Tail(replies[r]) = <<>>
      BY <1>1, <2>1, OnlyOne DEF Rust!OneOwnReply
    <2>3. replies' = [replies EXCEPT ![r] = <<>>]
      BY <2>1, <2>2
    <2>4. /\ \A i \in DOMAIN messages : By(messages[i]) # r
          /\ \A k \in DOMAIN pending : pending[k].of.row # r
          /\ ~Over(r)
      BY <2>1, SearchingIsSilent
    <2>5. /\ Rust!TypeOK /\ ThreadMessages /\ ThreadRequests /\ ThreadsOver
          /\ ThreadPhases /\ Rust!OneOwnReply
      BY DEF RustInv
    <2>6. Rust!TypeOK'
      <3> DEFINE R == [to : Rows, ok : BOOLEAN, of : Rust!Asked]
      <3>1. threads' \in [Rows' -> {"searching", "waiting", "ended"}]
        BY <1>1, <2>1
      <3>2. replies \in [Rows -> Seq(R)]
        BY <1>1
      <3> HIDE DEF R
      <3>3. replies' \in [Rows -> Seq(R)]
        <4>1. <<>> \in Seq(R)
          OBVIOUS
        <4> QED
          BY <2>3, <3>2, <4>1
      <3>4. replies' \in [Rows' -> Seq([to : Rows', ok : BOOLEAN, of : Rust!Asked])]
        BY <2>1, <3>3 DEF R
      <3> QED
        BY <2>1, <2>5, <3>1, <3>4 DEF Rust!TypeOK
    <2>7. \A o : Suspended(o) /\ o.row # r => Suspended(o)'
      BY <1>1, <2>1 DEF Suspended
    <2>8. \A x : Said(x) /\ By(x) # r => Said(x)'
      BY <1>1, <2>1, <2>7 DEF Said, By, Over
    <2>9. ThreadMessages'
      BY <2>1, <2>4, <2>5, <2>8 DEF ThreadMessages, Said, Suspended, Over, By
    <2>10. ThreadRequests'
      BY <2>1, <2>4, <2>5, <2>7 DEF ThreadRequests, Suspended
    <2>11. ThreadsOver'
      BY <1>1, <2>1, <2>4, <2>5 DEF ThreadsOver, Over, Running
    <2>12. ThreadPhases'
      BY <2>1, <2>5 DEF ThreadPhases
    <2>13. Rust!OneOwnReply'
      BY <1>1, <2>1, <2>3, <2>5 DEF Rust!OneOwnReply
    <2> QED
      BY <2>6, <2>9, <2>10, <2>11, <2>12, <2>13 DEF RustInv
  <1> QED
    BY <1>5, <1>6, <1>7, <1>8 DEF Rust!Thread

(* The two instances cut a wave and route its answers alike. *)
LEMMA SameBatches ==
  /\ \A p : Rust!FirstChunk(p) = FirstChunk(p) /\ Rust!OtherChunks(p) = OtherChunks(p)
  /\ \A p : Rust!InRowOrder(p) = InRowOrder(p)
  /\ \A p, k, order : Rust!Answered(p, k, order) = Answered(p, k, order)
  /\ \A p : Rust!Orders(p) = Orders(p)
PROOF
  <1>1. \A p : Rust!FirstChunk(p) = FirstChunk(p)
    BY DEF Rust!FirstChunk, FirstChunk
  <1>2. \A p : Rust!OtherChunks(p) = OtherChunks(p)
    BY <1>1 DEF Rust!OtherChunks, OtherChunks
  <1>4. \A p : Rust!InRowOrder(p) = InRowOrder(p)
    BY DEF Rust!InRowOrder, InRowOrder, Rust!Upto, Upto, Rust!Cardinality,
           Cardinality, Rust!IsFiniteSet, IsFiniteSet
  <1>5. \A p, k, order : Rust!Answered(p, k, order) = Answered(p, k, order)
    BY DEF Rust!Answered, Answered
  <1>6. \A p : Rust!Orders(p) = Orders(p)
    BY DEF Rust!Orders, Orders, Rust!SetToSeqs, SetToSeqs, Rust!Cardinality,
           Cardinality, Rust!IsFiniteSet, IsFiniteSet
  <1> QED
    BY <1>1, <1>2, <1>4, <1>5, <1>6

(* Every row of a chunk gets its reply. *)
LEMMA ChunkReplied ==
  ASSUME RustInv, pc = "evaluating", NEW ok \in BOOLEAN,
         Rust!Reply([k \in DOMAIN Rust!Chunk |->
           [to |-> Rust!Chunk[k].of.row, ok |-> ok, of |-> Rust!Chunk[k].of]]),
         Rust!NextChunk, failed' \in BOOLEAN,
         calls' \in Seq(Seq(Nat)),
         UNCHANGED <<searches, slots, needs, messages, live, finished, result,
                     threads, left, plays>>
  PROVE  RustInv'
PROOF
  <1> USE DEF Rows, Rust!Rows
  <1> DEFINE P == [of : Rust!Asked]
             chunk == FirstChunk(pending)
             answers == [k \in DOMAIN chunk |->
               [to |-> chunk[k].of.row, ok |-> ok, of |-> chunk[k].of]]
             R == [to : Rows, ok : BOOLEAN, of : Rust!Asked]
             n == Len(pending)
  <1>1. /\ Rust!TypeOK /\ ThreadMessages /\ ThreadRequests /\ ThreadsOver
        /\ ThreadPhases /\ Rust!OneOwnReply
    BY DEF RustInv
  <1>2. /\ pending \in Seq(P) /\ replies \in [Rows -> Seq(R)]
        /\ n \in Nat /\ DOMAIN pending = 1..n /\ live \in 0..Len(slots)
    <2>1. pending \in Seq(P) /\ replies \in [Rows -> Seq(R)] /\ live \in 0..Len(slots)
      BY <1>1 DEF Rust!TypeOK
    <2> HIDE DEF P, R
    <2> QED
      BY <2>1
  <1>3. PICK c \in 0..n :
          /\ chunk \in Seq(P) /\ Len(chunk) = c
          /\ \A k \in 1..c : chunk[k] = pending[k]
          /\ OtherChunks(pending) \in Seq(P) /\ Len(OtherChunks(pending)) = n - c
          /\ \A k \in 1..(n - c) : OtherChunks(pending)[k] = pending[c + k]
    <2> HIDE DEF P
    <2> QED
      BY <1>2, Cut
  <1>4. Rust!Chunk = chunk /\ pending' = OtherChunks(pending)
    BY SameBatches DEF Rust!Chunk, Rust!NextChunk
  <1>5. DOMAIN chunk = 1..c /\ \A k \in 1..c : chunk[k] = pending[k] /\ k \in 1..n
    BY <1>2, <1>3
  <1>6. \A k \in 1..n : /\ pending[k].of \in Rust!Asked /\ Suspended(pending[k].of)
                        /\ pending[k].of.row \in Rows
    <2>1. \A k \in 1..n : pending[k] \in P
      <3> HIDE DEF P
      <3> QED
        BY <1>2
    <2> QED
      BY <1>1, <1>2, <2>1 DEF ThreadRequests, Suspended
  <1>7. /\ DOMAIN answers = 1..c
        /\ \A k \in 1..c : /\ answers[k] \in R /\ answers[k].to = pending[k].of.row
                           /\ answers[k].of = pending[k].of
    BY <1>5, <1>6
  <1>8. replies' = [r \in Rows |->
          LET mine == {k \in DOMAIN answers : answers[k].to = r}
          IN  IF mine = {} THEN replies[r]
              ELSE Append(replies[r], answers[CHOOSE k \in mine : TRUE])]
    BY <1>4 DEF Rust!Reply
  <1> HIDE DEF answers, R, P, chunk
  <1>9. ASSUME NEW r \in Rows, \A k \in 1..c : pending[k].of.row # r
        PROVE  replies'[r] = replies[r]
    BY <1>7, <1>8, <1>9
  <1>10. ASSUME NEW j \in 1..c
         PROVE  replies'[pending[j].of.row] = <<answers[j]>>
    <2> DEFINE r == pending[j].of.row
               mine == {k \in DOMAIN answers : answers[k].to = r}
    <2>1. r \in Rows /\ replies[r] = <<>>
      BY <1>5, <1>6 DEF Suspended
    <2>2. mine = {j}
      BY <1>1, <1>2, <1>5, <1>7 DEF ThreadRequests
    <2>3. (CHOOSE k \in mine : TRUE) = j
      BY <2>2
    <2>4. replies'[r] = Append(replies[r], answers[j])
      BY <1>8, <2>1, <2>2, <2>3
    <2> QED
      BY <2>1, <2>4
  <1>11. replies' \in [Rows -> Seq(R)]
    <2>1. ASSUME NEW r \in Rows PROVE replies'[r] \in Seq(R)
      <3>1. CASE \A k \in 1..c : pending[k].of.row # r
        BY <1>2, <1>9, <3>1
      <3>2. CASE \E k \in 1..c : pending[k].of.row = r
        <4>1. PICK k \in 1..c : pending[k].of.row = r
          BY <3>2
        <4>2. <<answers[k]>> \in Seq(R)
          BY <1>7
        <4> QED
          BY <1>10, <4>1, <4>2
      <3> QED
        BY <3>1, <3>2
    <2> QED
      BY <1>8, <2>1
  <1>12. \A k \in DOMAIN pending' : /\ c + k \in 1..n /\ pending'[k] = pending[c + k]
                                    /\ \A j \in 1..c : j # c + k
    BY <1>2, <1>3, <1>4
  <1>13. Rust!TypeOK'
    <2>1. pending' \in Seq(P) /\ Len(pending') <= live'
      BY <1>1, <1>2, <1>3, <1>4 DEF Rust!TypeOK
    <2>2. replies' \in [Rows' -> Seq([to : Rows', ok : BOOLEAN, of : Rust!Asked])]
      BY <1>11 DEF R
    <2>3. pc' \in {"idle", "collecting", "evaluating", "restoring"}
      BY DEF Rust!NextChunk
    <2> QED
      BY <1>1, <2>1, <2>2, <2>3 DEF Rust!TypeOK, P
  <1>14. ASSUME NEW o, Suspended(o), \A k \in 1..c : pending[k].of.row # o.row
         PROVE  Suspended(o)'
    BY <1>9, <1>14 DEF Suspended
  <1>15. ThreadMessages'
    <2>1. \A i \in DOMAIN messages, k \in 1..c : pending[k].of.row # By(messages[i])
      BY <1>1, <1>2, <1>5 DEF ThreadMessages
    <2>2. ASSUME NEW i \in DOMAIN messages PROVE Said(messages[i])'
      <3>1. PICK x : x = messages[i]
        OBVIOUS
      <3>2. Said(x) /\ \A k \in 1..c : pending[k].of.row # By(x)
        BY <1>1, <2>1, <3>1 DEF ThreadMessages
      <3>3. Said(x)'
        BY <1>14, <3>2 DEF Said, By, Over
      <3> QED
        BY <3>1, <3>3 DEF Said, Suspended, Over
    <2>3. \A i \in DOMAIN messages, k \in DOMAIN pending' :
            By(messages[i]) # pending'[k].of.row
      BY <1>1, <1>2, <1>12 DEF ThreadMessages
    <2> QED
      BY <1>1, <2>2, <2>3 DEF ThreadMessages, By
  <1>16. ThreadRequests'
    <2>1. ASSUME NEW k \in DOMAIN pending' PROVE Suspended(pending[k].of)'
      <3>1. PICK x : x = pending[c + k].of
        OBVIOUS
      <3>2. Suspended(x) /\ \A j \in 1..c : pending[j].of.row # x.row
        BY <1>1, <1>2, <1>5, <1>6, <1>12, <3>1 DEF ThreadRequests
      <3>3. Suspended(x)'
        BY <1>14, <3>2
      <3> QED
        BY <1>12, <3>1, <3>3 DEF Suspended
    <2>2. ASSUME NEW k \in DOMAIN pending', NEW l \in DOMAIN pending',
                 pending'[k].of.row = pending'[l].of.row
          PROVE  k = l
      <3>1. c + k = c + l
        BY <1>1, <1>2, <1>12, <2>2 DEF ThreadRequests
      <3>2. k \in Int /\ l \in Int
        BY <1>3, <1>4
      <3> QED
        BY <3>1, <3>2
    <2> QED
      BY <2>1, <2>2 DEF ThreadRequests
  <1>17. ThreadsOver' /\ ThreadPhases'
    BY <1>1 DEF ThreadsOver, ThreadPhases, Over, Running, Rust!NextChunk
  <1>18. Rust!OneOwnReply'
    <2>1. ASSUME NEW r \in Rows, replies'[r] # <<>>
          PROVE  /\ threads[r] = "waiting" /\ Len(replies'[r]) = 1
                 /\ Head(replies'[r]).of = [row |-> r, left |-> left[r]]
      <3>1. CASE \A k \in 1..c : pending[k].of.row # r
        BY <1>1, <1>9, <2>1, <3>1 DEF Rust!OneOwnReply
      <3>2. CASE \E k \in 1..c : pending[k].of.row = r
        <4>1. PICK j \in 1..c : pending[j].of.row = r
          BY <3>2
        <4>2. replies'[r] = <<answers[j]>> /\ answers[j].of = pending[j].of
          BY <1>7, <1>10, <4>1
        <4>3. /\ pending[j].of \in Rust!Asked /\ pending[j].of.left = left[r]
              /\ threads[r] = "waiting"
          BY <1>5, <1>6, <4>1 DEF Suspended
        <4>4. pending[j].of = [row |-> r, left |-> left[r]]
          BY <4>1, <4>3 DEF Rust!Asked
        <4> QED
          BY <4>2, <4>3, <4>4
      <3> QED
        BY <3>1, <3>2
    <2> QED
      BY <2>1 DEF Rust!OneOwnReply
  <1> QED
    BY <1>13, <1>15, <1>16, <1>17, <1>18 DEF RustInv

(* A call that takes its searches out and gives each a thread.             *)
LEMMA RustPlay ==
  ASSUME RustInv, NEW request \in Requests,
         NEW need \in [DOMAIN request -> 0..MaxEvals], Rust!Play(request, need)
  PROVE  RustInv'
PROOF
  <1> USE DEF Rows, Rust!Rows
  <1> DEFINE n == Len(request)
  <1>1. /\ Rust!TypeOK /\ ThreadMessages /\ ThreadRequests /\ ThreadsOver
        /\ ThreadPhases /\ Rust!OneOwnReply
    BY DEF RustInv
  <1>2. request \in Seq(Slots) /\ n \in Nat /\ DOMAIN request = 1..n
    BY SchedulerAssumption
  <1>3. /\ pc = "idle" /\ plays < MaxPlays /\ plays' = plays + 1
        /\ searches' = [s \in Slots |-> IF s \in Range(request) THEN "taken" ELSE searches[s]]
        /\ slots' = request /\ needs' = need
        /\ threads' = [r \in DOMAIN request |-> "searching"]
        /\ left' = need /\ replies' = [r \in DOMAIN request |-> <<>>]
        /\ live' = n /\ pending' = <<>> /\ failed' = FALSE /\ finished' = {}
        /\ calls' = <<>> /\ result' = "none" /\ pc' = "collecting"
        /\ messages' = messages
    BY DEF Rust!Play, Rust!Range, Range
  <1>4. messages = <<>>
    BY <1>1, <1>3 DEF ThreadPhases
  <1>5. DOMAIN messages' = {} /\ DOMAIN pending' = {}
    BY <1>3, <1>4
  <1>6. Rust!TypeOK'
    <2>1. searches' \in [Slots -> {"clean", "used", "taken"}]
      BY <1>1, <1>3 DEF Rust!TypeOK
    <2>2. needs' \in Seq(0..MaxEvals) /\ Len(needs') = Len(slots')
      <3>1. need \in [1..n -> 0..MaxEvals]
        BY <1>2
      <3>2. need \in Seq(0..MaxEvals) /\ Len(need) = n
        BY <1>2, <3>1, RowByRow
      <3> QED
        BY <1>3, <3>2
    <2>3. plays' \in 0..MaxPlays
      BY <1>1, <1>3, SchedulerAssumption DEF Rust!TypeOK
    <2>4. replies' \in [Rows' -> Seq([to : Rows', ok : BOOLEAN, of : Rust!Asked])]
      <3> DEFINE R == [to : Rows', ok : BOOLEAN, of : Rust!Asked]
      <3> HIDE DEF R
      <3>1. <<>> \in Seq(R)
        OBVIOUS
      <3>2. replies' \in [DOMAIN request -> Seq(R)]
        BY <1>3, <3>1
      <3> QED
        BY <1>3, <3>2 DEF R
    <2>5. pending' \in Seq([of : Rust!Asked]) /\ Len(pending') <= live' /\ live' \in 0..Len(slots')
      BY <1>2, <1>3
    <2>6. /\ left' \in [Rows' -> 0..MaxEvals]
          /\ threads' \in [Rows' -> {"searching", "waiting", "ended"}]
      BY <1>2, <1>3
    <2>7. /\ slots' \in Seq(Slots) /\ pc' \in {"idle", "collecting", "evaluating", "restoring"}
          /\ failed' \in BOOLEAN /\ finished' \subseteq [row : Rows', ok : BOOLEAN]
          /\ result' \in {"none", "ok", "error"} /\ messages' \in Seq(Rust!Messages)
      BY <1>1, <1>2, <1>3 DEF Rust!TypeOK
    <2>8. calls' \in Seq(Seq(Nat))
      BY <1>3
    <2> QED
      BY <2>1, <2>2, <2>3, <2>4, <2>5, <2>6, <2>7, <2>8 DEF Rust!TypeOK
  <1>7. ThreadMessages' /\ ThreadRequests'
    BY <1>5 DEF ThreadMessages, ThreadRequests
  <1>8. ThreadsOver'
    <2>1. Running' = 1..n
      BY <1>2, <1>3 DEF Running, Over
    <2> QED
      BY <1>2, <1>3, <2>1, FirstNumbers DEF ThreadsOver
  <1>9. ThreadPhases'
    <2>1. \A s \in Slots : searches[s] # "taken"
      BY <1>1, <1>3 DEF ThreadPhases
    <2> QED
      BY <1>3, <2>1 DEF ThreadPhases, Range
  <1>10. Rust!OneOwnReply'
    BY <1>3 DEF Rust!OneOwnReply
  <1> QED
    BY <1>6, <1>7, <1>8, <1>9, <1>10 DEF RustInv

(* A reset needs an idle scheduler, and no search is out then.             *)
LEMMA RustReset ==
  ASSUME RustInv, NEW s \in Slots, Rust!Reset(s)
  PROVE  RustInv'
PROOF
  <1> USE DEF Rows, Rust!Rows
  <1>1. /\ pc = "idle" /\ searches[s] = "used"
        /\ searches' = [searches EXCEPT ![s] = "clean"]
        /\ UNCHANGED <<slots, needs, pc, messages, live, pending, failed, finished,
                       result, threads, left, replies, plays, calls>>
    BY DEF Rust!Reset, Rust!call, Rust!wave, Rust!workers
  <1>2. /\ Rust!TypeOK /\ ThreadMessages /\ ThreadRequests /\ ThreadsOver
        /\ ThreadPhases /\ Rust!OneOwnReply
    BY DEF RustInv
  <1>3. searches \in [Slots -> {"clean", "used", "taken"}]
    BY <1>2 DEF Rust!TypeOK
  <1>4. Rust!TypeOK'
    <2>1. searches' \in [Slots -> {"clean", "used", "taken"}]
      BY <1>1, <1>3
    <2> QED
      BY <1>1, <1>2, <2>1 DEF Rust!TypeOK
  <1>5. ThreadMessages' /\ ThreadRequests' /\ ThreadsOver' /\ Rust!OneOwnReply'
    BY <1>1, <1>2 DEF ThreadMessages, ThreadRequests, ThreadsOver, Rust!OneOwnReply,
         Said, Suspended, By, Over, Running
  <1>6. ThreadPhases'
    BY <1>1, <1>2, <1>3 DEF ThreadPhases
  <1> QED
    BY <1>4, <1>5, <1>6 DEF RustInv

(* A message that is taken from the channel: the request joins the wave,   *)
(* or the thread is over.                                                  *)
LEMMA RustReceive ==
  ASSUME RustInv, Rust!Receive
  PROVE  RustInv'
PROOF
  <1> USE DEF Rows, Rust!Rows
  <1> DEFINE m == Head(messages)
             n == Len(messages)
             p == Len(pending)
  <1>1. /\ pc = "collecting" /\ Len(pending) < live /\ messages # <<>>
        /\ messages' = Tail(messages)
        /\ UNCHANGED <<searches, slots, needs, pc, failed, result, threads, left,
                       replies, plays, calls>>
    BY DEF Rust!Receive, Rust!call, Rust!workers
  <1>2. /\ Rust!TypeOK /\ ThreadMessages /\ ThreadRequests /\ ThreadsOver
        /\ ThreadPhases /\ Rust!OneOwnReply
    BY DEF RustInv
  <1>3. /\ messages \in Seq(Rust!Messages) /\ live \in 0..Len(slots)
        /\ finished \subseteq [row : Rows, ok : BOOLEAN] /\ slots \in Seq(Slots)
    BY <1>2 DEF Rust!TypeOK
  <1>4. pending \in Seq([of : Rust!Asked]) /\ p \in Nat /\ DOMAIN pending = 1..p
    BY <1>2 DEF Rust!TypeOK
  <1>5. /\ n \in Nat /\ n >= 1 /\ m = messages[1] /\ m \in Rust!Messages
        /\ messages' \in Seq(Rust!Messages) /\ Len(messages') = n - 1
        /\ \A i \in 1..(n - 1) : messages'[i] = messages[i + 1]
        /\ DOMAIN messages = 1..n /\ DOMAIN messages' = 1..(n - 1)
    BY <1>1, <1>3
  <1>6. \A i \in DOMAIN messages' : i + 1 \in 2..n /\ messages'[i] = messages[i + 1]
    BY <1>5
  <1> HIDE DEF m
  <1>7. Said(m) /\ \A i \in 2..n : By(messages[i]) # By(m) /\ Said(messages[i])
    <2>1. 1 \in DOMAIN messages /\ \A i \in 2..n : i \in DOMAIN messages /\ i # 1
      BY <1>5
    <2> QED
      BY <1>2, <1>5, <2>1 DEF ThreadMessages
  <1>8. Rust!OneOwnReply'
    BY <1>1, <1>2 DEF Rust!OneOwnReply
  <1>9. CASE m.type = "request"
    <2>1. pending' = Append(pending, [of |-> m.of]) /\ live' = live /\ finished' = finished
      BY <1>9 DEF Rust!Receive, m
    <2>2. m.of \in Rust!Asked /\ By(m) = m.of.row /\ Suspended(m.of)
      BY <1>5, <1>7, <1>9 DEF Rust!Messages, By, Said
    <2>3. /\ pending' \in Seq([of : Rust!Asked]) /\ Len(pending') = p + 1
          /\ DOMAIN pending' = 1..(p + 1) /\ pending'[p + 1].of = m.of
          /\ \A k \in 1..p : pending'[k] = pending[k]
          /\ \A k \in DOMAIN pending' : k = p + 1 \/ k \in 1..p
      <3>1. [of |-> m.of] \in [of : Rust!Asked]
        BY <2>2
      <3> QED
        BY <1>4, <2>1, <3>1
    <2>4. Rust!TypeOK'
      <3>1. Len(pending') <= live'
        BY <1>1, <1>3, <1>4, <2>1, <2>3
      <3> QED
        BY <1>1, <1>2, <1>5, <2>1, <2>3, <3>1 DEF Rust!TypeOK
    <2>5. \A x : Suspended(x)' = Suspended(x) /\ Said(x)' = Said(x) /\ Over(x)' = Over(x)
      BY <1>1, <2>1 DEF Suspended, Said, Over
    <2>6. ThreadMessages'
      <3>1. ASSUME NEW i \in DOMAIN messages' PROVE Said(messages[i])'
        <4>1. PICK x : x = messages[i + 1]
          OBVIOUS
        <4>2. Said(x) /\ x = messages'[i]
          BY <1>6, <1>7, <4>1
        <4> QED
          BY <2>5, <4>2 DEF Said, Suspended, Over
      <3>2. \A i, j \in DOMAIN messages' : By(messages'[i]) = By(messages'[j]) => i = j
        <4>1. \A i, j \in DOMAIN messages' :
                 By(messages'[i]) = By(messages'[j]) => i + 1 = j + 1
          BY <1>2, <1>5, <1>6 DEF ThreadMessages
        <4> QED
          BY <1>5, <4>1
      <3>3. \A i \in DOMAIN messages', k \in DOMAIN pending' :
              By(messages'[i]) # pending'[k].of.row
        <4>1. \A i \in DOMAIN messages', k \in 1..p :
                By(messages'[i]) # pending[k].of.row
          BY <1>2, <1>4, <1>5, <1>6 DEF ThreadMessages
        <4> QED
          BY <1>6, <1>7, <2>2, <2>3, <4>1
      <3> QED
        BY <3>1, <3>2, <3>3 DEF ThreadMessages, By
    <2>7. ThreadRequests'
      <3>1. ASSUME NEW k \in DOMAIN pending' PROVE Suspended(pending[k].of)'
        <4>1. PICK x : x = pending'[k].of
          OBVIOUS
        <4>2. Suspended(x)
          BY <1>2, <1>4, <2>2, <2>3, <4>1 DEF ThreadRequests
        <4> QED
          BY <2>5, <4>1, <4>2 DEF Suspended
      <3>2. \A k \in 1..p : pending[k].of.row # m.of.row
        <4>1. 1 \in DOMAIN messages
          BY <1>5
        <4> QED
          BY <1>2, <1>4, <1>5, <2>2, <4>1 DEF ThreadMessages
      <3>3. \A k, l \in DOMAIN pending' :
              pending'[k].of.row = pending'[l].of.row => k = l
        BY <1>2, <1>4, <2>3, <3>2 DEF ThreadRequests
      <3> QED
        BY <3>1, <3>3 DEF ThreadRequests
    <2>8. ThreadsOver' /\ ThreadPhases'
      BY <1>1, <1>2, <2>1 DEF ThreadsOver, ThreadPhases, Over, Running
    <2> QED
      BY <1>8, <2>4, <2>6, <2>7, <2>8 DEF RustInv
  <1>10. CASE m.type # "request"
    <2> DEFINE r == m.row
    <2>1. /\ pending' = pending /\ live' = live - 1
          /\ finished' = finished \cup {[row |-> r, ok |-> m.ok]}
      BY <1>10 DEF Rust!Receive, m
    <2>2. /\ r \in Rows /\ m.ok \in BOOLEAN /\ By(m) = r /\ ~Over(r)
          /\ threads[r] = "ended"
      BY <1>5, <1>7, <1>10 DEF Rust!Messages, By, Said
    <2>3. \A q : Over(q)' <=> Over(q) \/ q = r
      <3>1. PICK f : f = [row |-> r, ok |-> m.ok]
        OBVIOUS
      <3>2. f.row = r /\ finished' = finished \cup {f}
        BY <2>1, <3>1
      <3> QED
        BY <3>2 DEF Over
    <2>4. \A x : Suspended(x)' = Suspended(x)
      BY <1>1 DEF Suspended
    <2>5. \A x : Said(x) /\ By(x) # r => Said(x)'
      BY <1>1, <2>3, <2>4 DEF Said, By
    <2>6. Rust!TypeOK'
      <3>1. Len(pending') <= live' /\ live' \in 0..Len(slots')
        BY <1>1, <1>3, <1>4, <2>1
      <3>2. finished' \subseteq [row : Rows', ok : BOOLEAN]
        BY <1>1, <1>3, <2>1, <2>2
      <3> QED
        BY <1>1, <1>2, <1>5, <2>1, <3>1, <3>2 DEF Rust!TypeOK
    <2>7. ThreadMessages'
      <3>1. ASSUME NEW i \in DOMAIN messages' PROVE Said(messages[i])'
        <4>1. PICK x : x = messages[i + 1]
          OBVIOUS
        <4>2. Said(x) /\ x = messages'[i] /\ By(x) # r
          BY <1>6, <1>7, <2>2, <4>1
        <4> QED
          BY <2>5, <4>2 DEF Said, Suspended, Over
      <3>2. \A i, j \in DOMAIN messages' : By(messages'[i]) = By(messages'[j]) => i = j
        <4>1. \A i, j \in DOMAIN messages' :
                 By(messages'[i]) = By(messages'[j]) => i + 1 = j + 1
          BY <1>2, <1>5, <1>6 DEF ThreadMessages
        <4> QED
          BY <1>5, <4>1
      <3>3. \A i \in DOMAIN messages', k \in DOMAIN pending' :
              By(messages'[i]) # pending'[k].of.row
        BY <1>2, <1>4, <1>5, <1>6, <2>1 DEF ThreadMessages
      <3> QED
        BY <3>1, <3>2, <3>3 DEF ThreadMessages, By
    <2>8. ThreadRequests'
      BY <1>1, <1>2, <2>1 DEF ThreadRequests, Suspended
    <2>9. ThreadsOver'
      <3>1. Running' = Running \ {r} /\ r \in Running
        BY <1>1, <2>2, <2>3 DEF Running
      <3>2. IsFiniteSet(Rows)
        BY <1>3, FirstNumbers
      <3>3. IsFiniteSet(Running)
        BY <3>2, FS_Subset DEF Running
      <3>4. Cardinality(Running') = Cardinality(Running) - 1
        BY <3>1, <3>3, FS_RemoveElement
      <3> QED
        BY <1>1, <1>2, <2>1, <2>2, <3>4 DEF ThreadsOver
    <2>10. ThreadPhases'
      BY <1>1, <1>2 DEF ThreadPhases
    <2> QED
      BY <1>8, <2>6, <2>7, <2>8, <2>9, <2>10 DEF RustInv
  <1> QED
    BY <1>9, <1>10

(* The wave is put in order of rows: the same requests, each once.         *)
LEMMA RustCloseWave ==
  ASSUME RustInv, Rust!CloseWave
  PROVE  RustInv'
PROOF
  <1> USE DEF Rows, Rust!Rows
  <1> DEFINE P == [of : Rust!Asked]
             n == Len(pending)
  <1>1. /\ Rust!TypeOK /\ ThreadMessages /\ ThreadRequests /\ ThreadsOver
        /\ ThreadPhases /\ Rust!OneOwnReply
    BY DEF RustInv
  <1>2. /\ pc = "collecting" /\ Len(pending) = live
        /\ pending' = InRowOrder(pending)
        /\ pc' = IF live = 0 THEN "restoring" ELSE "evaluating"
        /\ UNCHANGED <<searches, slots, needs, messages, live, failed, finished,
                       result, threads, left, replies, plays, calls>>
    BY SameBatches DEF Rust!CloseWave, Rust!call, Rust!workers
  <1>3. pending \in Seq(P) /\ DOMAIN pending = 1..n /\ n \in Nat
    BY <1>1 DEF Rust!TypeOK
  <1>4. \A k \in DOMAIN pending : pending[k].of.row \in Nat
    <2>1. \A k \in DOMAIN pending : pending[k] \in P
      <3> HIDE DEF P
      <3> QED
        BY <1>3
    <2> QED
      BY <2>1 DEF Rust!Asked
  <1>5. PICK o \in [1..n -> 1..n] :
          /\ \A i \in 1..n : pending'[i] = pending[o[i]]
          /\ \A i, j \in 1..n : o[i] = o[j] => i = j
    <2> HIDE DEF P
    <2>1. \E o \in [DOMAIN pending -> DOMAIN pending] :
            /\ \A i \in DOMAIN pending : InRowOrder(pending)[i] = pending[o[i]]
            /\ \A i, j \in DOMAIN pending : o[i] = o[j] => i = j
            /\ \A k \in DOMAIN pending : \E i \in DOMAIN pending : o[i] = k
      BY <1>3, <1>4, RowOrder
    <2> QED
      BY <1>2, <1>3, <2>1
  <1>6. pending' \in Seq(P) /\ Len(pending') = n /\ DOMAIN pending' = 1..n
    <2> HIDE DEF P
    <2>1. pending' \in Seq(P) /\ Len(pending') = n
      BY <1>2, <1>3, <1>4, RowOrder
    <2> QED
      BY <2>1
  <1>7. \A i \in 1..n : o[i] \in 1..n
    BY <1>5
  <1>8. Rust!TypeOK'
    BY <1>1, <1>2, <1>6 DEF Rust!TypeOK
  <1>9. \A x : /\ Suspended(x)' = Suspended(x) /\ Said(x)' = Said(x)
               /\ Over(x)' = Over(x)
    BY <1>2 DEF Suspended, Said, Over
  <1>10. ThreadMessages'
    <2>1. ASSUME NEW i \in DOMAIN messages' PROVE Said(messages[i])'
      <3>1. PICK x : x = messages[i]
        OBVIOUS
      <3>2. Said(x) /\ x = messages'[i]
        BY <1>1, <1>2, <3>1 DEF ThreadMessages
      <3> QED
        BY <1>9, <3>2 DEF Said, Suspended, Over
    <2>2. \A i \in DOMAIN messages', k \in DOMAIN pending' :
            By(messages'[i]) # pending'[k].of.row
      BY <1>1, <1>2, <1>3, <1>5, <1>6, <1>7 DEF ThreadMessages
    <2> QED
      BY <1>1, <1>2, <2>1, <2>2 DEF ThreadMessages, By
  <1>11. ThreadRequests'
    <2>1. ASSUME NEW k \in DOMAIN pending' PROVE Suspended(pending[k].of)'
      <3>1. PICK x : x = pending'[k].of
        OBVIOUS
      <3>2. Suspended(x)
        BY <1>1, <1>3, <1>5, <1>6, <1>7, <3>1 DEF ThreadRequests
      <3> QED
        BY <1>9, <3>1, <3>2 DEF Suspended
    <2>2. \A k, l \in DOMAIN pending' :
            pending'[k].of.row = pending'[l].of.row => k = l
      BY <1>1, <1>3, <1>5, <1>6, <1>7 DEF ThreadRequests
    <2> QED
      BY <2>1, <2>2 DEF ThreadRequests
  <1>12. ThreadsOver' /\ ThreadPhases' /\ Rust!OneOwnReply'
    BY <1>1, <1>2 DEF ThreadsOver, ThreadPhases, Rust!OneOwnReply, Over, Running
  <1> QED
    BY <1>8, <1>10, <1>11, <1>12 DEF RustInv

(* A chunk is evaluated, fails, or is cancelled: each of its rows gets one *)
(* reply.                                                                  *)
LEMMA RustEvaluate ==
  ASSUME RustInv, Rust!EvaluateChunk \/ Rust!EvaluationFails \/ Rust!CancelChunk
  PROVE  RustInv'
PROOF
  <1> USE DEF Rust!call, Rust!wave, Rust!workers
  <1> DEFINE P == [of : Rust!Asked]
             chunk == FirstChunk(pending)
  <1>1. Rust!TypeOK
    BY DEF RustInv
  <1>2. pending \in Seq(P) /\ Rust!Chunk = chunk
    BY <1>1, SameBatches DEF Rust!TypeOK, Rust!Chunk
  <1>3. chunk \in Seq(P)
    <2> HIDE DEF P
    <2> QED
      BY <1>2, Cut
  <1>4. CASE Rust!EvaluationFails \/ Rust!CancelChunk
    <2>1. Rust!Reply([k \in DOMAIN Rust!Chunk |->
            [to |-> Rust!Chunk[k].of.row, ok |-> FALSE, of |-> Rust!Chunk[k].of]])
      BY <1>4 DEF Rust!EvaluationFails, Rust!CancelChunk
    <2>2. /\ pc = "evaluating" /\ Rust!NextChunk
          /\ UNCHANGED <<searches, slots, needs, messages, live, finished, result,
                         threads, left, plays, calls>>
      BY <1>4 DEF Rust!EvaluationFails, Rust!CancelChunk
    <2>3. failed' \in BOOLEAN
      BY <1>1, <1>4 DEF Rust!EvaluationFails, Rust!CancelChunk, Rust!TypeOK
    <2>4. calls' \in Seq(Seq(Nat))
      BY <1>1, <2>2 DEF Rust!TypeOK
    <2>5. FALSE \in BOOLEAN
      OBVIOUS
    <2> QED
      BY <2>1, <2>2, <2>3, <2>4, <2>5, ChunkReplied
  <1>5. CASE Rust!EvaluateChunk
    <2>1. PICK order \in Orders(chunk) :
            Rust!Reply([k \in DOMAIN Rust!Chunk |->
              [to |-> Rust!Chunk[k].of.row, ok |-> TRUE,
               of |-> Rust!Answered(Rust!Chunk, k, order)]])
      BY <1>2, <1>5, SameBatches DEF Rust!EvaluateChunk
    <2>2. \A k \in DOMAIN Rust!Chunk : Rust!Answered(Rust!Chunk, k, order) = Rust!Chunk[k].of
      <3> HIDE DEF P, chunk
      <3> QED
        BY <1>2, <1>3, SameBatches, AnsweredById
    <2>3. [k \in DOMAIN Rust!Chunk |->
              [to |-> Rust!Chunk[k].of.row, ok |-> TRUE,
               of |-> Rust!Answered(Rust!Chunk, k, order)]] =
          [k \in DOMAIN Rust!Chunk |->
              [to |-> Rust!Chunk[k].of.row, ok |-> TRUE, of |-> Rust!Chunk[k].of]]
      BY <2>2
    <2>4. Rust!Reply([k \in DOMAIN Rust!Chunk |->
              [to |-> Rust!Chunk[k].of.row, ok |-> TRUE, of |-> Rust!Chunk[k].of]])
      BY <2>1, <2>3
    <2>5. /\ pc = "evaluating" /\ Rust!NextChunk
          /\ calls' = Append(calls, [k \in DOMAIN chunk |-> chunk[k].of.row])
          /\ UNCHANGED <<searches, slots, needs, messages, live, failed, finished,
                         result, threads, left, plays>>
      BY <1>2, <1>5 DEF Rust!EvaluateChunk
    <2>6. calls' \in Seq(Seq(Nat))
      <3> DEFINE batch == [k \in DOMAIN chunk |-> chunk[k].of.row]
                 c == Len(chunk)
      <3>1. c \in Nat /\ DOMAIN chunk = 1..c /\ \A k \in 1..c : chunk[k] \in P
        <4> HIDE DEF P, chunk
        <4> QED
          BY <1>3
      <3>2. \A k \in 1..c : chunk[k].of.row \in Nat
        BY <3>1 DEF Rust!Asked
      <3>3. batch \in [1..c -> Nat]
        BY <3>1, <3>2
      <3>4. batch \in Seq(Nat)
        <4> HIDE DEF batch, c
        <4>1. c \in Nat
          BY <3>1
        <4> QED
          BY <3>3, <4>1, RowByRow
      <3>5. calls \in Seq(Seq(Nat))
        BY <1>1 DEF Rust!TypeOK
      <3> HIDE DEF batch
      <3>6. Append(calls, batch) \in Seq(Seq(Nat))
        BY <3>4, <3>5
      <3> QED
        BY <2>5, <3>6 DEF batch
    <2>7. failed' \in BOOLEAN
      BY <1>1, <2>5 DEF Rust!TypeOK
    <2>8. TRUE \in BOOLEAN
      OBVIOUS
    <2> QED
      BY <2>4, <2>5, <2>6, <2>7, <2>8, ChunkReplied
  <1> QED
    BY <1>4, <1>5

(* All threads are over: every search of the call has come back.           *)
LEMMA RustRestore ==
  ASSUME RustInv, Rust!Restore
  PROVE  RustInv'
PROOF
  <1> USE DEF Rows, Rust!Rows
  <1>1. /\ Rust!TypeOK /\ ThreadMessages /\ ThreadRequests /\ ThreadsOver
        /\ ThreadPhases /\ Rust!OneOwnReply
    BY DEF RustInv
  <1>2. /\ pc = "restoring" /\ \A r \in Rows : threads[r] = "ended"
        /\ searches' = [s \in Slots |->
             IF \E f \in finished : slots[f.row] = s THEN "used" ELSE searches[s]]
        /\ pc' = "idle"
        /\ UNCHANGED <<slots, needs, messages, live, pending, failed, finished,
                       threads, left, replies, plays, calls>>
    BY DEF Rust!Restore, Rust!call, Rust!wave, Rust!workers
  <1>3. result' \in {"ok", "error"}
    BY DEF Rust!Restore
  <1>4. Rust!TypeOK'
    <2>1. searches' \in [Slots -> {"clean", "used", "taken"}]
      BY <1>1, <1>2 DEF Rust!TypeOK
    <2> QED
      BY <1>1, <1>2, <1>3, <2>1 DEF Rust!TypeOK
  <1>5. Running = {}
    <2>1. slots \in Seq(Slots)
      BY <1>1 DEF Rust!TypeOK
    <2>2. IsFiniteSet(Rows)
      BY <2>1, FirstNumbers
    <2>3. IsFiniteSet(Running)
      BY <2>2, FS_Subset DEF Running
    <2>4. Cardinality(Running) = 0
      BY <1>1, <1>2 DEF ThreadsOver, ThreadPhases
    <2> QED
      BY <2>3, <2>4, FS_EmptySet
  <1>6. messages = <<>>
    <2>1. messages \in Seq(Rust!Messages)
      BY <1>1 DEF Rust!TypeOK
    <2>2. CASE Len(messages) # 0
      <3>1. 1 \in DOMAIN messages
        BY <2>1, <2>2
      <3>2. Said(messages[1])
        BY <1>1, <3>1 DEF ThreadMessages
      <3>3. threads[messages[1].of.row] # "waiting" \/ messages[1].of.row \notin Rows
        BY <1>2
      <3>4. \A r \in Rows : Over(r)
        BY <1>5 DEF Running
      <3> QED
        BY <3>2, <3>3, <3>4 DEF Said, Suspended
    <2>3. CASE Len(messages) = 0
      BY <2>1, <2>3, EmptySeq
    <2> QED
      BY <2>2, <2>3
  <1>7. ThreadMessages' /\ ThreadRequests' /\ ThreadsOver' /\ Rust!OneOwnReply'
    BY <1>1, <1>2 DEF ThreadMessages, ThreadRequests, ThreadsOver, Rust!OneOwnReply,
         Said, Suspended, By, Over, Running
  <1>8. ThreadPhases'
    <2>1. ASSUME NEW s \in Slots PROVE searches'[s] # "taken"
      <3>1. CASE searches[s] = "taken"
        <4>1. PICK r \in Rows : slots[r] = s
          BY <1>1, <3>1 DEF ThreadPhases
        <4>2. Over(r)
          BY <1>5 DEF Running
        <4>3. \E f \in finished : slots[f.row] = s
          BY <4>1, <4>2 DEF Over
        <4> QED
          BY <1>2, <4>3
      <3>2. CASE searches[s] # "taken"
        BY <1>2, <3>2
      <3> QED
        BY <3>1, <3>2
    <2> QED
      BY <1>2, <1>6, <2>1 DEF ThreadPhases
  <1> QED
    BY <1>4, <1>7, <1>8 DEF RustInv

(* The older scheduler as it is made.                                      *)
LEMMA RustStarts ==
  Rust!Init => RustInv
PROOF
  <1> SUFFICES ASSUME Rust!Init PROVE RustInv
    OBVIOUS
  <1> USE DEF Rust!Init, Rows, Rust!Rows
  <1>1. Rust!TypeOK
    <2>1. /\ slots \in Seq(Slots) /\ needs \in Seq(0..MaxEvals) /\ Len(needs) = Len(slots)
          /\ messages \in Seq(Rust!Messages) /\ pending \in Seq([of : Rust!Asked])
          /\ Len(pending) <= live /\ live \in 0..Len(slots)
          /\ calls \in Seq(Seq(Nat))
      OBVIOUS
    <2>2. /\ threads \in [Rows -> {"searching", "waiting", "ended"}]
          /\ left \in [Rows -> 0..MaxEvals]
          /\ replies \in [Rows -> Seq([to : Rows, ok : BOOLEAN, of : Rust!Asked])]
      OBVIOUS
    <2>3. plays \in 0..MaxPlays
      BY SchedulerAssumption
    <2> QED
      BY <2>1, <2>2, <2>3 DEF Rust!TypeOK
  <1>2. ThreadMessages /\ ThreadRequests /\ Rust!OneOwnReply /\ ThreadPhases
    BY DEF ThreadMessages, ThreadRequests, Rust!OneOwnReply, ThreadPhases
  <1>3. ThreadsOver
    <2>1. Running = {}
      BY DEF Running
    <2> QED
      BY <2>1, FS_EmptySet DEF ThreadsOver
  <1> QED
    BY <1>1, <1>2, <1>3 DEF RustInv

(* Every step of the older scheduler keeps its invariant.                  *)
LEMMA RustSteps ==
  ASSUME RustInv, Rust!Next
  PROVE  RustInv'
PROOF
  <1>1. ASSUME NEW request \in Requests,
               NEW need \in [DOMAIN request -> 0..MaxEvals], Rust!Play(request, need)
        PROVE  RustInv'
    BY <1>1, RustPlay
  <1>2. ASSUME NEW s \in Slots, Rust!Reset(s)
        PROVE  RustInv'
    BY <1>2, RustReset
  <1>3. ASSUME Rust!Coordinate
        PROVE  RustInv'
    BY <1>3, RustReceive, RustCloseWave, RustEvaluate, RustRestore DEF Rust!Coordinate
  <1>4. ASSUME NEW r \in Rust!Rows, Rust!Thread(r)
        PROVE  RustInv'
    <2>1. r \in Rows
      BY DEF Rust!Rows, Rows
    <2> QED
      BY <1>4, <2>1, ThreadKeepsInv
  <1> QED
    BY <1>1, <1>2, <1>3, <1>4 DEF Rust!Next

(* ... and so does a step of somebody else.                                *)
LEMMA RustStutters ==
  ASSUME RustInv, UNCHANGED Rust!vars
  PROVE  RustInv'
PROOF
  <1> USE DEF Rows, Rust!Rows
  <1>1. UNCHANGED <<searches, slots, needs, pc, messages, live, pending, failed,
                    finished, result, threads, left, replies, plays, calls>>
    BY DEF Rust!vars, Rust!call, Rust!wave, Rust!workers
  <1> QED
    <2>1. /\ Rust!TypeOK /\ ThreadMessages /\ ThreadRequests /\ ThreadsOver
          /\ ThreadPhases /\ Rust!OneOwnReply
      BY DEF RustInv
    <2>2. Rust!TypeOK'
      BY <1>1, <2>1 DEF Rust!TypeOK
    <2>3. ThreadMessages' /\ ThreadRequests'
      BY <1>1, <2>1 DEF ThreadMessages, ThreadRequests, Said, Suspended, By, Over
    <2>4. ThreadsOver' /\ ThreadPhases' /\ Rust!OneOwnReply'
      BY <1>1, <2>1 DEF ThreadsOver, ThreadPhases, Rust!OneOwnReply, Over, Running
    <2> QED
      BY <2>2, <2>3, <2>4 DEF RustInv

(* The rest of the types: where a call that starts its workers is, and     *)
(* that a worker in a pass stands on a session or behind the last.         *)
StartInv == pc = "starting" => Len(buckets) \in 0..WorkerCount(Len(slots))
Passing == {"opening", "resuming"}
PassInv == \A w \in Pool : wpc[w] \in Passing => at[w] >= 1

Typed == TypeOK /\ StartInv /\ PassInv

(* A search of the call request, and a worker that has only its own.       *)
Own(t, request) == t.row \in DOMAIN request /\ t.slot = request[t.row]
Owns(w, ts, request) ==
    /\ \A k \in DOMAIN ts : /\ Own(ts[k], request)
                            /\ WorkerOf(ts[k].row, Len(request)) = w
    /\ \A k, l \in DOMAIN ts : ts[k].row = ts[l].row => k = l
Holds(ts, r) == \E k \in DOMAIN ts : ts[k].row = r

(* A call uses a part of the pool, and every row has its worker there.     *)
LEMMA Crews ==
  ASSUME NEW n \in Nat
  PROVE  /\ WorkerCount(n) \in Nat /\ WorkerCount(n) <= Workers /\ WorkerCount(n) <= n
         /\ 1..WorkerCount(n) \subseteq Pool
         /\ \A r \in 1..n : WorkerOf(r, n) \in 1..WorkerCount(n) /\ WorkerOf(r, n) \in Pool
PROOF
  <1>1. Workers \in Nat /\ Workers >= 1
    BY SchedulerAssumption
  <1>2. WorkerCount(n) \in Nat /\ WorkerCount(n) <= Workers /\ WorkerCount(n) <= n
    BY <1>1 DEF WorkerCount
  <1>3. ASSUME NEW r \in 1..n PROVE WorkerOf(r, n) \in 1..WorkerCount(n)
    <2>1. WorkerCount(n) >= 1 /\ r - 1 \in Int
      BY <1>1 DEF WorkerCount
    <2>2. (r - 1) % WorkerCount(n) \in 0..(WorkerCount(n) - 1)
      BY <1>2, <2>1
    <2> QED
      BY <1>2, <2>2 DEF WorkerOf
  <1> QED
    BY <1>1, <1>2, <1>3 DEF Pool

(* A bucket holds the rows of its worker, each once. *)
LEMMA BucketRows ==
  ASSUME NEW request \in Seq(Slots), NEW need \in [DOMAIN request -> 0..MaxEvals],
         NEW play \in 1..MaxPlays, NEW B, B = Buckets(request, need, play),
         NEW n, n = Len(request)
  PROVE  /\ B \in Seq(Seq(Task))
         /\ Len(B) = WorkerCount(n) /\ DOMAIN B = 1..WorkerCount(n)
         /\ \A w \in DOMAIN B : Owns(w, B[w], request)
         /\ \A r \in DOMAIN request : Holds(B[WorkerOf(r, n)], r)
PROOF
  <1> DEFINE mine(w) == {r \in DOMAIN request : WorkerOf(r, n) = w}
             at_(w, k) == CHOOSE r \in mine(w) : Cardinality(mine(w) \cap 1..r) = k
             task(w, k) == [play |-> play, row |-> at_(w, k), slot |-> request[at_(w, k)],
                            left |-> need[at_(w, k)]]
             bucket(w) == [k \in 1..Cardinality(mine(w)) |-> task(w, k)]
  <1>1. n \in Nat /\ DOMAIN request = 1..n
    OBVIOUS
  <1>2. WorkerCount(n) \in Nat
    BY <1>1, Crews
  <1>3. B = [w \in 1..WorkerCount(n) |-> bucket(w)]
    BY DEF Buckets
  <1>4. ASSUME NEW w \in 1..WorkerCount(n)
        PROVE  /\ bucket(w) \in Seq(Task)
               /\ \A k \in DOMAIN bucket(w) :
                    /\ bucket(w)[k].row \in 1..n
                    /\ WorkerOf(bucket(w)[k].row, n) = w
                    /\ bucket(w)[k].slot = request[bucket(w)[k].row]
               /\ \A k, l \in DOMAIN bucket(w) : bucket(w)[k].row = bucket(w)[l].row => k = l
               /\ \A r \in 1..n : WorkerOf(r, n) = w => \E k \in DOMAIN bucket(w) : bucket(w)[k].row = r
    <2> DEFINE S == mine(w)
               c == Cardinality(S)
               below == [r \in S |-> S \cap 1..r]
    <2>1. S \subseteq 1..n /\ IsFiniteSet(1..n)
      BY <1>1, FirstNumbers
    <2>2. IsFiniteSet(S)
      BY <2>1, FS_Subset
    <2>3. below \in [S -> SUBSET S] /\ \A x \in S : x \in below[x]
      BY <2>1
    <2>4. \A x, y \in S : x # y => \/ below[x] \subseteq below[y] /\ y \notin below[x]
                                   \/ below[y] \subseteq below[x] /\ x \notin below[y]
      <3>1. ASSUME NEW x \in S, NEW y \in S, x < y
            PROVE  below[x] \subseteq below[y] /\ y \notin below[x]
        BY <1>1, <2>1, <3>1
      <3> QED
        BY <1>1, <2>1, <3>1
    <2>5. /\ c \in Nat
          /\ \A x \in S : Cardinality(below[x]) \in 1..c
          /\ \A x, y \in S : Cardinality(below[x]) = Cardinality(below[y]) => x = y
          /\ \A i \in 1..c : \E x \in S : Cardinality(below[x]) = i
      <3> HIDE DEF S, below
      <3> QED
        BY <2>2, <2>3, <2>4, Ranks DEF c
    <2>6. \A k \in 1..c : at_(w, k) \in S /\ Cardinality(S \cap 1..at_(w, k)) = k
      BY <2>5
    <2>7. \A k \in 1..c : at_(w, k) \in 1..n /\ WorkerOf(at_(w, k), n) = w
      BY <1>1, <2>6
    <2>8. \A k \in 1..c : task(w, k) \in Task
      <3> HIDE DEF at_
      <3> QED
        BY <1>1, <2>7 DEF Task
    <2>9. \A k \in DOMAIN bucket(w) : k \in 1..c /\ bucket(w)[k] = task(w, k)
      OBVIOUS
    <2>10. \A k \in DOMAIN bucket(w) : bucket(w)[k].row = at_(w, k)
      BY <2>9
    <2>11. bucket(w) \in Seq(Task)
      <3> HIDE DEF task
      <3> QED
        BY <2>5, <2>8
    <2>12. ASSUME NEW r \in 1..n, WorkerOf(r, n) = w
           PROVE  \E k \in DOMAIN bucket(w) : bucket(w)[k].row = r
      <3>1. r \in S
        BY <1>1, <2>12
      <3>2. Cardinality(below[r]) \in 1..c /\ below[r] = S \cap 1..r
        BY <2>5, <3>1
      <3>3. PICK k \in 1..c : k = Cardinality(S \cap 1..r)
        BY <3>2
      <3>4. at_(w, k) = r
        BY <2>5, <2>6, <3>1, <3>3
      <3> QED
        BY <2>10, <3>4
    <2>13. \A k \in DOMAIN bucket(w) : bucket(w)[k].slot = request[at_(w, k)]
      BY <2>9
    <2>14. \A k, l \in DOMAIN bucket(w) : bucket(w)[k].row = bucket(w)[l].row => k = l
      BY <2>6, <2>9, <2>10
    <2> QED
      BY <2>7, <2>9, <2>10, <2>11, <2>12, <2>13, <2>14
  <1>5. B \in Seq(Seq(Task)) /\ Len(B) = WorkerCount(n)
    <2>1. \A w \in 1..WorkerCount(n) : bucket(w) \in Seq(Task)
      <3> HIDE DEF bucket
      <3> QED
        BY <1>4
    <2>2. B \in [1..WorkerCount(n) -> Seq(Task)]
      <3> HIDE DEF bucket
      <3> QED
        BY <1>3, <2>1
    <2> HIDE DEF bucket
    <2> QED
      BY <1>2, <2>2, RowByRow
  <1>6. ASSUME NEW w \in 1..WorkerCount(n)
        PROVE  /\ \A k \in DOMAIN B[w] :
                    /\ B[w][k].row \in 1..n
                    /\ WorkerOf(B[w][k].row, n) = w
                    /\ B[w][k].slot = request[B[w][k].row]
               /\ \A k, l \in DOMAIN B[w] : B[w][k].row = B[w][l].row => k = l
               /\ \A r \in 1..n : WorkerOf(r, n) = w => \E k \in DOMAIN B[w] : B[w][k].row = r
    <2>1. B[w] = bucket(w)
      <3> HIDE DEF bucket
      <3> QED
        BY <1>3
    <2> HIDE DEF bucket
    <2> QED
      BY <1>4, <2>1
  <1> HIDE DEF bucket
  <1>7. DOMAIN B = 1..WorkerCount(n)
    BY <1>2, <1>5
  <1>8. ASSUME NEW w \in 1..WorkerCount(n)
        PROVE  Owns(w, B[w], request)
    BY <1>1, <1>6 DEF Owns, Own
  <1>9. ASSUME NEW r \in DOMAIN request
        PROVE  Holds(B[WorkerOf(r, n)], r)
    <2>1. PICK w \in 1..WorkerCount(n) : w = WorkerOf(r, n)
      BY <1>1, Crews
    <2>2. \A x \in 1..n : WorkerOf(x, n) = w => \E k \in DOMAIN B[w] : B[w][k].row = x
      BY <1>6
    <2>3. \E k \in DOMAIN B[w] : B[w][k].row = r
      BY <1>1, <2>1, <2>2
    <2> QED
      BY <2>1, <2>3 DEF Holds
  <1>10. \A w \in DOMAIN B : Owns(w, B[w], request)
    BY <1>7, <1>8
  <1> QED
    BY <1>5, <1>7, <1>9, <1>10

(* A set of bounded numbers that is not empty has a greatest. *)
LEMMA Greatest ==
  ASSUME NEW k \in Nat, NEW S \in SUBSET (1..k), S # {}
  PROVE  \E n \in S : \A m \in S : m <= n
PROOF
  <1> DEFINE less == {pair \in Nat \X Nat : pair[1] < pair[2]}
             rest == {k - n : n \in S}
  <1>1. IsWellFoundedOn(less, Nat)
    BY NatLessThanWellFounded DEF OpToRel
  <1>2. \A n \in S : n \in Nat /\ k - n \in Nat
    OBVIOUS
  <1>3. rest \subseteq Nat /\ rest # {}
    BY <1>2
  <1>4. \E t \in rest : \A u \in rest : <<u, t>> \notin less
    <2> HIDE DEF less, rest
    <2> QED
      BY <1>1, <1>3, WFMin
  <1>5. PICK n \in S : \A m \in S : <<k - m, k - n>> \notin less
    BY <1>4
  <1>6. ASSUME NEW m \in S PROVE m <= n
    <2>1. <<k - m, k - n>> \notin less
      BY <1>5
    <2>2. ~(k - m < k - n)
      BY <1>2, <2>1
    <2> QED
      BY <1>2, <2>2
  <1> QED
    BY <1>6

(* Of what has come back for a row, one is of the latest call. *)
LEMMA LatestExists ==
  ASSUME TypeOK, NEW r, Back(r) # {}
  PROVE  Latest(r) \in Back(r)
PROOF
  <1> DEFINE played == {f.task.play : f \in Back(r)}
  <1>1. \A f \in Back(r) : f.task.play \in 1..MaxPlays
    BY DEF TypeOK, Back, Task
  <1>2. MaxPlays \in Nat
    BY SchedulerAssumption
  <1>3. played \in SUBSET (1..MaxPlays) /\ played # {}
    BY <1>1
  <1>4. \E p \in played : \A q \in played : q <= p
    <2> HIDE DEF played
    <2> QED
      BY <1>2, <1>3, Greatest
  <1>5. \E f \in Back(r) : \A g \in Back(r) : g.task.play <= f.task.play
    BY <1>4
  <1> QED
    BY <1>5 DEF Latest

(* What the messages, the commands and the requests of a wave are. *)
LEMMA Shapes ==
  ASSUME TypeOK
  PROVE  /\ messages \in Seq(Messages) /\ Len(messages) \in Nat
         /\ DOMAIN messages = 1..Len(messages)
         /\ \A i \in DOMAIN messages :
              /\ messages[i] \in Messages
              /\ messages[i].type \in {"request", "finished", "barrier", "done", "panicked"}
              /\ messages[i].type = "request" =>
                   messages[i].worker \in Pool /\ messages[i].of \in Asked
              /\ messages[i].type = "finished" =>
                   messages[i].task \in Task /\ messages[i].ok \in BOOLEAN
              /\ messages[i].type \in {"barrier", "done", "panicked"} =>
                   messages[i].worker \in Pool
         /\ \A w \in Pool :
              /\ commands[w] \in Seq(Commands) /\ tasks[w] \in Seq(Task)
              /\ \A k \in DOMAIN tasks[w] : tasks[w][k] \in Task
              /\ commands[w] # <<>> =>
                   /\ Head(commands[w]) \in Commands /\ Tail(commands[w]) \in Seq(Commands)
                   /\ Head(commands[w]) = commands[w][1]
                   /\ Head(commands[w]).type \in {"start", "responses", "cancel", "shutdown"}
                   /\ Head(commands[w]).type = "start" => Head(commands[w]).tasks \in Seq(Task)
                   /\ Head(commands[w]).type = "responses" =>
                        Head(commands[w]).rows \in SUBSET Answers
         /\ \A k \in DOMAIN pending : /\ pending[k].worker \in Pool
                                      /\ pending[k].of \in Asked
                                      /\ pending[k].of.row \in Nat
PROOF
  <1>1. messages \in Seq(Messages) /\ commands \in [Pool -> Seq(Commands)]
        /\ pending \in Seq([worker : Pool, of : Asked]) /\ tasks \in [Pool -> Seq(Task)]
    BY DEF TypeOK
  <1>2. \A i \in DOMAIN messages : messages[i] \in Messages
    BY <1>1
  <1>3. \A x \in Messages :
          /\ x.type \in {"request", "finished", "barrier", "done", "panicked"}
          /\ x.type = "request" => x.worker \in Pool /\ x.of \in Asked
          /\ x.type = "finished" => x.task \in Task /\ x.ok \in BOOLEAN
          /\ x.type \in {"barrier", "done", "panicked"} => x.worker \in Pool
    BY DEF Messages
  <1>4. ASSUME NEW w \in Pool, commands[w] # <<>>
        PROVE  /\ Head(commands[w]) \in Commands /\ Tail(commands[w]) \in Seq(Commands)
               /\ Head(commands[w]) = commands[w][1]
    BY <1>1, <1>4
  <1>5. \A c \in Commands :
          /\ c.type \in {"start", "responses", "cancel", "shutdown"}
          /\ c.type = "start" => c.tasks \in Seq(Task)
          /\ c.type = "responses" => c.rows \in SUBSET Answers
    BY DEF Commands
  <1>6. \A k \in DOMAIN pending : pending[k] \in [worker : Pool, of : Asked]
    <2> DEFINE P == [worker : Pool, of : Asked]
    <2>1. pending \in Seq(P)
      BY <1>1
    <2> HIDE DEF P
    <2>2. \A k \in DOMAIN pending : pending[k] \in P
      BY <2>1
    <2> QED
      BY <2>2 DEF P
  <1>7. \A w \in Pool : tasks[w] \in Seq(Task) /\ commands[w] \in Seq(Commands)
    BY <1>1
  <1>8. \A w \in Pool : \A k \in DOMAIN tasks[w] : tasks[w][k] \in Task
    BY <1>7
  <1>9. \A k \in DOMAIN pending : /\ pending[k].worker \in Pool
                                  /\ pending[k].of \in Asked
                                  /\ pending[k].of.row \in Nat
    BY <1>6 DEF Asked
  <1>10. Len(messages) \in Nat /\ DOMAIN messages = 1..Len(messages)
    BY <1>1
  <1>11. \A w \in Pool : commands[w] # <<>> =>
                   /\ Head(commands[w]) \in Commands /\ Tail(commands[w]) \in Seq(Commands)
                   /\ Head(commands[w]) = commands[w][1]
                   /\ Head(commands[w]).type \in {"start", "responses", "cancel", "shutdown"}
                   /\ Head(commands[w]).type = "start" => Head(commands[w]).tasks \in Seq(Task)
                   /\ Head(commands[w]).type = "responses" =>
                        Head(commands[w]).rows \in SUBSET Answers
    BY <1>4, <1>5
  <1> QED
    BY <1>1, <1>2, <1>3, <1>7, <1>8, <1>9, <1>10, <1>11

(* A step of a worker that keeps the types of its own state keeps those of *)
(* all of it.                                                              *)
LEMMA WorkerTypes ==
  ASSUME Typed, NEW w \in Pool,
         NEW c \in Seq(Commands), NEW ms \in Seq(Messages), NEW ts \in Seq(Task),
         NEW p \in {"ready", "opening", "resuming", "waiting", "dead", "gone"},
         NEW a \in Nat, p \in Passing => a >= 1, NEW in \in SUBSET Answers,
         commands' = [commands EXCEPT ![w] = c], messages' = messages \o ms,
         wpc' = [wpc EXCEPT ![w] = p], tasks' = [tasks EXCEPT ![w] = ts],
         at' = [at EXCEPT ![w] = a], inbox' = [inbox EXCEPT ![w] = in],
         panics' \in 0..MaxPanics,
         UNCHANGED <<searches, pc, slots, buckets, needs, active, target, arrived,
                     pending, responses, finished, failed, result, plays, abandoned,
                     calls>>
  PROVE  Typed'
PROOF
  <1>1. TypeOK /\ StartInv /\ PassInv
    BY DEF Typed
  <1>2. messages' \in Seq(Messages)
    BY <1>1 DEF TypeOK
  <1>3. commands' \in [Pool -> Seq(Commands)] /\ tasks' \in [Pool -> Seq(Task)]
    BY <1>1 DEF TypeOK
  <1>4. inbox' \in [Pool -> SUBSET Answers]
    BY <1>1 DEF TypeOK
  <1>5. /\ at' \in [Pool -> Nat]
        /\ wpc' \in [Pool -> {"ready", "opening", "resuming", "waiting", "dead", "gone"}]
    BY <1>1 DEF TypeOK
  <1>6. TypeOK'
    BY <1>1, <1>2, <1>3, <1>4, <1>5 DEF TypeOK
  <1>7. PassInv'
    BY <1>1 DEF PassInv, TypeOK
  <1>8. StartInv'
    BY <1>1 DEF StartInv
  <1> QED
    BY <1>6, <1>7, <1>8 DEF Typed

(* No step of a worker leaves the types.                                   *)
LEMMA WorkerKeepsTypes ==
  ASSUME Typed, NEW w \in Pool, WorkerStep(w)
  PROVE  Typed'
PROOF
  <1> USE DEF unworked, call, wave, outcome
  <1>1. TypeOK /\ PassInv
    BY DEF Typed
  <1>2. /\ commands[w] \in Seq(Commands) /\ tasks[w] \in Seq(Task)
        /\ wpc[w] \in {"ready", "opening", "resuming", "waiting", "dead", "gone"}
        /\ at[w] \in Nat /\ inbox[w] \in SUBSET Answers
        /\ messages \in Seq(Messages) /\ panics \in 0..MaxPanics
        /\ wpc[w] \in Passing => at[w] >= 1
    BY <1>1 DEF TypeOK, PassInv
  <1>20. messages = messages \o <<>>
    BY <1>1 DEF TypeOK
  <1>21. commands = [commands EXCEPT ![w] = commands[w]]
    BY <1>1 DEF TypeOK
  <1>22. tasks = [tasks EXCEPT ![w] = tasks[w]]
    BY <1>1 DEF TypeOK
  <1>23. wpc = [wpc EXCEPT ![w] = wpc[w]]
    BY <1>1 DEF TypeOK
  <1>24. at = [at EXCEPT ![w] = at[w]]
    BY <1>1 DEF TypeOK
  <1>25. inbox = [inbox EXCEPT ![w] = inbox[w]]
    BY <1>1 DEF TypeOK
  <1>3. /\ <<>> \in Seq(Commands) /\ <<>> \in Seq(Task) /\ <<>> \in Seq(Messages)
        /\ {} \in SUBSET Answers
    OBVIOUS
  <1>4. \A m \in Messages : <<m>> \in Seq(Messages) /\ Append(messages, m) = messages \o <<m>>
    BY <1>2
  <1>5. CASE Started(w)
    <2> DEFINE c == Tail(commands[w])
               ts == Head(commands[w]).tasks
    <2>0. UNCHANGED unworked
      BY <1>5 DEF Started
    <2>1. /\ commands[w] # <<>> /\ Head(commands[w]).type = "start"
          /\ commands' = [commands EXCEPT ![w] = c]
          /\ tasks' = [tasks EXCEPT ![w] = ts] /\ at' = [at EXCEPT ![w] = 1]
          /\ wpc' = [wpc EXCEPT ![w] = "opening"] /\ messages' = messages
          /\ inbox' = inbox /\ panics' = panics
      BY <1>5 DEF Started, Given, Takes, Moves
    <2>2. c \in Seq(Commands) /\ ts \in Seq(Task)
      BY <1>1, <2>1, Shapes
    <2> HIDE DEF c, ts
    <2>3. /\ messages' = messages \o <<>> /\ inbox' = [inbox EXCEPT ![w] = inbox[w]]
          /\ panics' \in 0..MaxPanics /\ 1 \in Nat /\ 1 >= 1
          /\ "opening" \in {"ready", "opening", "resuming", "waiting", "dead", "gone"}
      BY <1>2, <1>20, <1>25, <2>1
    <2> QED
      BY <1>2, <1>3, <1>5, <2>1, <2>2, <2>3, <2>0, WorkerTypes
  <1>6. CASE Resumed(w)
    <2> DEFINE c == Tail(commands[w])
               in == Head(commands[w]).rows
    <2>0. UNCHANGED unworked
      BY <1>6 DEF Resumed
    <2>1. /\ commands[w] # <<>> /\ Head(commands[w]).type = "responses"
          /\ commands' = [commands EXCEPT ![w] = c]
          /\ inbox' = [inbox EXCEPT ![w] = in] /\ at' = [at EXCEPT ![w] = 1]
          /\ wpc' = [wpc EXCEPT ![w] = "resuming"] /\ messages' = messages
          /\ tasks' = tasks /\ panics' = panics
      BY <1>6 DEF Resumed, Given, Takes, Moves
    <2>2. c \in Seq(Commands) /\ in \in SUBSET Answers
      BY <1>1, <2>1, Shapes
    <2> HIDE DEF c, in
    <2>3. /\ messages' = messages \o <<>> /\ tasks' = [tasks EXCEPT ![w] = tasks[w]]
          /\ panics' \in 0..MaxPanics /\ 1 \in Nat /\ 1 >= 1
          /\ "resuming" \in {"ready", "opening", "resuming", "waiting", "dead", "gone"}
      BY <1>2, <1>20, <1>22, <2>1
    <2> QED
      BY <1>2, <1>3, <1>6, <2>1, <2>2, <2>3, <2>0, WorkerTypes
  <1>7. CASE Cancelled(w)
    <2> DEFINE c == Tail(commands[w])
               ms == [k \in DOMAIN tasks[w] |->
                        [type |-> "finished", task |-> tasks[w][k], ok |-> FALSE]]
    <2>0. UNCHANGED unworked
      BY <1>7 DEF Cancelled
    <2>1. /\ commands[w] # <<>> /\ commands' = [commands EXCEPT ![w] = c]
          /\ tasks' = [tasks EXCEPT ![w] = <<>>] /\ at' = [at EXCEPT ![w] = 1]
          /\ wpc' = [wpc EXCEPT ![w] = "resuming"] /\ messages' = messages \o ms
          /\ inbox' = inbox /\ panics' = panics
      BY <1>7 DEF Cancelled, Given, Takes, Moves
    <2>2. c \in Seq(Commands)
      BY <1>1, <2>1, Shapes
    <2>3. ms \in Seq(Messages)
      <3>1. DOMAIN tasks[w] = 1..Len(tasks[w]) /\ Len(tasks[w]) \in Nat
        BY <1>2
      <3>2. \A k \in DOMAIN tasks[w] :
              [type |-> "finished", task |-> tasks[w][k], ok |-> FALSE] \in Messages
        BY <1>1, Shapes DEF Messages
      <3>3. ms \in [1..Len(tasks[w]) -> Messages]
        BY <3>1, <3>2
      <3> HIDE DEF ms
      <3> QED
        BY <3>1, <3>3, RowByRow
    <2> HIDE DEF c, ms
    <2>4. /\ inbox' = [inbox EXCEPT ![w] = inbox[w]]
          /\ panics' \in 0..MaxPanics /\ 1 \in Nat /\ 1 >= 1
          /\ "resuming" \in {"ready", "opening", "resuming", "waiting", "dead", "gone"}
      BY <1>2, <1>25, <2>1
    <2> QED
      BY <1>2, <1>3, <1>7, <2>1, <2>2, <2>3, <2>4, <2>0, WorkerTypes
  <1>8. CASE Told(w)
    <2> DEFINE c == Tail(commands[w])
    <2>0. UNCHANGED unworked
      BY <1>8 DEF Told
    <2>1. /\ commands[w] # <<>> /\ commands' = [commands EXCEPT ![w] = c]
          /\ tasks' = [tasks EXCEPT ![w] = <<>>] /\ at' = at
          /\ wpc' = [wpc EXCEPT ![w] = "gone"] /\ messages' = messages
          /\ inbox' = inbox /\ panics' = panics
      BY <1>8 DEF Told, Takes, Moves
    <2>2. c \in Seq(Commands)
      BY <1>1, <2>1, Shapes
    <2> HIDE DEF c
    <2>3. /\ messages' = messages \o <<>> /\ inbox' = [inbox EXCEPT ![w] = inbox[w]]
          /\ at' = [at EXCEPT ![w] = at[w]] /\ panics' \in 0..MaxPanics
          /\ "gone" \in {"ready", "opening", "resuming", "waiting", "dead", "gone"}
          /\ "gone" \notin Passing
      BY <1>2, <1>20, <1>24, <1>25, <2>1 DEF Passing
    <2> QED
      <3>1. /\ commands' = [commands EXCEPT ![w] = c] /\ tasks' = [tasks EXCEPT ![w] = <<>>]
            /\ wpc' = [wpc EXCEPT ![w] = "gone"] /\ at[w] \in Nat
            /\ inbox[w] \in SUBSET Answers
        BY <1>2, <2>1
      <3> QED
        BY <1>3, <2>2, <2>3, <2>0, <3>1, WorkerTypes
  <1>9. CASE Ask(w)
    <2> DEFINE t == [Present(w) EXCEPT !.left = @ - 1]
               ts == [tasks[w] EXCEPT ![at[w]] = t]
               m == [type |-> "request", worker |-> w, of |-> AskedBy(t)]
    <2>0. UNCHANGED unworked
      BY <1>9 DEF Ask
    <2>1. /\ InPass(w) /\ Present(w).left > 0
          /\ tasks' = [tasks EXCEPT ![w] = ts] /\ messages' = Append(messages, m)
          /\ at' = [at EXCEPT ![w] = at[w] + 1]
          /\ commands' = commands /\ wpc' = wpc /\ inbox' = inbox /\ panics' = panics
      BY <1>9 DEF Ask, Says
    <2>2. at[w] \in DOMAIN tasks[w] /\ wpc[w] \in Passing
      BY <1>2, <2>1 DEF InPass, Passing
    <2>3. Present(w) \in Task
      BY <1>1, <2>2, Shapes DEF Present
    <2>4. t \in Task
      BY <2>1, <2>3, BatchAssumption DEF Task
    <2>5. m \in Messages
      BY <2>4 DEF Messages, Asked, AskedBy, Task
    <2>6. ts \in Seq(Task)
      <3> HIDE DEF t
      <3> QED
        BY <1>2, <2>2, <2>4
    <2> HIDE DEF ts, m
    <2>7. /\ messages' = messages \o <<m>> /\ <<m>> \in Seq(Messages)
          /\ at[w] + 1 \in Nat /\ at[w] + 1 >= 1 /\ panics' \in 0..MaxPanics
      BY <1>2, <1>4, <2>1, <2>5
    <2>8. /\ commands' = [commands EXCEPT ![w] = commands[w]]
          /\ wpc' = [wpc EXCEPT ![w] = wpc[w]] /\ inbox' = [inbox EXCEPT ![w] = inbox[w]]
      BY <1>21, <1>23, <1>25, <2>1
    <2> QED
      <3>1. /\ tasks' = [tasks EXCEPT ![w] = ts] /\ at' = [at EXCEPT ![w] = at[w] + 1]
            /\ wpc[w] \in {"ready", "opening", "resuming", "waiting", "dead", "gone"}
            /\ inbox[w] \in SUBSET Answers /\ commands[w] \in Seq(Commands)
        BY <1>2, <2>1
      <3> QED
        BY <2>6, <2>7, <2>8, <2>0, <3>1, WorkerTypes
  <1>10. ASSUME NEW ok \in BOOLEAN, End(w, ok)
         PROVE  Typed'
    <2> DEFINE ts == RemoveAt(tasks[w], at[w])
               m == [type |-> "finished", task |-> Present(w), ok |-> ok]
    <2>0. UNCHANGED unworked
      BY <1>10 DEF End
    <2>1. /\ InPass(w) /\ tasks' = [tasks EXCEPT ![w] = ts]
          /\ messages' = Append(messages, m) /\ at' = at
          /\ commands' = commands /\ wpc' = wpc /\ inbox' = inbox /\ panics' = panics
      BY <1>10 DEF End, Says
    <2>2. at[w] \in DOMAIN tasks[w] /\ wpc[w] \in Passing
      BY <1>2, <2>1 DEF InPass, Passing
    <2>3. Present(w) \in Task
      BY <1>1, <2>2, Shapes DEF Present
    <2>4. m \in Messages
      BY <2>3 DEF Messages
    <2>5. ts \in Seq(Task)
      BY <1>2, <2>2 DEF RemoveAt
    <2> HIDE DEF ts, m
    <2>6. /\ messages' = messages \o <<m>> /\ <<m>> \in Seq(Messages)
          /\ panics' \in 0..MaxPanics
      BY <1>2, <1>4, <2>1, <2>4
    <2>7. /\ commands' = [commands EXCEPT ![w] = commands[w]] /\ at' = [at EXCEPT ![w] = at[w]]
          /\ wpc' = [wpc EXCEPT ![w] = wpc[w]] /\ inbox' = [inbox EXCEPT ![w] = inbox[w]]
      BY <1>21, <1>23, <1>24, <1>25, <2>1
    <2> QED
      <3> DEFINE c == commands[w]
                 p == wpc[w]
                 a == at[w]
                 in == inbox[w]
      <3>1. /\ tasks' = [tasks EXCEPT ![w] = ts] /\ a \in Nat
            /\ p \in {"ready", "opening", "resuming", "waiting", "dead", "gone"}
            /\ in \in SUBSET Answers /\ c \in Seq(Commands)
            /\ p \in Passing => a >= 1
        BY <1>2, <2>1
      <3>2. /\ commands' = [commands EXCEPT ![w] = c] /\ at' = [at EXCEPT ![w] = a]
            /\ wpc' = [wpc EXCEPT ![w] = p] /\ inbox' = [inbox EXCEPT ![w] = in]
        BY <2>7
      <3> HIDE DEF c, p, a, in
      <3> QED
        BY <2>5, <2>6, <2>0, <3>1, <3>2, WorkerTypes
  <1>11. CASE EndPass(w)
    <2>0. UNCHANGED unworked
      BY <1>11 DEF EndPass
    <2>1. PICK m \in Messages, p \in {"ready", "waiting"} :
            /\ messages' = Append(messages, m) /\ wpc' = [wpc EXCEPT ![w] = p]
      <3>1. /\ [type |-> "done", worker |-> w] \in Messages
            /\ [type |-> "barrier", worker |-> w] \in Messages
        BY DEF Messages
      <3> QED
        BY <1>11, <3>1 DEF EndPass, Says, Moves
    <2>2. /\ inbox' = [inbox EXCEPT ![w] = {}] /\ at' = [at EXCEPT ![w] = 0]
          /\ commands' = commands /\ tasks' = tasks /\ panics' = panics
      BY <1>11 DEF EndPass
    <2>3. /\ messages' = messages \o <<m>> /\ <<m>> \in Seq(Messages)
          /\ p \in {"ready", "opening", "resuming", "waiting", "dead", "gone"}
          /\ p \notin Passing /\ 0 \in Nat /\ panics' \in 0..MaxPanics
      BY <1>2, <1>4, <2>1, <2>2 DEF Passing
    <2>4. /\ commands' = [commands EXCEPT ![w] = commands[w]]
          /\ tasks' = [tasks EXCEPT ![w] = tasks[w]]
      BY <1>21, <1>22, <2>2
    <2> QED
      BY <1>2, <1>3, <1>11, <2>1, <2>2, <2>3, <2>4, <2>0, WorkerTypes
  <1>12. ASSUME Dies(w), UNCHANGED unworked, panics' \in 0..MaxPanics
         PROVE  Typed'
    <2> DEFINE m == [type |-> "panicked", worker |-> w]
    <2>1. /\ messages' = Append(messages, m) /\ wpc' = [wpc EXCEPT ![w] = "dead"]
          /\ inbox' = [inbox EXCEPT ![w] = {}] /\ at' = [at EXCEPT ![w] = 0]
          /\ commands' = [commands EXCEPT ![w] = <<>>]
          /\ tasks' = [tasks EXCEPT ![w] = <<>>]
      BY <1>12 DEF Dies, Says, Moves
    <2>2. m \in Messages
      BY DEF Messages
    <2> HIDE DEF m
    <2>3. /\ messages' = messages \o <<m>> /\ <<m>> \in Seq(Messages)
          /\ "dead" \in {"ready", "opening", "resuming", "waiting", "dead", "gone"}
          /\ "dead" \notin Passing /\ 0 \in Nat
      BY <1>4, <2>1, <2>2 DEF Passing
    <2> QED
      BY <1>3, <1>12, <2>1, <2>3, WorkerTypes
  <1>13. CASE EnginePanics(w)
    <2>1. panics' \in 0..MaxPanics
      BY <1>2, <1>13, SchedulerAssumption DEF EnginePanics
    <2> QED
      BY <1>12, <1>13, <2>1 DEF EnginePanics
  <1>14. CASE ProtocolPanics(w)
    <2>1. panics' \in 0..MaxPanics
      BY <1>2, <1>14 DEF ProtocolPanics
    <2> QED
      BY <1>12, <1>14, <2>1 DEF ProtocolPanics
  <1> QED
    BY <1>5, <1>6, <1>7, <1>8, <1>9, <1>10, <1>11, <1>13, <1>14 DEF WorkerStep

(* The answers of a chunk are answers. *)
LEMMA AnswersTyped ==
  ASSUME TypeOK, NEW order \in Orders(Chunk)
  PROVE  \A k \in DOMAIN Chunk :
           /\ Chunk[k].worker \in Pool /\ Chunk[k].of \in Asked /\ Chunk[k].of.row \in Nat
           /\ Answered(Chunk, k, order) = Chunk[k].of
           /\ [row |-> Chunk[k].of.row, of |-> Answered(Chunk, k, order)] \in Answers
PROOF
  <1> DEFINE P == [worker : Pool, of : Asked]
             chunk == FirstChunk(pending)
  <1>1. pending \in Seq(P)
    BY DEF TypeOK
  <1>2. chunk \in Seq(P) /\ Chunk = chunk
    <2> HIDE DEF P
    <2> QED
      BY <1>1, Cut DEF Chunk
  <1>3. \A k \in DOMAIN chunk : chunk[k] \in P
    <2> HIDE DEF P, chunk
    <2> QED
      BY <1>2
  <1>4. \A k \in DOMAIN chunk : Answered(chunk, k, order) = chunk[k].of
    <2> HIDE DEF P, chunk
    <2> QED
      BY <1>2, AnsweredById
  <1> QED
    BY <1>2, <1>3, <1>4 DEF Asked, Answers

(* No step by which a call begins or ends leaves the types.                *)
LEMMA CallKeepsTypes ==
  ASSUME Typed,
         \/ \E request \in Requests :
              \/ \E need \in [DOMAIN request -> 0..MaxEvals] : Play(request, need)
              \/ \E k \in DOMAIN request : PlayRejected(request, k)
         \/ \E s \in Slots : Reset(s)
         \/ Drop \/ Joined \/ SendStart \/ BeginWaves
  PROVE  Typed'
PROOF
  <1> USE DEF channels, call, wave, outcome, workers, history
  <1>1. TypeOK /\ StartInv /\ PassInv
    BY DEF Typed
  <1>2. ASSUME NEW request \in Requests, NEW need \in [DOMAIN request -> 0..MaxEvals],
               Play(request, need)
        PROVE  Typed'
    <2> DEFINE B == Buckets(request, need, plays + 1)
    <2>1. /\ plays' = plays + 1 /\ slots' = request /\ needs' = need /\ buckets' = B
          /\ searches' = [s \in Slots |-> IF s \in Range(request) THEN "taken" ELSE searches[s]]
          /\ finished' = {} /\ failed' = FALSE /\ calls' = <<>>
          /\ result' = [kind |-> "none", plays |-> {}] /\ pc' = "starting"
          /\ plays < MaxPlays
          /\ UNCHANGED <<messages, commands, active, target, arrived, pending, responses,
                         wpc, tasks, at, inbox, panics, abandoned>>
      BY <1>2 DEF Play
    <2>2. request \in Seq(Slots) /\ Len(request) \in Nat /\ DOMAIN request = 1..Len(request)
      BY SchedulerAssumption
    <2>3. plays + 1 \in 1..MaxPlays /\ plays' \in 0..MaxPlays
      BY <1>1, <2>1, SchedulerAssumption DEF TypeOK
    <2>4. B \in Seq(Seq(Task)) /\ Len(B) = WorkerCount(Len(request))
      <3>1. PICK n : n = Len(request)
        OBVIOUS
      <3>2. PICK b : b = Buckets(request, need, plays + 1)
        OBVIOUS
      <3>3. b \in Seq(Seq(Task)) /\ Len(b) = WorkerCount(n)
        BY <2>2, <2>3, <3>1, <3>2, BucketRows
      <3> QED
        BY <3>1, <3>2, <3>3
    <2>5. needs' \in Seq(0..MaxEvals)
      <3>1. need \in [1..Len(request) -> 0..MaxEvals]
        BY <2>2
      <3> QED
        BY <2>1, <2>2, <3>1, RowByRow
    <2>6. searches' \in [Slots -> Contents]
      BY <1>1, <2>1 DEF TypeOK, Contents
    <2>7. result' \in [kind : Outcomes, plays : SUBSET Nat]
      BY <2>1 DEF Outcomes
    <2>8. calls' \in Seq(Seq(Nat))
      BY <2>1
    <2> HIDE DEF B
    <2>9. TypeOK'
      BY <1>1, <2>1, <2>2, <2>3, <2>4, <2>5, <2>6, <2>7, <2>8 DEF TypeOK
    <2>10. StartInv'
      BY <2>1, <2>2, <2>4, Crews DEF StartInv
    <2>11. PassInv'
      BY <1>1, <2>1 DEF PassInv
    <2> QED
      BY <2>9, <2>10, <2>11 DEF Typed
  <1>3. ASSUME NEW request \in Requests, NEW k \in DOMAIN request, PlayRejected(request, k)
        PROVE  Typed'
    <2>1. /\ plays' = plays + 1 /\ plays < MaxPlays /\ pc' = "idle"
          /\ searches' = [s \in Slots |->
               IF \E r \in 1..k : request[r] = s THEN "taken" ELSE searches[s]]
          /\ result' = [kind |-> "rejected", plays |-> {}]
          /\ UNCHANGED <<messages, commands, slots, buckets, needs, active, target,
                         arrived, pending, responses, finished, failed, wpc, tasks, at,
                         inbox, panics, abandoned, calls>>
      BY <1>3 DEF PlayRejected, Return
    <2>2. plays' \in 0..MaxPlays
      BY <1>1, <2>1, SchedulerAssumption DEF TypeOK
    <2>3. searches' \in [Slots -> Contents]
      BY <1>1, <2>1 DEF TypeOK, Contents
    <2>4. result' \in [kind : Outcomes, plays : SUBSET Nat]
      BY <2>1 DEF Outcomes
    <2>5. TypeOK'
      BY <1>1, <2>1, <2>2, <2>3, <2>4 DEF TypeOK
    <2> QED
      BY <1>1, <2>1, <2>5 DEF Typed, StartInv, PassInv
  <1>4. ASSUME NEW s \in Slots, Reset(s)
        PROVE  Typed'
    <2>1. /\ searches' = [searches EXCEPT ![s] = "clean"]
          /\ UNCHANGED <<messages, commands, pc, slots, buckets, needs, active, target,
                         arrived, pending, responses, finished, failed, result, wpc,
                         tasks, at, inbox, plays, panics, abandoned, calls>>
      BY <1>4 DEF Reset
    <2>2. searches' \in [Slots -> Contents]
      BY <1>1, <2>1 DEF TypeOK, Contents
    <2>3. TypeOK'
      BY <1>1, <2>1, <2>2 DEF TypeOK
    <2> QED
      BY <1>1, <2>1, <2>3 DEF Typed, StartInv, PassInv
  <1>5. CASE Drop
    <2>1. /\ commands' = [w \in Pool |->
               IF wpc[w] = "dead" THEN commands[w]
               ELSE Append(commands[w], [type |-> "shutdown"])]
          /\ pc' = "dropping"
          /\ UNCHANGED <<searches, messages, slots, buckets, needs, active, target,
                         arrived, pending, responses, finished, failed, result, wpc,
                         tasks, at, inbox, plays, panics, abandoned, calls>>
      BY <1>5 DEF Drop
    <2>2. [type |-> "shutdown"] \in Commands
      BY DEF Commands
    <2>3. \A w \in Pool : commands[w] \in Seq(Commands)
      BY <1>1 DEF TypeOK
    <2>4. commands' \in [Pool -> Seq(Commands)]
      BY <2>1, <2>2, <2>3
    <2>5. TypeOK'
      BY <1>1, <2>1, <2>4 DEF TypeOK
    <2> QED
      BY <1>1, <2>1, <2>5 DEF Typed, StartInv, PassInv
  <1>6. CASE Joined
    <2>1. /\ pc' = "dropped"
          /\ UNCHANGED <<searches, messages, commands, slots, buckets, needs, active,
                         target, arrived, pending, responses, finished, failed, result,
                         wpc, tasks, at, inbox, plays, panics, abandoned, calls>>
      BY <1>6 DEF Joined
    <2>2. TypeOK'
      BY <1>1, <2>1 DEF TypeOK
    <2> QED
      BY <1>1, <2>1, <2>2 DEF Typed, StartInv, PassInv
  <1>7. CASE SendStart
    <2> DEFINE w == WorkerCount(Len(slots)) - Len(buckets) + 1
    <2>1. /\ pc = "starting" /\ buckets # <<>> /\ buckets' = Tail(buckets)
          /\ UNCHANGED <<searches, messages, slots, needs, active, target, arrived,
                         pending, responses, finished, failed, wpc, tasks, at, inbox,
                         plays, panics, calls>>
      BY <1>7 DEF SendStart
    <2>2. /\ slots \in Seq(Slots) /\ buckets \in Seq(Seq(Task)) /\ Len(slots) \in Nat
          /\ commands \in [Pool -> Seq(Commands)]
      BY <1>1 DEF TypeOK
    <2>3. /\ Len(buckets) \in 1..WorkerCount(Len(slots)) /\ Head(buckets) \in Seq(Task)
          /\ buckets' \in Seq(Seq(Task)) /\ Len(buckets') = Len(buckets) - 1
      BY <1>1, <2>1, <2>2 DEF StartInv
    <2>4. w \in Pool
      <3>1. /\ WorkerCount(Len(slots)) \in Nat
            /\ 1..WorkerCount(Len(slots)) \subseteq Pool
        BY <2>2, Crews
      <3>2. w \in 1..WorkerCount(Len(slots))
        BY <2>3, <3>1
      <3> QED
        BY <3>1, <3>2
    <2>5. [type |-> "start", tasks |-> Head(buckets)] \in Commands
      BY <2>3 DEF Commands
    <2>6. CASE wpc[w] \in {"dead", "gone"}
      <3>1. /\ result' = [kind |-> "not_running", plays |-> {}] /\ pc' = "idle"
            /\ abandoned' = TRUE /\ commands' = commands
        BY <1>7, <2>6 DEF SendStart, Return
      <3>2. result' \in [kind : Outcomes, plays : SUBSET Nat]
        BY <3>1 DEF Outcomes
      <3>3. TypeOK'
        BY <1>1, <2>1, <2>3, <3>1, <3>2 DEF TypeOK
      <3> QED
        BY <1>1, <2>1, <3>1, <3>3 DEF Typed, StartInv, PassInv
    <2>7. CASE wpc[w] \notin {"dead", "gone"}
      <3> DEFINE c == [type |-> "start", tasks |-> Head(buckets)]
      <3>1. /\ commands' = [commands EXCEPT ![w] = Append(commands[w], c)]
            /\ pc' = pc /\ result' = result /\ abandoned' = abandoned
        BY <1>7, <2>7 DEF SendStart
      <3>2. commands' \in [Pool -> Seq(Commands)]
        <4> HIDE DEF w, c
        <4>1. Append(commands[w], c) \in Seq(Commands)
          BY <2>2, <2>4, <2>5 DEF c
        <4> QED
          BY <2>2, <2>4, <3>1, <4>1
      <3>3. TypeOK'
        BY <1>1, <2>1, <2>3, <3>1, <3>2 DEF TypeOK
      <3>4. StartInv'
        BY <2>1, <2>2, <2>3, Crews DEF StartInv
      <3> QED
        BY <1>1, <2>1, <3>3, <3>4 DEF Typed, PassInv
    <2> QED
      BY <2>6, <2>7
  <1>8. CASE BeginWaves
    <2>1. /\ active' = 1..WorkerCount(Len(slots)) /\ target' = 1..WorkerCount(Len(slots))
          /\ arrived' = {} /\ pending' = <<>> /\ responses' = Nobody /\ pc' = "collecting"
          /\ UNCHANGED <<searches, messages, commands, slots, buckets, needs, finished,
                         failed, result, wpc, tasks, at, inbox, plays, panics, abandoned,
                         calls>>
      BY <1>8 DEF BeginWaves, NewWave
    <2>2. Len(slots) \in Nat
      BY <1>1 DEF TypeOK
    <2>3. 1..WorkerCount(Len(slots)) \subseteq Pool
      BY <2>2, Crews
    <2>4. responses' \in [Pool -> SUBSET Answers]
      BY <2>1 DEF Nobody
    <2>5. pending' \in Seq([worker : Pool, of : Asked])
      BY <2>1
    <2>6. TypeOK'
      BY <1>1, <2>1, <2>3, <2>4, <2>5 DEF TypeOK
    <2> QED
      BY <1>1, <2>1, <2>6 DEF Typed, StartInv, PassInv
  <1> QED
    BY <1>2, <1>3, <1>4, <1>5, <1>6, <1>7, <1>8

(* No step of a wave leaves the types.                                     *)
LEMMA WaveKeepsTypes ==
  ASSUME Typed,
         \/ Receive \/ CloseWave \/ EvaluateChunk \/ EvaluationFails \/ Reply \/ Restore
  PROVE  Typed'
PROOF
  <1> USE DEF channels, call, wave, outcome, workers, history
  <1>1. TypeOK /\ StartInv /\ PassInv
    BY DEF Typed
  <1> DEFINE P == [worker : Pool, of : Asked]
  <1>2. pending \in Seq(P)
    BY <1>1 DEF TypeOK
  <1>3. CASE Receive
    <2> DEFINE m == Head(messages)
    <2>1. /\ messages # <<>> /\ messages' = Tail(messages) /\ pc = "collecting"
          /\ UNCHANGED <<searches, commands, pc, slots, buckets, needs, target,
                         responses, result, wpc, tasks, at, inbox, plays, panics,
                         abandoned, calls>>
      BY <1>3 DEF Receive
    <2>2. /\ m \in Messages /\ messages' \in Seq(Messages)
          /\ m.type \in {"request", "finished", "barrier", "done", "panicked"}
      <3>1. messages \in Seq(Messages)
        BY <1>1 DEF TypeOK
      <3>2. m \in Messages /\ messages' \in Seq(Messages)
        BY <2>1, <3>1
      <3> QED
        BY <3>2 DEF Messages
    <2>3. CASE m.type = "request"
      <3>1. /\ pending' = Append(pending, [worker |-> m.worker, of |-> m.of])
            /\ UNCHANGED <<active, arrived, finished, failed>>
        BY <1>3, <2>3 DEF Receive
      <3>2. [worker |-> m.worker, of |-> m.of] \in P
        BY <2>2, <2>3 DEF Messages
      <3>3. pending' \in Seq(P)
        <4> HIDE DEF P
        <4> QED
          BY <1>2, <3>1, <3>2
      <3>4. TypeOK'
        BY <1>1, <2>1, <2>2, <3>1, <3>3 DEF TypeOK
      <3> QED
        BY <1>1, <2>1, <3>4 DEF Typed, StartInv, PassInv
    <2>4. CASE m.type = "finished"
      <3>1. /\ finished' = finished \cup {[task |-> m.task, ok |-> m.ok]}
            /\ UNCHANGED <<active, arrived, pending, failed>>
        BY <1>3, <2>4 DEF Receive
      <3>2. [task |-> m.task, ok |-> m.ok] \in [task : Task, ok : BOOLEAN]
        BY <2>2, <2>4 DEF Messages
      <3>3. TypeOK'
        BY <1>1, <2>1, <2>2, <3>1, <3>2 DEF TypeOK
      <3> QED
        BY <1>1, <2>1, <3>3 DEF Typed, StartInv, PassInv
    <2>5. CASE m.type \in {"barrier", "done", "panicked"}
      <3>1. /\ arrived' \in {arrived, arrived \cup {m.worker}}
            /\ arrived' # arrived => m.worker \in target
            /\ active' \subseteq active /\ failed' \in {failed, TRUE}
            /\ UNCHANGED <<pending, finished>>
        BY <1>3, <2>5 DEF Receive, Arrive
      <3>2. arrived' \subseteq target' /\ active' \subseteq Pool /\ failed' \in BOOLEAN
        BY <1>1, <2>1, <3>1 DEF TypeOK
      <3>3. TypeOK'
        BY <1>1, <2>1, <2>2, <3>1, <3>2 DEF TypeOK
      <3> QED
        BY <1>1, <2>1, <3>3 DEF Typed, StartInv, PassInv
    <2> QED
      BY <2>2, <2>3, <2>4, <2>5
  <1>4. CASE CloseWave
    <2>1. /\ pending' = InRowOrder(pending) /\ pc' \in {"replying", "evaluating"}
          /\ UNCHANGED <<searches, messages, commands, slots, buckets, needs, active,
                         target, arrived, responses, finished, failed, result, wpc,
                         tasks, at, inbox, plays, panics, abandoned, calls>>
      BY <1>4 DEF CloseWave
    <2>2. \A k \in DOMAIN pending : pending[k].of.row \in Nat
      BY <1>1, Shapes
    <2>3. pending' \in Seq(P)
      <3> HIDE DEF P
      <3> QED
        BY <1>2, <2>1, <2>2, RowOrder
    <2>4. TypeOK'
      BY <1>1, <2>1, <2>3 DEF TypeOK
    <2> QED
      BY <1>1, <2>1, <2>4 DEF Typed, StartInv, PassInv
  <1>5. CASE EvaluateChunk
    <2> DEFINE batch == [k \in DOMAIN Chunk |-> Chunk[k].of.row]
    <2>1. /\ pc = "evaluating" /\ calls' = Append(calls, batch)
          /\ UNCHANGED <<searches, messages, commands, slots, buckets, needs, active,
                         target, arrived, finished, failed, wpc, tasks, at, inbox,
                         plays, panics, abandoned>>
      BY <1>5 DEF EvaluateChunk
    <2>2. Chunk \in Seq(P) /\ OtherChunks(pending) \in Seq(P)
      <3> HIDE DEF P
      <3> QED
        BY <1>2, Cut DEF Chunk
    <2>3. calls' \in Seq(Seq(Nat))
      <3> DEFINE c == Len(Chunk)
      <3>1. c \in Nat /\ DOMAIN Chunk = 1..c /\ \A k \in 1..c : Chunk[k] \in P
        <4> HIDE DEF P
        <4> QED
          BY <2>2
      <3>2. \A k \in 1..c : Chunk[k].of.row \in Nat
        BY <3>1 DEF Asked
      <3>3. batch \in [1..c -> Nat]
        BY <3>1, <3>2
      <3> HIDE DEF batch, c
      <3>4. batch \in Seq(Nat)
        BY <3>1, <3>3, RowByRow
      <3>5. calls \in Seq(Seq(Nat))
        BY <1>1 DEF TypeOK
      <3> QED
        BY <2>1, <3>4, <3>5
    <2>4. CASE Unroutable
      <3>1. /\ result' = [kind |-> "error", plays |-> {}] /\ pc' = "idle"
            /\ responses' = responses /\ pending' = pending
        BY <1>5, <2>4 DEF EvaluateChunk, Return
      <3>2. result' \in [kind : Outcomes, plays : SUBSET Nat]
        BY <3>1 DEF Outcomes
      <3>3. TypeOK'
        BY <1>1, <2>1, <2>3, <3>1, <3>2 DEF TypeOK
      <3> QED
        BY <1>1, <2>1, <3>1, <3>3 DEF Typed, StartInv, PassInv
    <2>5. CASE ~Unroutable
      <3>1. PICK order \in Orders(Chunk) :
              responses' = [w \in Pool |-> responses[w] \cup
                     {[row |-> Chunk[k].of.row, of |-> Answered(Chunk, k, order)] :
                         k \in {i \in DOMAIN Chunk : Chunk[i].worker = w}}]
        BY <1>5, <2>5 DEF EvaluateChunk
      <3>2. /\ pending' = OtherChunks(pending) /\ pc' \in {"replying", "evaluating"}
            /\ result' = result
        BY <1>5, <2>5 DEF EvaluateChunk
      <3>3. responses' \in [Pool -> SUBSET Answers]
        <4>1. \A w \in Pool : responses[w] \in SUBSET Answers
          BY <1>1 DEF TypeOK
        <4>2. \A k \in DOMAIN Chunk :
                [row |-> Chunk[k].of.row, of |-> Answered(Chunk, k, order)] \in Answers
          BY <1>1, AnswersTyped
        <4> QED
          BY <3>1, <4>1, <4>2
      <3>4. TypeOK'
        BY <1>1, <2>1, <2>2, <2>3, <3>2, <3>3 DEF TypeOK
      <3> QED
        BY <1>1, <2>1, <3>2, <3>4 DEF Typed, StartInv, PassInv
    <2> QED
      BY <2>4, <2>5
  <1>6. CASE EvaluationFails
    <2>1. /\ failed' = TRUE /\ pc' = "replying"
          /\ UNCHANGED <<searches, messages, commands, slots, buckets, needs, active,
                         target, arrived, pending, responses, finished, result, wpc,
                         tasks, at, inbox, plays, panics, abandoned, calls>>
      BY <1>6 DEF EvaluationFails
    <2>2. TypeOK'
      BY <1>1, <2>1 DEF TypeOK
    <2> QED
      BY <1>1, <2>1, <2>2 DEF Typed, StartInv, PassInv
  <1>7. CASE Reply
    <2> DEFINE c(w) == IF failed THEN [type |-> "cancel"]
                       ELSE [type |-> "responses", rows |-> responses[w]]
    <2>1. /\ commands' = [w \in Pool |->
                IF w \notin active \/ wpc[w] \in {"dead", "gone"} THEN commands[w]
                ELSE Append(commands[w], c(w))]
          /\ active' = active /\ target' = active /\ arrived' = {}
          /\ pending' = <<>> /\ responses' = Nobody
          /\ pc' \in {"restoring", "collecting"}
          /\ UNCHANGED <<searches, messages, slots, buckets, needs, finished, failed,
                         result, wpc, tasks, at, inbox, plays, panics, abandoned, calls>>
      BY <1>7 DEF Reply, NewWave
    <2>2. \A w \in Pool : c(w) \in Commands /\ commands[w] \in Seq(Commands)
      BY <1>1 DEF TypeOK, Commands
    <2>3. commands' \in [Pool -> Seq(Commands)]
      <3> HIDE DEF c
      <3> QED
        BY <2>1, <2>2
    <2>4. responses' \in [Pool -> SUBSET Answers]
      BY <2>1 DEF Nobody
    <2>5. pending' \in Seq([worker : Pool, of : Asked])
      BY <2>1
    <2> HIDE DEF c
    <2>6. TypeOK'
      BY <1>1, <2>1, <2>3, <2>4, <2>5 DEF TypeOK
    <2> QED
      BY <1>1, <2>1, <2>6 DEF Typed, StartInv, PassInv
  <1>8. CASE Restore
    <2>1. /\ searches' \in [Slots -> {"used", "clean"} \cup {searches[s] : s \in Slots}]
          /\ pc' = "idle"
          /\ UNCHANGED <<messages, commands, slots, buckets, needs, active, target,
                         arrived, pending, responses, finished, failed, wpc, tasks, at,
                         inbox, plays, panics, abandoned, calls>>
      BY <1>8 DEF Restore, Return
    <2>2. searches' \in [Slots -> Contents]
      BY <1>1, <2>1 DEF TypeOK, Contents
    <2>3. result' \in [kind : Outcomes, plays : SUBSET Nat]
      <3>1. CASE failed \/ Stray # {} \/ \E r \in Rows : Back(r) = {} \/ ~Latest(r).ok
        BY <1>8, <3>1 DEF Restore, Return, Outcomes
      <3>2. CASE ~(failed \/ Stray # {} \/ \E r \in Rows : Back(r) = {} \/ ~Latest(r).ok)
        <4>1. result' = [kind |-> "ok", plays |-> {Latest(r).task.play : r \in Rows}]
          BY <1>8, <3>2 DEF Restore
        <4>2. \A r \in Rows : Latest(r) \in finished
          BY <1>1, <3>2, LatestExists DEF Back
        <4>3. \A r \in Rows : Latest(r).task.play \in Nat
          BY <1>1, <4>2 DEF TypeOK, Task
        <4> QED
          BY <4>1, <4>3 DEF Outcomes
      <3> QED
        BY <3>1, <3>2
    <2>4. TypeOK'
      BY <1>1, <2>1, <2>2, <2>3 DEF TypeOK
    <2> QED
      BY <1>1, <2>1, <2>4 DEF Typed, StartInv, PassInv
  <1> QED
    BY <1>3, <1>4, <1>5, <1>6, <1>7, <1>8

(* The workers a call uses, and those it has told to start so far.         *)
Crew == 1..WorkerCount(Len(slots))
Sent == WorkerCount(Len(slots)) - Len(buckets)

InWave  == {"collecting", "evaluating", "replying"}
Closing == {"dropping", "dropped"}

(* The workers the coordinator waits for, and those that wait for it.      *)
Out  == IF pc = "starting" THEN 1..Sent
        ELSE IF pc = "collecting" THEN target \ arrived ELSE {}
Held == IF pc \in InWave THEN active \ Out ELSE {}

(* Who says m in a call of n rows.  The last word of a pass, and what the  *)
(* worker does after it.                                                   *)
Sender(m, n) == IF m.type = "finished" THEN WorkerOf(m.task.row, n) ELSE m.worker
Silent(w, ms, n) == \A i \in DOMAIN ms : Sender(ms[i], n) # w
LastWords == {"barrier", "done", "panicked"}
After(m) == IF m.type = "barrier" THEN "waiting"
            ELSE IF m.type = "done" THEN "ready" ELSE "dead"

(* What w has asked for, on its way, in the wave or answered.              *)
RequestsOf(ms) == {ms[i].of : i \in {j \in DOMAIN ms : ms[j].type = "request"}}
Asking(w, ms) == {ms[i].of : i \in {j \in DOMAIN ms : ms[j].type = "request" /\ ms[j].worker = w}}
Gathered(w, ps) == {ps[k].of : k \in {l \in DOMAIN ps : ps[l].worker = w}}
Routed(as) == {a.of : a \in as}
Requested(w) == Asking(w, messages) \cup Gathered(w, pending) \cup Routed(responses[w])
AskedOf(ts, n) == {AskedBy(ts[k]) : k \in 1..n}

PhaseInv ==
    /\ pc \notin InWave => pending = <<>>
    /\ pc \notin {"evaluating", "replying"} => responses = Nobody
    /\ pc = "evaluating" => ~failed
    /\ pc = "replying" /\ ~failed => pending = <<>>
    /\ pc = "restoring" => active = {}
    /\ pc \in InWave => /\ target \subseteq Crew /\ active \subseteq target
                        /\ target \ active \subseteq arrived
    /\ pc \in {"evaluating", "replying"} => arrived = target
    /\ \A k \in DOMAIN pending : pending[k].worker \in target
    /\ \A w \in Pool : \A a \in responses[w] : a.row = a.of.row

CommandInv ==
    \A w \in Pool : commands[w] # <<>> =>
        /\ Len(commands[w]) = 1 /\ Silent(w, messages, Len(slots))
        /\ IF Head(commands[w]).type = "shutdown"
           THEN pc \in Closing /\ wpc[w] = "ready"
           ELSE /\ w \in Out
                /\ wpc[w] = IF Head(commands[w]).type = "start" THEN "ready" ELSE "waiting"

TurnInv ==
    \A w \in Pool :
        /\ w \notin Out => Silent(w, messages, Len(slots))
        /\ wpc[w] \in Passing => /\ w \in Out /\ commands[w] = <<>>
                                 /\ at[w] <= Len(tasks[w]) + 1
        /\ wpc[w] = "gone" => pc \in Closing
        /\ wpc[w] \in {"ready", "dead", "gone"} => tasks[w] = <<>>
        /\ wpc[w] = "waiting" => w \in Out \cup Held
        /\ w \in Held => wpc[w] = "waiting" /\ commands[w] = <<>>

MessageInv ==
    \A i \in DOMAIN messages :
        /\ Sender(messages[i], Len(slots)) \in Pool
        /\ messages[i].type \in LastWords =>
             /\ \A j \in DOMAIN messages :
                  Sender(messages[j], Len(slots)) = Sender(messages[i], Len(slots)) => j <= i
             /\ wpc[Sender(messages[i], Len(slots))] = After(messages[i])

TaskInv ==
    /\ pc = "starting" => \A k \in DOMAIN buckets : Owns(Sent + k, buckets[k], slots)
    /\ \A w \in Pool : Owns(w, tasks[w], slots)
    /\ \A w \in Pool : commands[w] # <<>> /\ Head(commands[w]).type = "start" =>
         Owns(w, Head(commands[w]).tasks, slots)
    /\ \A i \in DOMAIN messages : messages[i].type = "finished" => Own(messages[i].task, slots)
    /\ \A f \in finished : Own(f.task, slots)

RequestInv ==
    \A w \in Pool :
        /\ commands[w] # <<>> => Requested(w) = {}
        /\ wpc[w] \in Passing => Requested(w) = AskedOf(tasks[w], at[w] - 1)
        /\ wpc[w] = "waiting" /\ commands[w] = <<>> =>
             Requested(w) = AskedOf(tasks[w], Len(tasks[w]))

(* No search is lost but by a panic.                                       *)
Covered(r, w) ==
    \/ wpc[w] = "dead"
    \/ \E f \in finished : f.task.row = r
    \/ \E i \in DOMAIN messages : messages[i].type = "finished" /\ messages[i].task.row = r
    \/ Holds(tasks[w], r)
    \/ commands[w] # <<>> /\ Head(commands[w]).type = "start" /\ Holds(Head(commands[w]).tasks, r)
    \/ pc = "starting" /\ w > Sent /\ Holds(buckets[w - Sent], r)
CoverInv == \A r \in Rows : Covered(r, WorkerOf(r, Len(slots)))

Tidy == /\ PhaseInv /\ CommandInv /\ TurnInv /\ MessageInv /\ TaskInv /\ RequestInv
        /\ CoverInv /\ OneOwnAnswerEach /\ CapacityKept

CloudInv == Typed /\ (~abandoned => Tidy)

(* A step of a worker whose turn it is.                                    *)
LEMMA WorkerMoves ==
  ASSUME Typed, Tidy, NEW w \in Pool, w \in Out, wpc[w] # "dead",
         \A i \in DOMAIN messages :
           Sender(messages[i], Len(slots)) = w => messages[i].type \notin LastWords,
         NEW ms \in Seq(Messages), NEW ts \in Seq(Task), NEW a \in Nat,
         NEW p \in {"ready", "opening", "resuming", "waiting", "dead"},
         messages' = messages \o ms, commands' = [commands EXCEPT ![w] = <<>>],
         wpc' = [wpc EXCEPT ![w] = p], tasks' = [tasks EXCEPT ![w] = ts],
         at' = [at EXCEPT ![w] = a],
         \A j \in DOMAIN ms :
           /\ Sender(ms[j], Len(slots)) = w
           /\ ms[j].type = "finished" => Own(ms[j].task, slots)
           /\ ms[j].type \in LastWords => j = Len(ms) /\ After(ms[j]) = p,
         p \in {"ready", "dead"} => ts = <<>>,
         p \in Passing => a <= Len(ts) + 1 /\ Requested(w) \cup RequestsOf(ms) = AskedOf(ts, a - 1),
         p = "waiting" => Requested(w) \cup RequestsOf(ms) = AskedOf(ts, Len(ts)),
         Owns(w, ts, slots),
         p = "dead" \/ \A r \in Rows :
           \/ Holds(tasks[w], r)
           \/ commands[w] # <<>> /\ Head(commands[w]).type = "start"
                /\ Holds(Head(commands[w]).tasks, r)
           => \/ Holds(ts, r)
              \/ \E j \in DOMAIN ms : ms[j].type = "finished" /\ ms[j].task.row = r,
         UNCHANGED <<searches, pc, slots, buckets, needs, active, target, arrived,
                     pending, responses, finished, failed, result, plays, abandoned,
                     calls>>
  PROVE  Tidy'
PROOF
  <1> DEFINE n == Len(messages)
  <1>1. /\ TypeOK /\ PhaseInv /\ CommandInv /\ TurnInv /\ MessageInv /\ TaskInv
        /\ RequestInv /\ CoverInv /\ OneOwnAnswerEach /\ CapacityKept
    BY DEF Tidy, Typed
  <1>2. /\ commands \in [Pool -> Seq(Commands)] /\ tasks \in [Pool -> Seq(Task)]
        /\ at \in [Pool -> Nat] /\ messages \in Seq(Messages) /\ n \in Nat
        /\ wpc \in [Pool -> {"ready", "opening", "resuming", "waiting", "dead", "gone"}]
    BY <1>1 DEF TypeOK
  <1>3. /\ commands'[w] = <<>> /\ wpc'[w] = p /\ tasks'[w] = ts /\ at'[w] = a
        /\ \A v \in Pool : v # w =>
             /\ commands'[v] = commands[v] /\ wpc'[v] = wpc[v]
             /\ tasks'[v] = tasks[v] /\ at'[v] = at[v]
    BY <1>2
  <1>4. /\ \A i \in DOMAIN messages' :
             \/ i \in DOMAIN messages /\ i <= n /\ messages'[i] = messages[i]
             \/ \E j \in DOMAIN ms : i = n + j /\ messages'[i] = ms[j]
        /\ \A i \in DOMAIN messages : i \in DOMAIN messages' /\ messages'[i] = messages[i]
                                      /\ i <= n /\ i \in Nat
        /\ \A j \in DOMAIN ms : n + j \in DOMAIN messages' /\ messages'[n + j] = ms[j]
                                /\ j \in Nat /\ j >= 1 /\ j <= Len(ms)
    <2> DEFINE l == Len(ms)
    <2>1. /\ l \in Nat /\ DOMAIN ms = 1..l /\ DOMAIN messages = 1..n
          /\ DOMAIN messages' = 1..(n + l)
          /\ \A i \in 1..n : messages'[i] = messages[i]
          /\ \A i \in (n + 1)..(n + l) : messages'[i] = ms[i - n]
      BY <1>2
    <2> HIDE DEF l, n
    <2>2. ASSUME NEW i \in DOMAIN messages'
          PROVE  \/ i \in DOMAIN messages /\ i <= n /\ messages'[i] = messages[i]
                 \/ \E j \in DOMAIN ms : i = n + j /\ messages'[i] = ms[j]
      <3>1. CASE i <= n
        <4>1. i \in 1..n
          BY <3>1, <2>1, <1>2
        <4> QED
          BY <3>1, <4>1, <2>1
      <3>2. CASE i > n
        <4>1. i \in (n + 1)..(n + l) /\ i - n \in 1..l /\ i = n + (i - n)
          BY <3>2, <2>1, <1>2
        <4> QED
          BY <4>1, <2>1
      <3> QED
        BY <3>1, <3>2, <2>1, <1>2
    <2>3. ASSUME NEW j \in DOMAIN ms
          PROVE  /\ n + j \in DOMAIN messages' /\ messages'[n + j] = ms[j]
                 /\ j \in Nat /\ j >= 1 /\ j <= l
      <3>1. /\ n + j \in (n + 1)..(n + l) /\ (n + j) - n = j /\ n + j \in 1..(n + l)
            /\ j \in Nat /\ j >= 1 /\ j <= l
        <4>1. j \in 1..l /\ l \in Nat /\ n \in Nat
          BY <2>1, <1>2
        <4> HIDE <2>1
        <4> QED
          BY <4>1
      <3>2. messages'[n + j] = ms[(n + j) - n]
        BY <3>1, <2>1
      <3> QED
        BY <3>1, <3>2, <2>1
    <2>4. \A i \in DOMAIN messages : i \in DOMAIN messages' /\ messages'[i] = messages[i]
                                      /\ i <= n /\ i \in Nat
      BY <2>1, <1>2
    <2> QED
      BY <2>2, <2>3, <2>4 DEF l
  <1>5. Out' = Out /\ Held' = Held /\ Sent' = Sent /\ Crew' = Crew
    BY DEF Out, Held, Sent, Crew
  <1>6. \A v \in Pool : v # w /\ Silent(v, messages, Len(slots)) =>
          Silent(v, messages', Len(slots))
    BY <1>4 DEF Silent
  <1>7. \A j \in DOMAIN ms : ms[j].type = "request" => ms[j].worker = w
    BY DEF Sender
  <1>8. /\ \A v \in Pool : v # w => Asking(v, messages') = Asking(v, messages)
        /\ Asking(w, messages') = Asking(w, messages) \cup RequestsOf(ms)
    <2>1. ASSUME NEW v \in Pool, v # w
          PROVE  Asking(v, messages') = Asking(v, messages)
      <3>1. \A o : o \in Asking(v, messages') => o \in Asking(v, messages)
        BY <2>1, <1>4, <1>7 DEF Asking
      <3>2. \A o : o \in Asking(v, messages) => o \in Asking(v, messages')
        BY <1>4 DEF Asking
      <3> QED
        BY <3>1, <3>2
    <2>2. \A o : o \in Asking(w, messages') => o \in Asking(w, messages) \cup RequestsOf(ms)
      BY <1>4 DEF Asking, RequestsOf
    <2>3. \A o : o \in Asking(w, messages) => o \in Asking(w, messages')
      BY <1>4 DEF Asking
    <2>4. \A o : o \in RequestsOf(ms) => o \in Asking(w, messages')
      <3>1. ASSUME NEW j \in DOMAIN ms, ms[j].type = "request"
            PROVE  ms[j].of \in Asking(w, messages')
        <4>1. /\ n + j \in DOMAIN messages' /\ messages'[n + j] = ms[j]
              /\ ms[j].worker = w
          BY <3>1, <1>4, <1>7
        <4> HIDE DEF n
        <4> QED
          BY <3>1, <4>1 DEF Asking
      <3> QED
        BY <3>1 DEF RequestsOf
    <2>5. Asking(w, messages') = Asking(w, messages) \cup RequestsOf(ms)
      BY <2>2, <2>3, <2>4
    <2> QED
      BY <2>1, <2>5
  <1>9. /\ \A v \in Pool : v # w => Requested(v)' = Requested(v)
        /\ Requested(w)' = Requested(w) \cup RequestsOf(ms)
    BY <1>8 DEF Requested
  <1>10. PhaseInv'
    BY <1>1, <1>5 DEF PhaseInv
  <1>11. CommandInv'
    BY <1>1, <1>3, <1>5, <1>6 DEF CommandInv
  <1>12. TurnInv'
    <2>1. ASSUME NEW v \in Pool, v # w
          PROVE  /\ v \notin Out' => Silent(v, messages, Len(slots))'
                 /\ wpc'[v] \in Passing => /\ v \in Out' /\ commands'[v] = <<>>
                                           /\ at'[v] <= Len(tasks'[v]) + 1
                 /\ wpc'[v] = "gone" => pc' \in Closing
                 /\ wpc'[v] \in {"ready", "dead", "gone"} => tasks'[v] = <<>>
                 /\ wpc'[v] = "waiting" => v \in Out' \cup Held'
                 /\ v \in Held' => wpc'[v] = "waiting" /\ commands'[v] = <<>>
      BY <2>1, <1>1, <1>3, <1>5, <1>6 DEF TurnInv
    <2>2. w \notin Held
      BY DEF Held
    <2>3. /\ w \notin Out' => Silent(w, messages, Len(slots))'
          /\ wpc'[w] \in Passing => /\ w \in Out' /\ commands'[w] = <<>>
                                    /\ at'[w] <= Len(tasks'[w]) + 1
          /\ wpc'[w] = "gone" => pc' \in Closing
          /\ wpc'[w] \in {"ready", "dead", "gone"} => tasks'[w] = <<>>
          /\ wpc'[w] = "waiting" => w \in Out' \cup Held'
          /\ w \in Held' => wpc'[w] = "waiting" /\ commands'[w] = <<>>
      BY <2>2, <1>3, <1>5
    <2> QED
      BY <2>1, <2>3 DEF TurnInv
  <1>13. MessageInv'
    <2>1. ASSUME NEW i \in DOMAIN messages'
          PROVE  /\ Sender(messages'[i], Len(slots)) \in Pool
                 /\ messages'[i].type \in LastWords =>
                      /\ \A j \in DOMAIN messages' :
                           Sender(messages'[j], Len(slots)) = Sender(messages'[i], Len(slots))
                             => j <= i
                      /\ wpc'[Sender(messages'[i], Len(slots))] = After(messages'[i])
      <3>1. CASE i \in DOMAIN messages /\ i <= n /\ messages'[i] = messages[i]
        <4>1. Sender(messages[i], Len(slots)) \in Pool
          BY <3>1, <1>1 DEF MessageInv
        <4>2. ASSUME messages[i].type \in LastWords
              PROVE  /\ \A j \in DOMAIN messages' :
                           Sender(messages'[j], Len(slots)) = Sender(messages[i], Len(slots))
                             => j <= i
                     /\ wpc'[Sender(messages[i], Len(slots))] = After(messages[i])
          <5>1. Sender(messages[i], Len(slots)) # w
            BY <3>1, <4>2
          <5> QED
            BY <3>1, <4>1, <4>2, <5>1, <1>1, <1>3, <1>4 DEF MessageInv
        <4> QED
          BY <3>1, <4>1, <4>2
      <3>2. ASSUME NEW l \in DOMAIN ms, i = n + l, messages'[i] = ms[l]
            PROVE  /\ Sender(messages'[i], Len(slots)) \in Pool
                   /\ messages'[i].type \in LastWords =>
                        /\ \A j \in DOMAIN messages' :
                             Sender(messages'[j], Len(slots)) = Sender(messages'[i], Len(slots))
                               => j <= i
                        /\ wpc'[Sender(messages'[i], Len(slots))] = After(messages'[i])
        <4>1. Sender(ms[l], Len(slots)) = w
          OBVIOUS
        <4>2. ms[l].type \in LastWords => l = Len(ms) /\ After(ms[l]) = p
          OBVIOUS
        <4>3. l = Len(ms) => \A j \in DOMAIN messages' : j <= i
          BY <3>2, <1>2, <1>4
        <4> QED
          BY <3>2, <4>1, <4>2, <4>3, <1>3
      <3> QED
        BY <3>1, <3>2, <1>4
    <2> QED
      BY <2>1 DEF MessageInv
  <1>14. TaskInv'
    <2>1. \A i \in DOMAIN messages' :
            messages'[i].type = "finished" => Own(messages'[i].task, slots)
      BY <1>1, <1>4 DEF TaskInv
    <2>2. \A v \in Pool : Owns(v, tasks'[v], slots)
      BY <1>1, <1>3 DEF TaskInv
    <2>3. \A v \in Pool : commands'[v] # <<>> /\ Head(commands'[v]).type = "start" =>
            Owns(v, Head(commands'[v]).tasks, slots)
      BY <1>1, <1>3 DEF TaskInv
    <2>4. pc' = "starting" => \A k \in DOMAIN buckets' : Owns(Sent' + k, buckets'[k], slots')
      BY <1>1, <1>5 DEF TaskInv
    <2> QED
      BY <1>1, <2>1, <2>2, <2>3, <2>4 DEF TaskInv
  <1>15. RequestInv'
    BY <1>1, <1>3, <1>9 DEF RequestInv, Passing
  <1>16. CoverInv'
    <2>1. ASSUME NEW r \in Rows
          PROVE  Covered(r, WorkerOf(r, Len(slots)))'
      <3>0. PICK v : v = WorkerOf(r, Len(slots))
        OBVIOUS
      <3>1. v \in Pool
        <4>1. Len(slots) \in Nat /\ r \in 1..Len(slots)
          <5>1. slots \in Seq(Slots)
            BY <1>1 DEF TypeOK
          <5> QED
            BY <5>1 DEF Rows
        <4> QED
          BY <3>0, <4>1, Crews
      <3>2. Covered(r, v)
        BY <3>0, <1>1 DEF CoverInv
      <3>3. ASSUME v # w PROVE Covered(r, v)'
        BY <3>1, <3>2, <3>3, <1>3, <1>4, <1>5 DEF Covered
      <3>4. ASSUME v = w, p = "dead" PROVE Covered(r, v)'
        BY <3>4, <1>3 DEF Covered
      <3>5. ASSUME v = w, p # "dead" PROVE Covered(r, v)'
        <4>1. CASE \/ Holds(tasks[w], r)
                   \/ commands[w] # <<>> /\ Head(commands[w]).type = "start"
                        /\ Holds(Head(commands[w]).tasks, r)
          <5>1. \/ Holds(ts, r)
                \/ \E j \in DOMAIN ms : ms[j].type = "finished" /\ ms[j].task.row = r
            BY <4>1, <3>5
          <5>2. CASE Holds(ts, r)
            BY <5>2, <3>5, <1>3 DEF Covered
          <5>3. ASSUME NEW j \in DOMAIN ms, ms[j].type = "finished", ms[j].task.row = r
                PROVE  Covered(r, v)'
            <6>1. n + j \in DOMAIN messages' /\ messages'[n + j] = ms[j]
              BY <1>4
            <6> QED
              BY <5>3, <6>1 DEF Covered
          <5> QED
            BY <5>1, <5>2, <5>3
        <4>2. CASE \/ \E f \in finished : f.task.row = r
                   \/ \E i \in DOMAIN messages : messages[i].type = "finished"
                                               /\ messages[i].task.row = r
                   \/ pc = "starting" /\ v > Sent /\ Holds(buckets[v - Sent], r)
          BY <4>2, <1>4, <1>5 DEF Covered
        <4> QED
          BY <3>2, <3>5, <4>1, <4>2 DEF Covered
      <3> QED
        BY <3>0, <3>3, <3>4, <3>5
    <2> QED
      BY <2>1 DEF CoverInv, Rows
  <1>17. OneOwnAnswerEach'
    <2>1. \A v \in Pool : v # w => commands'[v] = commands[v] /\ tasks'[v] = tasks[v]
      BY <1>3
    <2>2. Range(<<>>) = {}
      BY DEF Range
    <2> QED
      BY <1>1, <1>3, <2>1, <2>2 DEF OneOwnAnswerEach
  <1>18. CapacityKept'
    BY <1>1 DEF CapacityKept
  <1> QED
    BY <1>10, <1>11, <1>12, <1>13, <1>14, <1>15, <1>16, <1>17, <1>18 DEF Tidy

(* A worker with a command or in a pass has not said its last word.        *)
LEMMA HoldsTurn ==
  ASSUME Typed, Tidy, NEW w \in Pool,
         \/ commands[w] # <<>> /\ Head(commands[w]).type # "shutdown"
         \/ wpc[w] \in Passing
  PROVE  /\ w \in Out /\ wpc[w] # "dead" /\ Owns(w, tasks[w], slots)
         /\ \A i \in DOMAIN messages :
              Sender(messages[i], Len(slots)) = w => messages[i].type \notin LastWords
         /\ commands[w] # <<>> => Requested(w) = {} /\ wpc[w] \notin Passing
         /\ wpc[w] \in Passing => commands[w] = <<>>
PROOF
  <1>1. /\ CommandInv /\ TurnInv /\ MessageInv /\ TaskInv /\ RequestInv
    BY DEF Tidy
  <1>2. wpc[w] \in Passing => w \in Out /\ commands[w] = <<>> /\ wpc[w] # "dead"
    BY <1>1 DEF TurnInv, Passing
  <1>3. commands[w] # <<>> =>
          /\ w \in Out /\ wpc[w] # "dead" /\ wpc[w] \notin Passing
          /\ Silent(w, messages, Len(slots)) /\ Requested(w) = {}
    BY <1>1, <1>2 DEF CommandInv, RequestInv, Passing
  <1>4. \A i \in DOMAIN messages :
          Sender(messages[i], Len(slots)) = w /\ messages[i].type \in LastWords =>
            wpc[w] \notin Passing
    BY <1>1 DEF MessageInv, After, Passing
  <1>5. \A i \in DOMAIN messages :
          Sender(messages[i], Len(slots)) = w => messages[i].type \notin LastWords
    BY <1>2, <1>3, <1>4 DEF Silent
  <1>6. Owns(w, tasks[w], slots)
    BY <1>1 DEF TaskInv
  <1> QED
    BY <1>2, <1>3, <1>5, <1>6

(* The requests a worker that starts a pass has made in it: none.          *)
LEMMA NothingAsked ==
  /\ \A ts : AskedOf(ts, 0) = {} /\ AskedOf(ts, 1 - 1) = {}
  /\ RequestsOf(<<>>) = {}
  /\ \A m : m.type # "request" => RequestsOf(<<m>>) = {}
  /\ \A m : m.type = "request" => RequestsOf(<<m>>) = {m.of}
PROOF
  <1>1. \A ts : AskedOf(ts, 0) = {} /\ AskedOf(ts, 1 - 1) = {}
    BY DEF AskedOf
  <1>2. RequestsOf(<<>>) = {}
    BY DEF RequestsOf
  <1>3. \A m : DOMAIN <<m>> = {1} /\ <<m>>[1] = m
    OBVIOUS
  <1>4. \A m : m.type # "request" => RequestsOf(<<m>>) = {}
    BY <1>3 DEF RequestsOf
  <1>5. \A m : m.type = "request" => RequestsOf(<<m>>) = {m.of}
    BY <1>3 DEF RequestsOf
  <1> QED
    BY <1>1, <1>2, <1>4, <1>5

(* A sequence without its element at i.                                    *)
LEMMA Removal ==
  ASSUME NEW S, NEW s \in Seq(S), NEW i \in 1..Len(s)
  PROVE  /\ RemoveAt(s, i) \in Seq(S) /\ Len(RemoveAt(s, i)) = Len(s) - 1
         /\ \A k \in 1..(Len(s) - 1) :
              RemoveAt(s, i)[k] = IF k < i THEN s[k] ELSE s[k + 1]
PROOF
  <1> DEFINE n == Len(s)
             a == SubSeq(s, 1, i - 1)
             b == SubSeq(s, i + 1, n)
  <1>1. n \in Nat /\ i \in 1..n /\ DOMAIN s = 1..n /\ i \in Int
    OBVIOUS
  <1>2. /\ a \in Seq(S) /\ Len(a) = i - 1
        /\ \A k \in 1..(i - 1) : a[k] = s[k]
    BY <1>1
  <1>3. /\ b \in Seq(S) /\ Len(b) = n - i
        /\ \A k \in 1..(n - i) : b[k] = s[i + k]
    <2>1. i + 1 \in Int /\ n \in Int /\ \A j \in (i + 1)..n : s[j] \in S
      BY <1>1
    <2>2. /\ b \in Seq(S) /\ Len(b) = IF i + 1 <= n THEN n - (i + 1) + 1 ELSE 0
          /\ \A k \in 1..(n - (i + 1) + 1) : b[k] = s[(i + 1) + k - 1]
      BY <2>1, SubSeqProperties
    <2> HIDE DEF b, n
    <2>3. Len(b) = n - i /\ n - (i + 1) + 1 = n - i
      BY <1>1, <2>2
    <2>4. \A k \in 1..(n - i) : (i + 1) + k - 1 = i + k
      BY <1>1
    <2> QED
      BY <2>2, <2>3, <2>4
  <1>4. RemoveAt(s, i) = a \o b
    BY DEF RemoveAt
  <1> HIDE DEF a, b
  <1>5. a \o b \in Seq(S) /\ Len(a \o b) = n - 1
    <2>1. a \o b \in Seq(S) /\ Len(a \o b) = Len(a) + Len(b)
      <3>1. a \in Seq(S) /\ b \in Seq(S)
        BY <1>2, <1>3
      <3> QED
        BY <3>1, ConcatProperties
    <2>2. (i - 1) + (n - i) = n - 1
      BY <1>1
    <2> QED
      BY <1>2, <1>3, <2>1, <2>2
  <1>6. ASSUME NEW k \in 1..(n - 1)
        PROVE  (a \o b)[k] = IF k < i THEN s[k] ELSE s[k + 1]
    <2>1. CASE k < i
      <3>1. k \in 1..(i - 1)
        BY <1>1, <2>1
      <3>2. (a \o b)[k] = a[k]
        BY <1>1, <1>2, <1>3, <3>1
      <3> QED
        BY <1>2, <2>1, <3>1, <3>2
    <2>2. CASE ~(k < i)
      <3>1. k - (i - 1) \in 1..(n - i) /\ i + (k - (i - 1)) = k + 1
        BY <1>1, <2>2
      <3>2. (a \o b)[k] = b[k - (i - 1)]
        BY <1>1, <1>2, <1>3, <3>1, <2>2
      <3>3. b[k - (i - 1)] = s[i + (k - (i - 1))]
        BY <1>3, <3>1
      <3> QED
        BY <2>2, <3>1, <3>2, <3>3
    <2> QED
      BY <2>1, <2>2
  <1> HIDE DEF n
  <1>7. /\ RemoveAt(s, i) \in Seq(S) /\ Len(RemoveAt(s, i)) = n - 1
        /\ \A k \in 1..(n - 1) : RemoveAt(s, i)[k] = IF k < i THEN s[k] ELSE s[k + 1]
    BY <1>4, <1>5, <1>6
  <1> QED
    BY <1>7 DEF n

(* What w does with its turn: it says ms, its tasks become ts, ...         *)
Acts(w, ms, ts, a, p) ==
    /\ ms \in Seq(Messages) /\ ts \in Seq(Task) /\ a \in Nat
    /\ p \in {"ready", "opening", "resuming", "waiting", "dead"}
    /\ messages' = messages \o ms /\ commands' = [commands EXCEPT ![w] = <<>>]
    /\ wpc' = [wpc EXCEPT ![w] = p] /\ tasks' = [tasks EXCEPT ![w] = ts]
    /\ at' = [at EXCEPT ![w] = a]
    /\ \A j \in DOMAIN ms :
         /\ Sender(ms[j], Len(slots)) = w
         /\ ms[j].type = "finished" => Own(ms[j].task, slots)
         /\ ms[j].type \in LastWords => j = Len(ms) /\ After(ms[j]) = p
    /\ p \in {"ready", "dead"} => ts = <<>>
    /\ p \in Passing => a <= Len(ts) + 1 /\ Requested(w) \cup RequestsOf(ms) = AskedOf(ts, a - 1)
    /\ p = "waiting" => Requested(w) \cup RequestsOf(ms) = AskedOf(ts, Len(ts))
    /\ Owns(w, ts, slots)
    /\ p = "dead" \/ \A r \in Rows :
           \/ Holds(tasks[w], r)
           \/ commands[w] # <<>> /\ Head(commands[w]).type = "start"
                /\ Holds(Head(commands[w]).tasks, r)
           => \/ Holds(ts, r)
              \/ \E j \in DOMAIN ms : ms[j].type = "finished" /\ ms[j].task.row = r

(* WorkerMoves, its hypotheses under one name.                             *)
LEMMA ActsMove ==
  ASSUME Typed, Tidy, NEW w \in Pool, w \in Out, wpc[w] # "dead",
         \A i \in DOMAIN messages :
           Sender(messages[i], Len(slots)) = w => messages[i].type \notin LastWords,
         NEW ms, NEW ts, NEW a, NEW p, Acts(w, ms, ts, a, p),
         UNCHANGED <<searches, pc, slots, buckets, needs, active, target, arrived,
                     pending, responses, finished, failed, result, plays, abandoned,
                     calls>>
  PROVE  Tidy'
PROOF
  BY WorkerMoves DEF Acts

(* Every step of a worker keeps the order of the call: it is that of a     *)
(* worker whose turn it is, and it says a last word once.                  *)
LEMMA WorkerKeepsOrder ==
  ASSUME Typed, Tidy, NEW w \in Pool, WorkerStep(w)
  PROVE  Tidy'
PROOF
  <1> USE DEF unworked, call, wave, outcome
  <1>1. /\ TypeOK /\ PassInv /\ CommandInv /\ TurnInv /\ MessageInv /\ TaskInv
        /\ RequestInv /\ CoverInv /\ PhaseInv /\ OneOwnAnswerEach /\ CapacityKept
    BY DEF Typed, Tidy
  <1>2. /\ commands \in [Pool -> Seq(Commands)] /\ tasks \in [Pool -> Seq(Task)]
        /\ wpc \in [Pool -> {"ready", "opening", "resuming", "waiting", "dead", "gone"}]
        /\ at \in [Pool -> Nat] /\ messages \in Seq(Messages)
        /\ tasks[w] \in Seq(Task) /\ at[w] \in Nat /\ commands[w] \in Seq(Commands)
        /\ wpc[w] \in Passing => at[w] >= 1
    BY <1>1 DEF TypeOK, PassInv
  <1>3. /\ <<>> \in Seq(Task) /\ <<>> \in Seq(Messages) /\ messages = messages \o <<>>
        /\ Len(<<>>) = 0 /\ DOMAIN <<>> = {}
    BY <1>2
  <1>4. \A m \in Messages : <<m>> \in Seq(Messages) /\ Append(messages, m) = messages \o <<m>>
                            /\ DOMAIN <<m>> = {1} /\ <<m>>[1] = m /\ Len(<<m>>) = 1
    <2> HIDE DEF Messages
    <2> QED
      BY <1>2
  <1>5. Owns(w, <<>>, slots) /\ \A r : ~Holds(<<>>, r)
    BY DEF Owns, Holds
  <1>6. commands[w] # <<>> /\ Len(commands[w]) = 1 => Tail(commands[w]) = <<>>
    <2> HIDE DEF Commands
    <2>1. commands[w] # <<>> /\ Len(commands[w]) = 1 =>
            Tail(commands[w]) \in Seq(Commands) /\ Len(Tail(commands[w])) = 0
      BY <1>2
    <2> QED
      BY <2>1, EmptySeq
  <1>7. commands[w] # <<>> => Len(commands[w]) = 1
    BY <1>1 DEF CommandInv
  <1>8. commands[w] = <<>> => commands = [commands EXCEPT ![w] = <<>>]
    BY <1>2
  <1>9. tasks = [tasks EXCEPT ![w] = tasks[w]] /\ wpc = [wpc EXCEPT ![w] = wpc[w]]
        /\ at = [at EXCEPT ![w] = at[w]]
    BY <1>2
  <1>10. CASE Started(w)
    <2> DEFINE ts == Head(commands[w]).tasks
    <2>1. /\ commands[w] # <<>> /\ Head(commands[w]).type = "start"
          /\ commands' = [commands EXCEPT ![w] = Tail(commands[w])]
          /\ tasks' = [tasks EXCEPT ![w] = ts] /\ at' = [at EXCEPT ![w] = 1]
          /\ wpc' = [wpc EXCEPT ![w] = "opening"] /\ messages' = messages
      BY <1>10 DEF Started, Given, Takes, Moves
    <2>2. UNCHANGED <<searches, pc, slots, buckets, needs, active, target, arrived,
                     pending, responses, finished, failed, result, plays, abandoned,
                     calls>>
      BY <1>10 DEF Started
    <2>3. /\ w \in Out /\ wpc[w] # "dead" /\ Requested(w) = {} /\ wpc[w] = "ready"
          /\ \A i \in DOMAIN messages :
               Sender(messages[i], Len(slots)) = w => messages[i].type \notin LastWords
      BY <1>1, <2>1, HoldsTurn DEF CommandInv
    <2>4. ts \in Seq(Task) /\ Owns(w, ts, slots) /\ Len(ts) \in Nat
      BY <1>1, <2>1, Shapes DEF TaskInv
    <2>5. tasks[w] = <<>>
      BY <1>1, <2>3 DEF TurnInv
    <2>6. \A r \in Rows :
           \/ Holds(tasks[w], r)
           \/ commands[w] # <<>> /\ Head(commands[w]).type = "start"
                /\ Holds(Head(commands[w]).tasks, r)
           => Holds(ts, r)
      BY <1>5, <2>5
    <2>7. commands' = [commands EXCEPT ![w] = <<>>] /\ messages' = messages \o <<>>
      BY <1>3, <1>6, <1>7, <2>1
    <2>8. 1 <= Len(ts) + 1 /\ Requested(w) \cup RequestsOf(<<>>) = AskedOf(ts, 1 - 1)
      <3>1. RequestsOf(<<>>) = {} /\ AskedOf(ts, 1 - 1) = {}
        BY NothingAsked
      <3>2. 1 <= Len(ts) + 1
        BY <2>4
      <3> QED
        BY <2>3, <3>1, <3>2
    <2>9. "opening" \in {"ready", "opening", "resuming", "waiting", "dead"}
          /\ "opening" \notin {"ready", "dead"} /\ "opening" # "waiting" /\ 1 \in Nat
      OBVIOUS
    <2> HIDE DEF ts
    <2> QED
      BY <1>3, <2>1, <2>2, <2>3, <2>4, <2>6, <2>7, <2>8, <2>9, WorkerMoves
  <1>11. CASE Resumed(w)
    <2>1. /\ commands[w] # <<>> /\ Head(commands[w]).type = "responses"
          /\ commands' = [commands EXCEPT ![w] = Tail(commands[w])]
          /\ tasks' = tasks /\ at' = [at EXCEPT ![w] = 1]
          /\ wpc' = [wpc EXCEPT ![w] = "resuming"] /\ messages' = messages
      BY <1>11 DEF Resumed, Given, Takes, Moves
    <2>2. UNCHANGED <<searches, pc, slots, buckets, needs, active, target, arrived,
                     pending, responses, finished, failed, result, plays, abandoned,
                     calls>>
      BY <1>11 DEF Resumed
    <2>3. /\ w \in Out /\ wpc[w] # "dead" /\ Requested(w) = {} /\ Owns(w, tasks[w], slots)
          /\ \A i \in DOMAIN messages :
               Sender(messages[i], Len(slots)) = w => messages[i].type \notin LastWords
      BY <1>1, <2>1, HoldsTurn
    <2>4. \A r \in Rows :
           \/ Holds(tasks[w], r)
           \/ commands[w] # <<>> /\ Head(commands[w]).type = "start"
                /\ Holds(Head(commands[w]).tasks, r)
           => Holds(tasks[w], r)
      BY <2>1
    <2>5. /\ commands' = [commands EXCEPT ![w] = <<>>] /\ messages' = messages \o <<>>
          /\ tasks' = [tasks EXCEPT ![w] = tasks[w]]
      BY <1>3, <1>6, <1>7, <1>9, <2>1
    <2>6. 1 <= Len(tasks[w]) + 1 /\ Requested(w) \cup RequestsOf(<<>>) = AskedOf(tasks[w], 1 - 1)
      <3>1. RequestsOf(<<>>) = {} /\ AskedOf(tasks[w], 1 - 1) = {}
        BY NothingAsked
      <3>2. 1 <= Len(tasks[w]) + 1
        BY <1>2
      <3> QED
        BY <2>3, <3>1, <3>2
    <2>7. "resuming" \in {"ready", "opening", "resuming", "waiting", "dead"}
          /\ "resuming" \notin {"ready", "dead"} /\ "resuming" # "waiting" /\ 1 \in Nat
      OBVIOUS
    <2> QED
      <3> DEFINE ts == tasks[w]
      <3>1. /\ ts \in Seq(Task) /\ Owns(w, ts, slots) /\ 1 <= Len(ts) + 1
            /\ tasks' = [tasks EXCEPT ![w] = ts]
            /\ Requested(w) \cup RequestsOf(<<>>) = AskedOf(ts, 1 - 1)
            /\ \A r \in Rows :
                 \/ Holds(tasks[w], r)
                 \/ commands[w] # <<>> /\ Head(commands[w]).type = "start"
                      /\ Holds(Head(commands[w]).tasks, r)
                 => Holds(ts, r)
        BY <1>2, <2>3, <2>4, <2>5, <2>6
      <3> HIDE DEF ts
      <3> QED
        BY <1>3, <2>1, <2>2, <2>3, <2>5, <2>7, <3>1, WorkerMoves
  <1>12. CASE Cancelled(w)
    <2> DEFINE ms == [k \in DOMAIN tasks[w] |->
                        [type |-> "finished", task |-> tasks[w][k], ok |-> FALSE]]
    <2>1. /\ commands[w] # <<>> /\ Head(commands[w]).type = "cancel"
          /\ commands' = [commands EXCEPT ![w] = Tail(commands[w])]
          /\ tasks' = [tasks EXCEPT ![w] = <<>>] /\ at' = [at EXCEPT ![w] = 1]
          /\ wpc' = [wpc EXCEPT ![w] = "resuming"] /\ messages' = messages \o ms
      BY <1>12 DEF Cancelled, Given, Takes, Moves
    <2>2. UNCHANGED <<searches, pc, slots, buckets, needs, active, target, arrived,
                     pending, responses, finished, failed, result, plays, abandoned,
                     calls>>
      BY <1>12 DEF Cancelled
    <2>3. /\ w \in Out /\ wpc[w] # "dead" /\ Requested(w) = {} /\ Owns(w, tasks[w], slots)
          /\ \A i \in DOMAIN messages :
               Sender(messages[i], Len(slots)) = w => messages[i].type \notin LastWords
      BY <1>1, <2>1, HoldsTurn
    <2>4. ms \in Seq(Messages) /\ DOMAIN ms = DOMAIN tasks[w]
      <3> DEFINE n == Len(tasks[w])
      <3>1. n \in Nat /\ DOMAIN tasks[w] = 1..n /\ \A k \in 1..n : tasks[w][k] \in Task
        BY <1>2
      <3>2. \A k \in 1..n : [type |-> "finished", task |-> tasks[w][k], ok |-> FALSE] \in Messages
        BY <3>1 DEF Messages
      <3>3. ms \in [1..n -> Messages] /\ DOMAIN ms = DOMAIN tasks[w]
        BY <3>1, <3>2
      <3> HIDE DEF ms, n
      <3> QED
        BY <3>1, <3>3, RowByRow
    <2>5. \A j \in DOMAIN ms : ms[j].type = "finished" /\ ms[j].task = tasks[w][j]
      OBVIOUS
    <2>6. \A j \in DOMAIN ms :
            /\ Sender(ms[j], Len(slots)) = w
            /\ ms[j].type = "finished" => Own(ms[j].task, slots)
            /\ ms[j].type \in LastWords => j = Len(ms) /\ After(ms[j]) = "resuming"
      <3> HIDE DEF ms
      <3> QED
        BY <2>3, <2>4, <2>5 DEF Owns, Sender, LastWords
    <2>7. RequestsOf(ms) = {}
      <3> HIDE DEF ms
      <3> QED
        BY <2>5 DEF RequestsOf
    <2>8. \A r \in Rows :
           \/ Holds(tasks[w], r)
           \/ commands[w] # <<>> /\ Head(commands[w]).type = "start"
                /\ Holds(Head(commands[w]).tasks, r)
           => \/ Holds(<<>>, r)
              \/ \E j \in DOMAIN ms : ms[j].type = "finished" /\ ms[j].task.row = r
      <3> HIDE DEF ms
      <3> QED
        BY <2>1, <2>4, <2>5 DEF Holds
    <2>9. commands' = [commands EXCEPT ![w] = <<>>]
      BY <1>6, <1>7, <2>1
    <2>10. 1 <= Len(<<>>) + 1 /\ Requested(w) \cup RequestsOf(ms) = AskedOf(<<>>, 1 - 1)
      <3>1. AskedOf(<<>>, 1 - 1) = {}
        BY NothingAsked
      <3>2. 1 <= Len(<<>>) + 1
        OBVIOUS
      <3> HIDE DEF ms
      <3> QED
        BY <2>3, <2>7, <3>1, <3>2
    <2>11. "resuming" \in {"ready", "opening", "resuming", "waiting", "dead"}
          /\ "resuming" \notin {"ready", "dead"} /\ "resuming" # "waiting" /\ 1 \in Nat
      OBVIOUS
    <2> HIDE DEF ms
    <2> QED
      BY <1>3, <1>5, <2>1, <2>2, <2>3, <2>4, <2>6, <2>8, <2>9, <2>10, <2>11, WorkerMoves
  <1>13. CASE Told(w)
    <2>1. /\ commands[w] # <<>> /\ Head(commands[w]).type = "shutdown"
          /\ commands' = [commands EXCEPT ![w] = Tail(commands[w])]
          /\ tasks' = [tasks EXCEPT ![w] = <<>>] /\ at' = at
          /\ wpc' = [wpc EXCEPT ![w] = "gone"] /\ messages' = messages
      BY <1>13 DEF Told, Takes, Moves
    <2>2. UNCHANGED <<searches, pc, slots, buckets, needs, active, target, arrived,
                     pending, responses, finished, failed, result, plays, abandoned,
                     calls>>
      BY <1>13 DEF Told
    <2>3. pc \in Closing /\ wpc[w] = "ready" /\ tasks[w] = <<>> /\ Silent(w, messages, Len(slots))
      BY <1>1, <2>1 DEF CommandInv, TurnInv
    <2>4. /\ commands' = [commands EXCEPT ![w] = <<>>] /\ commands'[w] = <<>>
          /\ wpc'[w] = "gone" /\ tasks' = tasks
          /\ \A v \in Pool : v # w => commands'[v] = commands[v] /\ wpc'[v] = wpc[v]
      BY <1>2, <1>6, <1>7, <1>9, <2>1, <2>3
    <2>5. Out = {} /\ Held = {} /\ Out' = Out /\ Held' = Held /\ Sent' = Sent /\ Crew' = Crew
      BY <2>2, <2>3 DEF Out, Held, Sent, Crew, Closing, InWave
    <2>6. \A v : Requested(v)' = Requested(v)
      BY <2>1, <2>2 DEF Requested
    <2>7. PhaseInv'
      BY <1>1, <2>2, <2>5 DEF PhaseInv
    <2>8. CommandInv'
      BY <1>1, <2>1, <2>2, <2>4, <2>5 DEF CommandInv
    <2>9. TurnInv'
      BY <1>1, <2>1, <2>2, <2>3, <2>4, <2>5 DEF TurnInv, Passing
    <2>10. MessageInv'
      BY <1>1, <2>1, <2>2, <2>3, <2>4 DEF MessageInv, Silent
    <2>11. TaskInv'
      BY <1>1, <2>1, <2>2, <2>4, <2>5 DEF TaskInv
    <2>12. RequestInv'
      BY <1>1, <2>1, <2>3, <2>4, <2>6 DEF RequestInv, Passing
    <2>13. CoverInv'
      <3>1. ASSUME NEW r \in Rows
            PROVE  Covered(r, WorkerOf(r, Len(slots)))'
        <4>1. PICK v : v = WorkerOf(r, Len(slots))
          OBVIOUS
        <4>2. v \in Pool
          <5>1. Len(slots) \in Nat /\ r \in 1..Len(slots)
            BY <1>1 DEF Rows, TypeOK
          <5> QED
            BY <4>1, <5>1, Crews
        <4>3. Covered(r, v)
          BY <4>1, <1>1 DEF CoverInv
        <4>4. Covered(r, v)'
          BY <4>2, <4>3, <2>1, <2>2, <2>3, <2>4, <2>5 DEF Covered
        <4> QED
          BY <4>1, <4>4, <2>2
      <3> QED
        BY <3>1, <2>2 DEF CoverInv, Rows
    <2>14. OneOwnAnswerEach'
      <3>1. Range(<<>>) = {}
        BY DEF Range
      <3> QED
        BY <1>1, <2>2, <2>4, <3>1 DEF OneOwnAnswerEach
    <2>15. CapacityKept'
      BY <1>1, <2>2 DEF CapacityKept
    <2> QED
      BY <2>7, <2>8, <2>9, <2>10, <2>11, <2>12, <2>13, <2>14, <2>15 DEF Tidy
  <1>14. CASE Ask(w)
    <2> DEFINE t == [Present(w) EXCEPT !.left = @ - 1]
               ts == [tasks[w] EXCEPT ![at[w]] = t]
               m == [type |-> "request", worker |-> w, of |-> AskedBy(t)]
    <2>1. /\ InPass(w) /\ Present(w).left > 0
          /\ tasks' = [tasks EXCEPT ![w] = ts] /\ messages' = Append(messages, m)
          /\ at' = [at EXCEPT ![w] = at[w] + 1]
          /\ commands' = commands /\ wpc' = wpc
      BY <1>14 DEF Ask, Says
    <2>2. UNCHANGED <<searches, pc, slots, buckets, needs, active, target, arrived,
                     pending, responses, finished, failed, result, plays, abandoned,
                     calls>>
      BY <1>14 DEF Ask
    <2>3. at[w] \in DOMAIN tasks[w] /\ wpc[w] \in Passing /\ at[w] \in 1..Len(tasks[w])
      BY <1>2, <2>1 DEF InPass, Passing
    <2>4. Present(w) \in Task
      BY <1>1, <2>3, Shapes DEF Present
    <2>5. t \in Task /\ t.row = Present(w).row /\ t.slot = Present(w).slot
      BY <2>1, <2>4, BatchAssumption DEF Task
    <2>6. m \in Messages /\ m.type = "request" /\ m.worker = w /\ m.of = AskedBy(t)
      BY <2>5 DEF Messages, Asked, AskedBy, Task
    <2>7. /\ ts \in Seq(Task) /\ DOMAIN ts = DOMAIN tasks[w] /\ Len(ts) = Len(tasks[w])
          /\ ts[at[w]] = t /\ \A k \in DOMAIN ts : k # at[w] => ts[k] = tasks[w][k]
      <3> HIDE DEF t
      <3> QED
        BY <1>2, <2>3, <2>5
    <2>8. \A k \in DOMAIN ts : ts[k].row = tasks[w][k].row /\ ts[k].slot = tasks[w][k].slot
      <3> HIDE DEF t, ts
      <3> QED
        BY <2>5, <2>7 DEF Present
    <2>9. /\ w \in Out /\ wpc[w] # "dead" /\ Owns(w, tasks[w], slots) /\ commands[w] = <<>>
          /\ \A i \in DOMAIN messages :
               Sender(messages[i], Len(slots)) = w => messages[i].type \notin LastWords
      BY <2>3, HoldsTurn
    <2> HIDE DEF t, ts, m
    <2>10. Owns(w, ts, slots) /\ \A r : Holds(tasks[w], r) => Holds(ts, r)
      BY <2>7, <2>8, <2>9 DEF Owns, Own, Holds
    <2>11. Requested(w) \cup RequestsOf(<<m>>) = AskedOf(ts, (at[w] + 1) - 1)
      <3>1. Requested(w) = AskedOf(tasks[w], at[w] - 1)
        BY <1>1, <2>3 DEF RequestInv
      <3>2. RequestsOf(<<m>>) = {AskedBy(t)}
        BY <2>6, NothingAsked
      <3>3. \A k \in 1..(at[w] - 1) : ts[k] = tasks[w][k]
        <4>1. DOMAIN ts = 1..Len(tasks[w])
          BY <1>2, <2>7
        <4>2. \A k \in 1..(at[w] - 1) : k \in 1..Len(tasks[w]) /\ k # at[w]
          <5>1. at[w] \in Nat /\ Len(tasks[w]) \in Nat /\ at[w] <= Len(tasks[w])
            BY <1>2, <2>3
          <5> QED
            BY <5>1
        <4> QED
          BY <2>7, <4>1, <4>2
      <3>4. 1..at[w] = 1..(at[w] - 1) \cup {at[w]} /\ (at[w] + 1) - 1 = at[w]
        BY <1>2, <2>3
      <3>5. AskedOf(ts, at[w]) = AskedOf(tasks[w], at[w] - 1) \cup {AskedBy(t)}
        BY <2>7, <3>3, <3>4 DEF AskedOf
      <3> QED
        BY <3>1, <3>2, <3>4, <3>5
    <2>12. /\ messages' = messages \o <<m>> /\ <<m>> \in Seq(Messages)
           /\ DOMAIN <<m>> = {1} /\ <<m>>[1] = m
      BY <1>4, <2>1, <2>6
    <2>13. \A j \in DOMAIN <<m>> :
             /\ Sender(<<m>>[j], Len(slots)) = w
             /\ <<m>>[j].type = "finished" => Own(<<m>>[j].task, slots)
             /\ <<m>>[j].type \in LastWords => j = Len(<<m>>) /\ After(<<m>>[j]) = wpc[w]
      BY <2>6, <2>12 DEF Sender, LastWords
    <2>14. \A r \in Rows :
           \/ Holds(tasks[w], r)
           \/ commands[w] # <<>> /\ Head(commands[w]).type = "start"
                /\ Holds(Head(commands[w]).tasks, r)
           => Holds(ts, r)
      BY <2>9, <2>10
    <2>15. at[w] + 1 \in Nat /\ at[w] + 1 <= Len(ts) + 1
      BY <1>2, <2>3, <2>7
    <2> QED
      <3> DEFINE ms == <<m>>
                 p == wpc[w]
                 a == at[w] + 1
      <3>1. /\ wpc' = [wpc EXCEPT ![w] = p] /\ at' = [at EXCEPT ![w] = a]
            /\ tasks' = [tasks EXCEPT ![w] = ts] /\ commands' = [commands EXCEPT ![w] = <<>>] /\ p \in Passing
            /\ messages' = messages \o ms /\ ms \in Seq(Messages)
            /\ p \in {"ready", "opening", "resuming", "waiting", "dead"}
            /\ p \notin {"ready", "dead"} /\ p # "waiting"
            /\ a \in Nat /\ a <= Len(ts) + 1
            /\ Requested(w) \cup RequestsOf(ms) = AskedOf(ts, a - 1)
        BY <1>8, <1>9, <2>1, <2>3, <2>9, <2>11, <2>12, <2>15 DEF Passing
      <3>2. \A j \in DOMAIN ms :
             /\ Sender(ms[j], Len(slots)) = w
             /\ ms[j].type = "finished" => Own(ms[j].task, slots)
             /\ ms[j].type \in LastWords => j = Len(ms) /\ After(ms[j]) = p
        BY <2>13
      <3>3. p = "dead" \/ \A r \in Rows :
              \/ Holds(tasks[w], r)
              \/ commands[w] # <<>> /\ Head(commands[w]).type = "start"
                   /\ Holds(Head(commands[w]).tasks, r)
              => \/ Holds(ts, r)
                 \/ \E j \in DOMAIN ms : ms[j].type = "finished" /\ ms[j].task.row = r
        BY <2>14
      <3> HIDE DEF ms, p, a
      <3>4. /\ p \in {"ready", "dead"} => ts = <<>>
            /\ p \in Passing => a <= Len(ts) + 1
                 /\ Requested(w) \cup RequestsOf(ms) = AskedOf(ts, a - 1)
            /\ p = "waiting" => Requested(w) \cup RequestsOf(ms) = AskedOf(ts, Len(ts))
        BY <3>1
      <3>5. ts \in Seq(Task) /\ w \in Out /\ wpc[w] # "dead" /\ Owns(w, ts, slots)
        BY <2>7, <2>9, <2>10
      <3>6. \A i \in DOMAIN messages :
              Sender(messages[i], Len(slots)) = w => messages[i].type \notin LastWords
        BY <2>9
      <3>7. Acts(w, ms, ts, a, p)
        BY <3>1, <3>2, <3>3, <3>4, <3>5 DEF Acts
      <3> QED
        BY <2>2, <3>5, <3>6, <3>7, ActsMove
  <1>15. ASSUME NEW ok \in BOOLEAN, End(w, ok)
         PROVE  Tidy'
    <2> DEFINE ts == RemoveAt(tasks[w], at[w])
               m == [type |-> "finished", task |-> Present(w), ok |-> ok]
               n == Len(tasks[w])
               i == at[w]
    <2>1. /\ InPass(w)
          /\ tasks' = [tasks EXCEPT ![w] = ts] /\ messages' = Append(messages, m)
          /\ at' = at /\ commands' = commands /\ wpc' = wpc
      BY <1>15 DEF End, Says
    <2>2. UNCHANGED <<searches, pc, slots, buckets, needs, active, target, arrived,
                     pending, responses, finished, failed, result, plays, abandoned,
                     calls>>
      BY <1>15 DEF End
    <2>3. i \in DOMAIN tasks[w] /\ wpc[w] \in Passing /\ i \in 1..n /\ n \in Nat
          /\ DOMAIN tasks[w] = 1..n
      BY <1>2, <2>1 DEF InPass, Passing
    <2>4. Present(w) \in Task /\ Present(w) = tasks[w][i]
      BY <1>1, <2>3, Shapes DEF Present
    <2>5. m \in Messages /\ m.type = "finished" /\ m.task = Present(w)
      BY <2>4 DEF Messages
    <2>6. /\ ts \in Seq(Task) /\ Len(ts) = n - 1 /\ DOMAIN ts = 1..(n - 1)
          /\ \A k \in 1..(n - 1) : ts[k] = IF k < i THEN tasks[w][k] ELSE tasks[w][k + 1]
      <3>1. tasks[w] \in Seq(Task) /\ i \in 1..Len(tasks[w])
        BY <1>2, <2>3
      <3> HIDE DEF Task
      <3>2. /\ ts \in Seq(Task) /\ Len(ts) = n - 1
            /\ \A k \in 1..(n - 1) : ts[k] = IF k < i THEN tasks[w][k] ELSE tasks[w][k + 1]
        BY <3>1, Removal
      <3> HIDE DEF ts
      <3> QED
        BY <3>2
    <2>7. /\ w \in Out /\ wpc[w] # "dead" /\ Owns(w, tasks[w], slots) /\ commands[w] = <<>>
          /\ \A j \in DOMAIN messages :
               Sender(messages[j], Len(slots)) = w => messages[j].type \notin LastWords
      BY <2>3, HoldsTurn
    <2> HIDE DEF ts, m
    <2>8. \A k \in 1..(n - 1) :
            \E l \in 1..n : ts[k] = tasks[w][l] /\ l = (IF k < i THEN k ELSE k + 1)
      BY <2>3, <2>6
    <2>9. Owns(w, ts, slots)
      <3>1. \A k \in DOMAIN ts : /\ Own(ts[k], slots)
                                 /\ WorkerOf(ts[k].row, Len(slots)) = w
        <4>1. ASSUME NEW k \in DOMAIN ts
              PROVE  Own(ts[k], slots) /\ WorkerOf(ts[k].row, Len(slots)) = w
          <5>1. PICK l \in 1..n : ts[k] = tasks[w][l]
            BY <2>6, <2>8
          <5> QED
            BY <2>3, <2>7, <5>1 DEF Owns
        <4> QED
          BY <4>1
      <3>2. ASSUME NEW k \in DOMAIN ts, NEW l \in DOMAIN ts, ts[k].row = ts[l].row
            PROVE  k = l
        <4>1. PICK x \in 1..n : ts[k] = tasks[w][x] /\ x = (IF k < i THEN k ELSE k + 1)
          BY <2>6, <2>8
        <4>2. PICK y \in 1..n : ts[l] = tasks[w][y] /\ y = (IF l < i THEN l ELSE l + 1)
          BY <2>6, <2>8
        <4>3. x = y
          BY <2>3, <2>7, <3>2, <4>1, <4>2 DEF Owns
        <4>4. k \in Nat /\ l \in Nat /\ i \in Nat
          BY <2>3, <2>6
        <4> QED
          BY <4>1, <4>2, <4>3, <4>4
      <3> QED
        BY <3>1, <3>2 DEF Owns
    <2>10. \A r : Holds(tasks[w], r) => Holds(ts, r) \/ Present(w).row = r
      <3>1. ASSUME NEW l \in 1..n, l # i
            PROVE  \E k \in 1..(n - 1) : ts[k] = tasks[w][l]
        <4>1. CASE l < i
          <5>1. l \in 1..(n - 1)
            BY <2>3, <4>1
          <5> QED
            BY <2>6, <4>1, <5>1
        <4>2. CASE l > i
          <5>1. l - 1 \in 1..(n - 1) /\ ~(l - 1 < i) /\ (l - 1) + 1 = l
            BY <2>3, <4>2
          <5> QED
            BY <2>6, <5>1
        <4> QED
          BY <2>3, <3>1, <4>1, <4>2
      <3> QED
        BY <2>3, <2>4, <2>6, <3>1 DEF Holds
    <2>11. Requested(w) \cup RequestsOf(<<m>>) = AskedOf(ts, i - 1)
      <3>1. Requested(w) = AskedOf(tasks[w], i - 1)
        BY <1>1, <2>3 DEF RequestInv
      <3>2. RequestsOf(<<m>>) = {}
        BY <2>5, NothingAsked
      <3>3. \A k \in 1..(i - 1) : ts[k] = tasks[w][k]
        BY <2>3, <2>6
      <3>4. AskedOf(ts, i - 1) = AskedOf(tasks[w], i - 1)
        BY <3>3 DEF AskedOf
      <3> QED
        BY <3>1, <3>2, <3>4
    <2>12. /\ messages' = messages \o <<m>> /\ <<m>> \in Seq(Messages)
           /\ DOMAIN <<m>> = {1} /\ <<m>>[1] = m
      BY <1>4, <2>1, <2>5
    <2>13. \A j \in DOMAIN <<m>> :
             /\ Sender(<<m>>[j], Len(slots)) = w
             /\ <<m>>[j].type = "finished" => Own(<<m>>[j].task, slots)
             /\ <<m>>[j].type \in LastWords => j = Len(<<m>>) /\ After(<<m>>[j]) = wpc[w]
      <3>1. Own(Present(w), slots) /\ WorkerOf(Present(w).row, Len(slots)) = w
        BY <2>3, <2>4, <2>7 DEF Owns
      <3> QED
        BY <2>5, <2>12, <3>1 DEF Sender, LastWords
    <2>14. \A r \in Rows : Holds(tasks[w], r) =>
             \/ Holds(ts, r)
             \/ \E j \in DOMAIN <<m>> : <<m>>[j].type = "finished" /\ <<m>>[j].task.row = r
      BY <2>5, <2>10, <2>12
    <2>15. i <= Len(ts) + 1 /\ i \in Nat
      BY <2>3, <2>6
    <2> QED
      <3> DEFINE ms == <<m>>
                 p == wpc[w]
      <3>1. /\ wpc' = [wpc EXCEPT ![w] = p] /\ at' = [at EXCEPT ![w] = i]
            /\ tasks' = [tasks EXCEPT ![w] = ts] /\ commands' = [commands EXCEPT ![w] = <<>>]
            /\ messages' = messages \o ms /\ ms \in Seq(Messages)
            /\ p \in {"ready", "opening", "resuming", "waiting", "dead"}
            /\ p \notin {"ready", "dead"} /\ p # "waiting"
            /\ Requested(w) \cup RequestsOf(ms) = AskedOf(ts, i - 1)
        BY <1>8, <1>9, <2>1, <2>3, <2>7, <2>11, <2>12 DEF Passing
      <3>2. \A j \in DOMAIN ms :
             /\ Sender(ms[j], Len(slots)) = w
             /\ ms[j].type = "finished" => Own(ms[j].task, slots)
             /\ ms[j].type \in LastWords => j = Len(ms) /\ After(ms[j]) = p
        BY <2>13
      <3>3. \A r \in Rows :
              \/ Holds(tasks[w], r)
              \/ commands[w] # <<>> /\ Head(commands[w]).type = "start"
                   /\ Holds(Head(commands[w]).tasks, r)
              => \/ Holds(ts, r)
                 \/ \E j \in DOMAIN ms : ms[j].type = "finished" /\ ms[j].task.row = r
        BY <2>7, <2>14
      <3> HIDE DEF ms, p, i, n
      <3>4. Acts(w, ms, ts, i, p)
        BY <2>6, <2>9, <2>15, <3>1, <3>2, <3>3 DEF Acts
      <3> QED
        BY <2>2, <2>7, <3>4, ActsMove
  <1>16. CASE EndPass(w)
    <2>1. /\ wpc[w] \in Passing /\ at[w] > Len(tasks[w]) /\ at' = [at EXCEPT ![w] = 0]
          /\ commands' = commands /\ tasks' = tasks
      BY <1>16 DEF EndPass, Passing
    <2>2. UNCHANGED <<searches, pc, slots, buckets, needs, active, target, arrived,
                     pending, responses, finished, failed, result, plays, abandoned,
                     calls>>
      BY <1>16 DEF EndPass
    <2>3. PICK m \in Messages, p \in {"ready", "waiting"} :
            /\ messages' = Append(messages, m) /\ wpc' = [wpc EXCEPT ![w] = p]
            /\ m.type \in {"done", "barrier"} /\ m.worker = w /\ After(m) = p
            /\ p = "ready" => tasks[w] = <<>>
      <3>1. CASE tasks[w] = <<>>
        <4> DEFINE m == [type |-> "done", worker |-> w]
        <4>1. messages' = Append(messages, m) /\ wpc' = [wpc EXCEPT ![w] = "ready"]
          BY <1>16, <3>1 DEF EndPass, Says, Moves
        <4>2. m \in Messages /\ m.type = "done" /\ m.worker = w
          BY DEF Messages
        <4> HIDE DEF m
        <4> QED
          BY <3>1, <4>1, <4>2 DEF After
      <3>2. CASE tasks[w] # <<>>
        <4> DEFINE m == [type |-> "barrier", worker |-> w]
        <4>1. messages' = Append(messages, m) /\ wpc' = [wpc EXCEPT ![w] = "waiting"]
          BY <1>16, <3>2 DEF EndPass, Says, Moves
        <4>2. m \in Messages /\ m.type = "barrier" /\ m.worker = w
          BY DEF Messages
        <4> HIDE DEF m
        <4> QED
          BY <4>1, <4>2 DEF After
      <3> QED
        BY <3>1, <3>2
    <2>4. /\ w \in Out /\ wpc[w] # "dead" /\ Owns(w, tasks[w], slots) /\ commands[w] = <<>>
          /\ \A j \in DOMAIN messages :
               Sender(messages[j], Len(slots)) = w => messages[j].type \notin LastWords
      BY <2>1, HoldsTurn
    <2>5. /\ messages' = messages \o <<m>> /\ <<m>> \in Seq(Messages)
           /\ DOMAIN <<m>> = {1} /\ <<m>>[1] = m /\ Len(<<m>>) = 1
      BY <1>4, <2>3
    <2>6. Requested(w) \cup RequestsOf(<<m>>) = AskedOf(tasks[w], Len(tasks[w]))
      <3>1. Requested(w) = AskedOf(tasks[w], at[w] - 1) /\ at[w] <= Len(tasks[w]) + 1
        BY <1>1, <2>1 DEF RequestInv, TurnInv
      <3>2. RequestsOf(<<m>>) = {}
        BY <2>3, NothingAsked
      <3>3. at[w] - 1 = Len(tasks[w])
        BY <1>2, <2>1, <3>1
      <3> QED
        BY <3>1, <3>2, <3>3
    <2> QED
      <3> DEFINE ms == <<m>>
                 ts == tasks[w]
      <3>1. /\ wpc' = [wpc EXCEPT ![w] = p] /\ at' = [at EXCEPT ![w] = 0]
            /\ tasks' = [tasks EXCEPT ![w] = ts] /\ commands' = [commands EXCEPT ![w] = <<>>]
            /\ messages' = messages \o ms /\ ms \in Seq(Messages) /\ ts \in Seq(Task)
            /\ p \in {"ready", "opening", "resuming", "waiting", "dead"}
            /\ p \in {"ready", "dead"} => ts = <<>>
            /\ p \notin Passing /\ Owns(w, ts, slots)
            /\ Requested(w) \cup RequestsOf(ms) = AskedOf(ts, Len(ts))
        BY <1>2, <1>8, <1>9, <2>1, <2>3, <2>4, <2>5, <2>6 DEF Passing
      <3>2. \A j \in DOMAIN ms :
             /\ Sender(ms[j], Len(slots)) = w
             /\ ms[j].type = "finished" => Own(ms[j].task, slots)
             /\ ms[j].type \in LastWords => j = Len(ms) /\ After(ms[j]) = p
        BY <2>3, <2>5 DEF Sender
      <3>3. \A r \in Rows :
              \/ Holds(tasks[w], r)
              \/ commands[w] # <<>> /\ Head(commands[w]).type = "start"
                   /\ Holds(Head(commands[w]).tasks, r)
              => Holds(ts, r)
        BY <2>4
      <3> HIDE DEF ms, ts
      <3>4. Acts(w, ms, ts, 0, p)
        BY <3>1, <3>2, <3>3 DEF Acts
      <3> QED
        BY <2>2, <2>4, <3>4, ActsMove
  <1>17. ASSUME Dies(w), UNCHANGED unworked,
                \/ commands[w] # <<>> /\ Head(commands[w]).type # "shutdown"
                \/ wpc[w] \in Passing
         PROVE  Tidy'
    <2> DEFINE m == [type |-> "panicked", worker |-> w]
    <2>1. /\ messages' = Append(messages, m) /\ wpc' = [wpc EXCEPT ![w] = "dead"]
          /\ at' = [at EXCEPT ![w] = 0] /\ commands' = [commands EXCEPT ![w] = <<>>]
          /\ tasks' = [tasks EXCEPT ![w] = <<>>]
      BY <1>17 DEF Dies, Says, Moves
    <2>2. UNCHANGED <<searches, pc, slots, buckets, needs, active, target, arrived,
                     pending, responses, finished, failed, result, plays, abandoned,
                     calls>>
      BY <1>17
    <2>3. m \in Messages /\ m.type = "panicked" /\ m.worker = w
      BY DEF Messages
    <2>4. /\ w \in Out /\ wpc[w] # "dead"
          /\ \A j \in DOMAIN messages :
               Sender(messages[j], Len(slots)) = w => messages[j].type \notin LastWords
      BY <1>17, HoldsTurn
    <2> HIDE DEF m
    <2>5. /\ messages' = messages \o <<m>> /\ <<m>> \in Seq(Messages)
           /\ DOMAIN <<m>> = {1} /\ <<m>>[1] = m /\ Len(<<m>>) = 1
      BY <1>4, <2>1, <2>3
    <2>6. \A j \in DOMAIN <<m>> :
             /\ Sender(<<m>>[j], Len(slots)) = w
             /\ <<m>>[j].type = "finished" => Own(<<m>>[j].task, slots)
             /\ <<m>>[j].type \in LastWords => j = Len(<<m>>) /\ After(<<m>>[j]) = "dead"
      BY <2>3, <2>5 DEF Sender, After
    <2>7. "dead" \in {"ready", "opening", "resuming", "waiting", "dead"}
          /\ "dead" \notin Passing /\ "dead" # "waiting" /\ 0 \in Nat
      BY DEF Passing
    <2>8. Acts(w, <<m>>, <<>>, 0, "dead")
      BY <1>3, <1>5, <2>1, <2>5, <2>6, <2>7 DEF Acts
    <2> QED
      BY <2>2, <2>4, <2>8, ActsMove
  <1>18. CASE EnginePanics(w)
    BY <1>17, <1>18 DEF EnginePanics, InPass, Passing
  <1>19. CASE ProtocolPanics(w)
    <2>1. CASE /\ wpc[w] \in {"ready", "waiting"} /\ commands[w] # <<>>
               /\ Head(commands[w]).type \notin Expected(w)
      <3>1. Head(commands[w]).type # "shutdown"
        BY <2>1 DEF Expected
      <3> QED
        BY <1>17, <1>19, <2>1, <3>1 DEF ProtocolPanics
    <2>2. CASE InPass(w) /\ ~Resumable(w)
      BY <1>17, <1>19, <2>2 DEF ProtocolPanics, InPass, Passing
    <2> QED
      BY <1>19, <2>1, <2>2 DEF ProtocolPanics
  <1> QED
    BY <1>10, <1>11, <1>12, <1>13, <1>14, <1>15, <1>16, <1>18, <1>19 DEF WorkerStep

(* A step of the coordinator that leaves alone what the workers see.       *)
LEMMA WorkersUnaware ==
  ASSUME Typed, Tidy,
         UNCHANGED <<messages, commands, slots, finished, wpc, tasks, at, abandoned>>,
         Out' = Out, Held' = Held, \A w \in Pool : Requested(w)' = Requested(w),
         pc \in Closing => pc' \in Closing,
         pc = "starting" => buckets = <<>>, pc' # "starting",
         PhaseInv', CapacityKept'
  PROVE  Tidy'
PROOF
  <1>1. /\ TypeOK /\ CommandInv /\ TurnInv /\ MessageInv /\ TaskInv
        /\ RequestInv /\ CoverInv /\ PhaseInv /\ OneOwnAnswerEach
    BY DEF Typed, Tidy
  <1>2. CommandInv'
    BY <1>1 DEF CommandInv
  <1>3. TurnInv'
    BY <1>1 DEF TurnInv
  <1>4. MessageInv'
    BY <1>1 DEF MessageInv
  <1>5. TaskInv'
    BY <1>1 DEF TaskInv
  <1>6. RequestInv'
    BY <1>1 DEF RequestInv
  <1>7. CoverInv'
    <2>1. ASSUME NEW r \in Rows
          PROVE  Covered(r, WorkerOf(r, Len(slots)))'
      <3>1. PICK v : v = WorkerOf(r, Len(slots))
        OBVIOUS
      <3>2. v \in 1..WorkerCount(Len(slots)) /\ WorkerCount(Len(slots)) \in Nat
        <4>1. Len(slots) \in Nat /\ r \in 1..Len(slots)
          BY <1>1 DEF Rows, TypeOK
        <4> QED
          BY <3>1, <4>1, Crews
      <3>3. ~(pc = "starting" /\ v > Sent)
        <4>1. buckets = <<>> => Sent = WorkerCount(Len(slots))
          BY <3>2 DEF Sent
        <4> QED
          BY <3>2, <4>1
      <3>4. Covered(r, v)
        BY <3>1, <1>1 DEF CoverInv
      <3>5. Covered(r, v)'
        BY <3>3, <3>4 DEF Covered
      <3> QED
        BY <3>1, <3>5
    <2> QED
      BY <2>1 DEF CoverInv, Rows
  <1>8. OneOwnAnswerEach'
    BY <1>1 DEF OneOwnAnswerEach
  <1> QED
    BY <1>2, <1>3, <1>4, <1>5, <1>6, <1>7, <1>8 DEF Tidy

(* Nothing is on its way while nobody is waited for.                       *)
LEMMA NobodyOut ==
  ASSUME Typed, Tidy, Out = {}
  PROVE  /\ messages = <<>>
         /\ \A w \in Pool : Silent(w, messages, Len(slots))
         /\ \A w \in Pool : wpc[w] \notin Passing
         /\ pc \notin Closing => \A w \in Pool : commands[w] = <<>>
         /\ Held = {} => \A w \in Pool : tasks[w] = <<>>
                                         /\ wpc[w] \in {"ready", "dead", "gone"}
PROOF
  <1>1. /\ TypeOK /\ CommandInv /\ TurnInv /\ MessageInv
    BY DEF Typed, Tidy
  <1>2. \A w \in Pool : Silent(w, messages, Len(slots))
    BY <1>1 DEF TurnInv
  <1>3. messages = <<>>
    <2>1. \A i \in DOMAIN messages : FALSE
      BY <1>1, <1>2 DEF MessageInv, Silent
    <2>2. messages \in Seq(Messages)
      BY <1>1 DEF TypeOK
    <2> HIDE DEF Messages
    <2>3. Len(messages) \notin Nat \ {0}
      BY <2>1, <2>2
    <2> QED
      BY <2>2, <2>3, EmptySeq
  <1>4. \A w \in Pool : wpc[w] \notin Passing
    BY <1>1 DEF TurnInv
  <1>5. pc \notin Closing => \A w \in Pool : commands[w] = <<>>
    BY <1>1 DEF CommandInv
  <1>6. ASSUME Held = {}, NEW w \in Pool
        PROVE  tasks[w] = <<>> /\ wpc[w] \in {"ready", "dead", "gone"}
    <2>1. wpc[w] \in {"ready", "opening", "resuming", "waiting", "dead", "gone"}
      BY <1>1 DEF TypeOK
    <2>2. wpc[w] # "waiting"
      BY <1>1, <1>6 DEF TurnInv
    <2> QED
      BY <1>1, <1>4, <2>1, <2>2 DEF TurnInv, Passing
  <1> QED
    BY <1>2, <1>3, <1>4, <1>5, <1>6

(* evaluate_chunk moves the requests of a chunk to the answers of the      *)
(* workers that sent them: what each worker has asked for stays the same.  *)
LEMMA ChunkAnswered ==
  ASSUME Typed, Tidy, EvaluateChunk
  PROVE  /\ \A w \in Pool : Requested(w)' = Requested(w)
         /\ PhaseInv' /\ pc' \in {"evaluating", "replying"}
         /\ UNCHANGED <<searches, messages, commands, slots, buckets, needs, active,
                        target, arrived, finished, failed, wpc, tasks, at, abandoned>>
PROOF
  <1> USE DEF channels, call, workers, history
  <1> DEFINE P == [worker : Pool, of : Asked]
             mine(w) == {i \in DOMAIN Chunk : Chunk[i].worker = w}
  <1>1. TypeOK /\ PhaseInv
    BY DEF Typed, Tidy
  <1>2. pending \in Seq(P)
    BY <1>1 DEF TypeOK
  <1>3. /\ pc = "evaluating"
        /\ UNCHANGED <<searches, messages, commands, slots, buckets, needs, active,
                       target, arrived, finished, failed, wpc, tasks, at, abandoned>>
    BY DEF EvaluateChunk
  <1>4. PICK c \in 0..Len(pending) :
           /\ Chunk \in Seq(P) /\ Len(Chunk) = c
           /\ \A k \in 1..c : Chunk[k] = pending[k]
           /\ OtherChunks(pending) \in Seq(P) /\ Len(OtherChunks(pending)) = Len(pending) - c
           /\ \A k \in 1..(Len(pending) - c) : OtherChunks(pending)[k] = pending[c + k]
    <2> HIDE DEF P
    <2> QED
      BY <1>2, Cut DEF Chunk
  <1>5. /\ Len(pending) \in Nat /\ c \in Nat /\ DOMAIN pending = 1..Len(pending)
        /\ DOMAIN Chunk = 1..c /\ c <= Len(pending)
        /\ DOMAIN OtherChunks(pending) = 1..(Len(pending) - c)
    <2> HIDE DEF P
    <2> QED
      BY <1>2, <1>4
  <1>6. \A k \in DOMAIN Chunk : k \in DOMAIN pending /\ Chunk[k] = pending[k]
    BY <1>4, <1>5
  <1>7. \A k \in DOMAIN OtherChunks(pending) :
          c + k \in DOMAIN pending /\ OtherChunks(pending)[k] = pending[c + k]
    BY <1>4, <1>5
  <1>8. ~Unroutable
    <2>1. WorkerCount(Len(slots)) \in Nat
      BY <1>1, Crews DEF TypeOK
    <2>2. \A k \in DOMAIN Chunk : Chunk[k].worker \in 1..WorkerCount(Len(slots))
      BY <1>1, <1>3, <1>6 DEF PhaseInv, Crew, InWave
    <2> QED
      BY <2>1, <2>2 DEF Unroutable
  <1>9. PICK order \in Orders(Chunk) :
           responses' = [w \in Pool |-> responses[w] \cup
             {[row |-> Chunk[k].of.row, of |-> Answered(Chunk, k, order)] : k \in mine(w)}]
    BY <1>8 DEF EvaluateChunk
  <1>10. /\ pending' = OtherChunks(pending)
         /\ pc' = IF pending' = <<>> THEN "replying" ELSE "evaluating"
    BY <1>8 DEF EvaluateChunk
  <1>11. \A w \in Pool : responses'[w] = responses[w] \cup
            {[row |-> Chunk[k].of.row, of |-> Chunk[k].of] : k \in mine(w)}
    <2>1. \A k \in DOMAIN Chunk : Answered(Chunk, k, order) = Chunk[k].of
      <3> HIDE DEF P
      <3> QED
        BY <1>4, AnsweredById
    <2> QED
      BY <1>9, <2>1
  <1>12. ASSUME NEW w \in Pool
         PROVE  Requested(w)' = Requested(w)
    <2>1. \A o : o \in Routed(responses'[w]) <=>
            o \in Routed(responses[w]) \/ \E k \in DOMAIN Chunk : Chunk[k].worker = w /\ Chunk[k].of = o
      <3>1. \A a : a \in responses'[w] <=>
              \/ a \in responses[w]
              \/ \E k \in DOMAIN Chunk :
                   Chunk[k].worker = w /\ a = [row |-> Chunk[k].of.row, of |-> Chunk[k].of]
        BY <1>11
      <3>2. ASSUME NEW k \in DOMAIN Chunk, Chunk[k].worker = w
            PROVE  Chunk[k].of \in Routed(responses'[w])
        <4>1. [row |-> Chunk[k].of.row, of |-> Chunk[k].of] \in responses'[w]
          BY <3>1, <3>2
        <4>2. [row |-> Chunk[k].of.row, of |-> Chunk[k].of].of = Chunk[k].of
          OBVIOUS
        <4> QED
          BY <4>1, <4>2 DEF Routed
      <3>3. \A a \in responses[w] : a.of \in Routed(responses'[w])
        BY <3>1 DEF Routed
      <3>4. \A a \in responses'[w] :
              a.of \in Routed(responses[w]) \/ \E k \in DOMAIN Chunk : Chunk[k].worker = w /\ Chunk[k].of = a.of
        BY <3>1 DEF Routed
      <3> QED
        BY <3>2, <3>3, <3>4 DEF Routed
    <2>2. \A o : o \in Gathered(w, pending) <=>
            \/ o \in Gathered(w, pending')
            \/ \E k \in DOMAIN Chunk : Chunk[k].worker = w /\ Chunk[k].of = o
      <3>1. \A k \in DOMAIN pending' : pending[c + k] = pending'[k] /\ c + k \in DOMAIN pending
        BY <1>7, <1>10
      <3>2. ASSUME NEW k \in DOMAIN pending, k \notin DOMAIN Chunk
            PROVE  k - c \in DOMAIN pending' /\ pending'[k - c] = pending[k]
        <4>1. k - c \in 1..(Len(pending) - c) /\ c + (k - c) = k
          BY <1>5, <3>2
        <4> QED
          BY <1>5, <1>7, <1>10, <4>1
      <3>3. \A o : o \in Gathered(w, pending') => o \in Gathered(w, pending)
        BY <3>1 DEF Gathered
      <3>4. \A o : (\E k \in DOMAIN Chunk : Chunk[k].worker = w /\ Chunk[k].of = o)
              => o \in Gathered(w, pending)
        BY <1>6 DEF Gathered
      <3>5. ASSUME NEW k \in DOMAIN pending, pending[k].worker = w
            PROVE  \/ pending[k].of \in Gathered(w, pending')
                   \/ \E l \in DOMAIN Chunk : Chunk[l].worker = w /\ Chunk[l].of = pending[k].of
        BY <1>6, <3>2, <3>5 DEF Gathered
      <3>6. \A o : o \in Gathered(w, pending) =>
              \E k \in DOMAIN pending : pending[k].worker = w /\ pending[k].of = o
        BY DEF Gathered
      <3> QED
        BY <3>3, <3>4, <3>5, <3>6
    <2>3. Asking(w, messages') = Asking(w, messages)
      BY <1>3
    <2>4. \A o : o \in Requested(w)' <=> o \in Requested(w)
      BY <2>1, <2>2, <2>3 DEF Requested
    <2> QED
      BY <2>4
  <1>13. PhaseInv'
    <2>1. \A k \in DOMAIN pending' : pending'[k].worker \in target
      BY <1>1, <1>7, <1>10 DEF PhaseInv
    <2>2. \A w \in Pool : \A a \in responses'[w] : a.row = a.of.row
      BY <1>1, <1>11 DEF PhaseInv
    <2>3. pc' \in {"evaluating", "replying"} /\ (pc' = "replying" => pending' = <<>>)
      BY <1>10
    <2>4. Crew' = Crew
      BY <1>3 DEF Crew
    <2> QED
      BY <1>1, <1>3, <2>1, <2>2, <2>3, <2>4 DEF PhaseInv, InWave
  <1> QED
    BY <1>3, <1>10, <1>12, <1>13

(* A call that restores its searches gives every slot back; only those of  *)
(* a worker that panicked are built anew.                                  *)
LEMMA RestoreGivesBack ==
  ASSUME Typed, Tidy, Restore
  PROVE  /\ \A s \in Range(slots) : searches'[s] # "taken"
         /\ \A s \in Slots : searches[s] = "taken" /\ searches'[s] = "clean" =>
              \E r \in Rows : slots[r] = s /\ wpc[WorkerOf(r, Len(slots))] = "dead"
PROOF
  <1>1. /\ TypeOK /\ PhaseInv /\ TaskInv /\ CoverInv
    BY DEF Typed, Tidy
  <1>2. /\ pc = "restoring" /\ Out = {} /\ Held = {}
        /\ searches' = [s \in Slots |->
             IF \E f \in finished \ Stray : f.task.slot = s THEN "used"
             ELSE IF searches[s] = "taken" /\ Rebuilt(s) /\ Stray = {} THEN "clean"
             ELSE searches[s]]
    BY DEF Restore, Out, Held, InWave
  <1>3. /\ messages = <<>>
        /\ \A w \in Pool : tasks[w] = <<>> /\ commands[w] = <<>>
    BY <1>2, NobodyOut DEF Closing
  <1>4. Stray = {} /\ \A f \in finished : f.task.row \in Rows /\ f.task.slot = slots[f.task.row]
    BY <1>1 DEF TaskInv, Own, Stray, Rows
  <1>5. /\ slots \in Seq(Slots) /\ Rows = 1..Len(slots) /\ Len(slots) \in Nat
        /\ Rows = DOMAIN slots
    BY <1>1 DEF TypeOK, Rows
  <1>6. \A s \in Range(slots) : s \in Slots /\ \E r \in Rows : slots[r] = s
    BY <1>5 DEF Range
  <1>7. ASSUME NEW s \in Range(slots)
        PROVE  searches'[s] # "taken"
    <2>1. PICK r \in Rows : slots[r] = s
      BY <1>6
    <2>2. CASE \E f \in finished \ Stray : f.task.slot = s
      BY <1>2, <1>6, <2>2
    <2>3. CASE ~\E f \in finished \ Stray : f.task.slot = s
      <3>1. Back(r) = {}
        BY <1>4, <2>1, <2>3 DEF Back
      <3>2. Rebuilt(s)
        BY <2>1, <3>1 DEF Rebuilt
      <3>3. searches'[s] = IF searches[s] = "taken" THEN "clean" ELSE searches[s]
        BY <1>2, <1>4, <1>6, <2>3, <3>2
      <3> QED
        BY <3>3
    <2> QED
      BY <2>2, <2>3
  <1>8. ASSUME NEW s \in Slots, searches[s] = "taken", searches'[s] = "clean"
        PROVE  \E r \in Rows : slots[r] = s /\ wpc[WorkerOf(r, Len(slots))] = "dead"
    <2>1. Rebuilt(s) /\ ~\E f \in finished \ Stray : f.task.slot = s
      BY <1>2, <1>8
    <2>2. PICK r \in Rows : slots[r] = s
      BY <1>6, <2>1 DEF Rebuilt
    <2>3. PICK w : w = WorkerOf(r, Len(slots))
      OBVIOUS
    <2>4. w \in Pool
      BY <1>5, <2>3, Crews
    <2>5. Covered(r, w)
      BY <1>1, <2>3 DEF CoverInv
    <2>6. ~\E f \in finished : f.task.row = r
      BY <1>4, <2>1, <2>2
    <2>7. ~Holds(tasks[w], r)
      BY <1>3, <2>4 DEF Holds
    <2>8. wpc[w] = "dead"
      BY <1>2, <1>3, <2>4, <2>5, <2>6, <2>7 DEF Covered
    <2> QED
      BY <2>2, <2>3, <2>8
  <1> QED
    BY <1>7, <1>8

(* The steps of the coordinator that the workers do not notice.            *)
LEMMA QuietSteps ==
  ASSUME Typed, Tidy,
         \/ \E request \in Requests : \E k \in DOMAIN request : PlayRejected(request, k)
         \/ \E s \in Slots : Reset(s)
         \/ Joined \/ BeginWaves \/ CloseWave \/ EvaluateChunk \/ EvaluationFails \/ Restore
  PROVE  Tidy'
PROOF
  <1> USE DEF channels, call, wave, outcome, workers, history
  <1>1. /\ TypeOK /\ PhaseInv /\ CapacityKept
    BY DEF Typed, Tidy
  <1>2. ASSUME NEW request \in Requests, NEW k \in DOMAIN request, PlayRejected(request, k)
        PROVE  Tidy'
    <2>1. /\ pc = "idle" /\ pc' = "idle" /\ result'.kind = "rejected"
          /\ UNCHANGED <<messages, commands, slots, buckets, needs, active, target,
                         arrived, pending, responses, finished, failed, wpc, tasks, at,
                         abandoned>>
      BY <1>2 DEF PlayRejected, Return
    <2>2. Out' = Out /\ Held' = Held /\ Crew' = Crew /\ \A w : Requested(w)' = Requested(w)
      BY <2>1 DEF Out, Held, Crew, Sent, Requested
    <2>3. PhaseInv'
      BY <1>1, <2>1, <2>2 DEF PhaseInv
    <2>4. CapacityKept'
      BY <2>1 DEF CapacityKept
    <2> QED
      BY <2>1, <2>2, <2>3, <2>4, WorkersUnaware DEF Closing
  <1>3. ASSUME NEW s \in Slots, Reset(s)
        PROVE  Tidy'
    <2>1. /\ pc = "idle" /\ searches' = [searches EXCEPT ![s] = "clean"]
          /\ UNCHANGED <<messages, commands, pc, slots, buckets, needs, active, target,
                         arrived, pending, responses, finished, failed, result, wpc,
                         tasks, at, abandoned>>
      BY <1>3 DEF Reset
    <2>2. Out' = Out /\ Held' = Held /\ Crew' = Crew /\ \A w : Requested(w)' = Requested(w)
      BY <2>1 DEF Out, Held, Crew, Sent, Requested
    <2>3. PhaseInv'
      BY <1>1, <2>1, <2>2 DEF PhaseInv
    <2>4. CapacityKept'
      <3>1. \A x : searches[x] # "taken" => searches'[x] # "taken"
        BY <1>1, <2>1 DEF TypeOK
      <3>2. Range(slots)' = Range(slots)
        BY <2>1
      <3> QED
        BY <1>1, <2>1, <3>1, <3>2 DEF CapacityKept
    <2> QED
      BY <2>1, <2>2, <2>3, <2>4, WorkersUnaware DEF Closing
  <1>4. CASE Joined
    <2>1. /\ pc = "dropping" /\ pc' = "dropped"
          /\ UNCHANGED <<searches, messages, commands, slots, buckets, needs, active, target,
                         arrived, pending, responses, finished, failed, result, wpc,
                         tasks, at, abandoned>>
      BY <1>4 DEF Joined
    <2>2. Out' = Out /\ Held' = Held /\ Crew' = Crew /\ \A w : Requested(w)' = Requested(w)
      BY <2>1 DEF Out, Held, Crew, Sent, Requested, InWave
    <2>3. PhaseInv'
      BY <1>1, <2>1, <2>2 DEF PhaseInv, InWave
    <2>4. CapacityKept'
      BY <2>1 DEF CapacityKept
    <2> QED
      BY <2>1, <2>2, <2>3, <2>4, WorkersUnaware DEF Closing
  <1>5. CASE BeginWaves
    <2>1. /\ pc = "starting" /\ pc' = "collecting" /\ buckets = <<>>
          /\ active' = Crew /\ target' = Crew /\ arrived' = {}
          /\ pending' = <<>> /\ responses' = Nobody
          /\ UNCHANGED <<searches, messages, commands, slots, buckets, needs,
                         finished, failed, result, wpc, tasks, at, abandoned>>
      BY <1>5 DEF BeginWaves, NewWave, Crew
    <2>2. pending' = pending /\ responses' = responses
      BY <1>1, <2>1 DEF PhaseInv, InWave
    <2>3. Sent = WorkerCount(Len(slots))
      <3>1. Len(slots) \in Nat
        BY <1>1 DEF TypeOK
      <3>2. WorkerCount(Len(slots)) \in Nat
        BY <3>1, Crews
      <3> QED
        BY <2>1, <3>2 DEF Sent
    <2>4. Out = Crew /\ Out' = Crew /\ Crew' = Crew
      BY <2>1, <2>3 DEF Out, Crew
    <2>5. Held = {} /\ Held' = {}
      BY <2>1, <2>4 DEF Held, InWave
    <2>6. \A w : Requested(w)' = Requested(w)
      BY <2>1, <2>2 DEF Requested
    <2>7. PhaseInv'
      <3>1. \A w \in Pool : responses'[w] = {}
        BY <2>1 DEF Nobody
      <3>2. \A k \in DOMAIN pending' : FALSE
        BY <2>1
      <3> QED
        BY <2>1, <2>4, <3>1, <3>2 DEF PhaseInv, InWave
    <2>8. CapacityKept'
      BY <2>1 DEF CapacityKept
    <2> QED
      BY <2>1, <2>4, <2>5, <2>6, <2>7, <2>8, WorkersUnaware DEF Closing
  <1>6. CASE CloseWave
    <2> DEFINE P == [worker : Pool, of : Asked]
    <2>1. /\ pc = "collecting" /\ arrived = target /\ pending' = InRowOrder(pending)
          /\ pc' = IF failed \/ pending = <<>> THEN "replying" ELSE "evaluating"
          /\ UNCHANGED <<searches, messages, commands, slots, buckets, needs, active, target,
                         arrived, responses, finished, failed, result, wpc, tasks, at,
                         abandoned>>
      BY <1>6 DEF CloseWave
    <2>2. pending \in Seq(P) /\ \A k \in DOMAIN pending : pending[k].of.row \in Nat
      BY <1>1, Shapes DEF TypeOK
    <2>3. /\ pending' \in Seq(P) /\ Len(pending') = Len(pending)
          /\ \E o \in [DOMAIN pending -> DOMAIN pending] :
              /\ \A i \in DOMAIN pending : pending'[i] = pending[o[i]]
              /\ \A k \in DOMAIN pending : \E i \in DOMAIN pending : o[i] = k
      <3> HIDE DEF P
      <3>1. /\ InRowOrder(pending) \in Seq(P) /\ Len(InRowOrder(pending)) = Len(pending)
            /\ \E o \in [DOMAIN pending -> DOMAIN pending] :
                /\ \A i \in DOMAIN pending : InRowOrder(pending)[i] = pending[o[i]]
                /\ \A i, j \in DOMAIN pending : o[i] = o[j] => i = j
                /\ \A k \in DOMAIN pending : \E i \in DOMAIN pending : o[i] = k
        BY <2>2, RowOrder
      <3> QED
        BY <2>1, <3>1
    <2>4. DOMAIN pending' = DOMAIN pending /\ (pending = <<>> => pending' = <<>>)
      <3> HIDE DEF P
      <3>1. DOMAIN pending' = DOMAIN pending
        BY <2>2, <2>3
      <3>2. pending = <<>> => Len(pending') = 0
        BY <2>3
      <3> QED
        BY <2>3, <3>1, <3>2, EmptySeq
    <2>5. PICK o \in [DOMAIN pending -> DOMAIN pending] :
              /\ \A i \in DOMAIN pending : pending'[i] = pending[o[i]]
              /\ \A k \in DOMAIN pending : \E i \in DOMAIN pending : o[i] = k
      BY <2>3
    <2>6. \A w : Gathered(w, pending') = Gathered(w, pending)
      <3>1. ASSUME NEW w, NEW x PROVE x \in Gathered(w, pending') <=> x \in Gathered(w, pending)
        <4>1. x \in Gathered(w, pending') => x \in Gathered(w, pending)
          BY <2>4, <2>5 DEF Gathered
        <4>2. ASSUME NEW k \in DOMAIN pending, pending[k].worker = w
              PROVE  pending[k].of \in Gathered(w, pending')
          <5>1. PICK i \in DOMAIN pending : o[i] = k
            BY <2>5
          <5>2. i \in DOMAIN pending' /\ pending'[i] = pending[k]
            BY <2>4, <2>5, <5>1
          <5> QED
            BY <4>2, <5>2 DEF Gathered
        <4> QED
          BY <4>1, <4>2 DEF Gathered
      <3> QED
        BY <3>1
    <2>7. \A w : Requested(w)' = Requested(w)
      BY <2>1, <2>6 DEF Requested
    <2>8. Out = {} /\ Out' = {} /\ Crew' = Crew
      BY <2>1 DEF Out, Crew
    <2>9. Held' = Held
      BY <2>1, <2>8 DEF Held, InWave
    <2>10. PhaseInv'
      <3>1. \A k \in DOMAIN pending' : pending'[k].worker \in target
        BY <1>1, <2>4, <2>5 DEF PhaseInv
      <3> QED
        BY <1>1, <2>1, <2>4, <2>8, <3>1 DEF PhaseInv, InWave
    <2>11. CapacityKept'
      BY <2>1 DEF CapacityKept
    <2> QED
      BY <2>1, <2>7, <2>8, <2>9, <2>10, <2>11, WorkersUnaware DEF Closing
  <1>7. CASE EvaluateChunk
    <2>1. /\ \A w \in Pool : Requested(w)' = Requested(w)
          /\ PhaseInv' /\ pc' \in {"evaluating", "replying"} /\ pc = "evaluating"
          /\ UNCHANGED <<searches, messages, commands, slots, buckets, needs, active,
                         target, arrived, finished, failed, wpc, tasks, at, abandoned>>
      BY <1>7, ChunkAnswered DEF EvaluateChunk
    <2>2. Out = {} /\ Out' = {}
      BY <2>1 DEF Out
    <2>3. Held' = Held
      BY <2>1, <2>2 DEF Held, InWave
    <2>4. CapacityKept'
      BY <2>1 DEF CapacityKept
    <2> QED
      BY <2>1, <2>2, <2>3, <2>4, WorkersUnaware DEF Closing
  <1>8. CASE EvaluationFails
    <2>1. /\ pc = "evaluating" /\ pc' = "replying" /\ failed' = TRUE
          /\ UNCHANGED <<searches, messages, commands, slots, buckets, needs, active, target,
                         arrived, pending, responses, finished, result, wpc, tasks, at,
                         abandoned>>
      BY <1>8 DEF EvaluationFails
    <2>2. Out = {} /\ Out' = {} /\ Crew' = Crew /\ \A w : Requested(w)' = Requested(w)
      BY <2>1 DEF Out, Crew, Requested
    <2>3. Held' = Held
      BY <2>1, <2>2 DEF Held, InWave
    <2>4. PhaseInv'
      BY <1>1, <2>1, <2>2 DEF PhaseInv, InWave
    <2>5. CapacityKept'
      BY <2>1 DEF CapacityKept
    <2> QED
      BY <2>1, <2>2, <2>3, <2>4, <2>5, WorkersUnaware DEF Closing
  <1>9. CASE Restore
    <2>1. /\ pc = "restoring" /\ pc' = "idle"
          /\ UNCHANGED <<messages, commands, slots, buckets, needs, active, target,
                         arrived, pending, responses, finished, failed, wpc, tasks, at,
                         abandoned>>
      BY <1>9 DEF Restore, Return
    <2>2. Out' = Out /\ Held' = Held /\ Crew' = Crew /\ \A w : Requested(w)' = Requested(w)
      BY <2>1 DEF Out, Held, Crew, Requested, InWave
    <2>3. PhaseInv'
      BY <1>1, <2>1, <2>2 DEF PhaseInv, InWave
    <2>4. CapacityKept'
      <3>1. \A s \in Range(slots) : searches'[s] # "taken"
        BY <1>9, RestoreGivesBack
      <3>2. Range(slots)' = Range(slots)
        BY <2>1
      <3> QED
        BY <3>1, <3>2 DEF CapacityKept
    <2> QED
      BY <2>1, <2>2, <2>3, <2>4, WorkersUnaware DEF Closing
  <1> QED
    BY <1>2, <1>3, <1>4, <1>5, <1>6, <1>7, <1>8, <1>9

(* A new call finds every worker ready or dead, and nothing on its way.    *)
LEMMA PlayKeepsOrder ==
  ASSUME Typed, Tidy, NEW request \in Requests,
         NEW need \in [DOMAIN request -> 0..MaxEvals], Play(request, need)
  PROVE  Tidy'
PROOF
  <1> USE DEF channels, call, wave, outcome, workers, history
  <1> DEFINE n == Len(request)
             play == plays + 1
  <1>1. /\ TypeOK /\ PhaseInv /\ TurnInv
    BY DEF Typed, Tidy
  <1>2. /\ pc = "idle" /\ plays < MaxPlays /\ slots' = request
        /\ buckets' = Buckets(request, need, play)
        /\ finished' = {} /\ failed' = FALSE /\ pc' = "starting"
        /\ UNCHANGED <<messages, commands, active, target, arrived, pending, responses,
                       wpc, tasks, at, abandoned>>
    BY DEF Play
  <1>3. Out = {} /\ Held = {}
    BY <1>2 DEF Out, Held, InWave
  <1>4. /\ messages = <<>>
        /\ \A w \in Pool : /\ commands[w] = <<>> /\ tasks[w] = <<>>
                           /\ wpc[w] \in {"ready", "dead", "gone"}
    BY <1>2, <1>3, NobodyOut DEF Closing
  <1>5. /\ request \in Seq(Slots) /\ n \in Nat /\ DOMAIN request = 1..n
        /\ play \in 1..MaxPlays
    <2>1. request \in Seq(Slots) /\ plays \in Nat /\ MaxPlays \in Nat
      BY <1>1, SchedulerAssumption DEF TypeOK
    <2> QED
      BY <1>2, <2>1
  <1>6. /\ Len(buckets') = WorkerCount(n) /\ WorkerCount(n) \in Nat
        /\ \A r \in 1..n : WorkerOf(r, n) \in 1..WorkerCount(n)
        /\ DOMAIN buckets' = 1..WorkerCount(n)
        /\ \A w \in DOMAIN buckets' : Owns(w, buckets'[w], request)
        /\ \A r \in 1..n : Holds(buckets'[WorkerOf(r, n)], r)
    <2>1. /\ WorkerCount(n) \in Nat
          /\ \A r \in 1..n : WorkerOf(r, n) \in 1..WorkerCount(n)
      BY <1>5, Crews
    <2> HIDE DEF play
    <2>2. /\ Len(buckets') = WorkerCount(Len(request))
          /\ DOMAIN buckets' = 1..WorkerCount(Len(request))
          /\ \A w \in DOMAIN buckets' : Owns(w, buckets'[w], request)
          /\ \A r \in DOMAIN request : Holds(buckets'[WorkerOf(r, Len(request))], r)
      <3> DEFINE B == Buckets(request, need, play)
      <3>1. play \in 1..MaxPlays /\ request \in Seq(Slots)
        BY <1>5
      <3>2. /\ Len(B) = WorkerCount(Len(request)) /\ DOMAIN B = 1..WorkerCount(Len(request))
            /\ \A w \in DOMAIN B : Owns(w, B[w], request)
            /\ \A r \in DOMAIN request : Holds(B[WorkerOf(r, Len(request))], r)
        BY <3>1, BucketRows
      <3>3. buckets' = B
        BY <1>2
      <3> HIDE DEF B
      <3> QED
        BY <3>2, <3>3
    <2> QED
      BY <1>5, <2>1, <2>2
  <1> HIDE DEF play, n
  <1>7. Sent' = 0 /\ Out' = {} /\ Held' = {}
    <2>1. Sent' = 0
      BY <1>2, <1>6 DEF Sent, n
    <2> QED
      BY <1>2, <2>1 DEF Out, Held, InWave
  <1>8. PhaseInv'
    <2>1. Nobody' = Nobody
      BY DEF Nobody
    <2>2. \A k \in DOMAIN pending' : FALSE
      BY <1>1, <1>2 DEF PhaseInv, InWave
    <2> QED
      BY <1>1, <1>2, <2>1, <2>2 DEF PhaseInv, InWave
  <1>9. CommandInv'
    BY <1>2, <1>4 DEF CommandInv
  <1>10. TurnInv'
    <2>1. \A w \in Pool : wpc[w] # "gone"
      BY <1>1, <1>2 DEF TurnInv, Closing
    <2> QED
      BY <1>2, <1>4, <1>7, <2>1 DEF TurnInv, Silent, Passing
  <1>11. MessageInv'
    BY <1>2, <1>4 DEF MessageInv
  <1>12. TaskInv'
    <2>1. \A w : Owns(w, <<>>, slots')
      BY DEF Owns
    <2>2. ASSUME NEW w \in DOMAIN buckets'
          PROVE  Owns(Sent' + w, buckets'[w], slots')
      <3>1. Sent' + w = w
        BY <1>6, <1>7
      <3>2. Owns(w, buckets'[w], slots')
        BY <1>2, <1>6
      <3> QED
        BY <3>1, <3>2
    <2> QED
      BY <1>2, <1>4, <2>1, <2>2 DEF TaskInv
  <1>13. RequestInv'
    BY <1>2, <1>4 DEF RequestInv, Passing
  <1>14. CoverInv'
    <2>1. ASSUME NEW r \in DOMAIN slots'
          PROVE  Covered(r, WorkerOf(r, Len(slots)))'
      <3>1. PICK v : v = WorkerOf(r, Len(slots'))
        OBVIOUS
      <3>2. r \in 1..n /\ v = WorkerOf(r, n) /\ v \in 1..WorkerCount(n)
        BY <1>2, <1>5, <1>6, <3>1 DEF n
      <3>3. v > 0 /\ v - 0 = v /\ Holds(buckets'[v], r)
        BY <1>6, <3>2
      <3>4. Covered(r, v)'
        BY <1>2, <1>7, <3>3 DEF Covered
      <3> QED
        BY <3>1, <3>4
    <2> QED
      BY <2>1 DEF CoverInv, Rows
  <1>15. OneOwnAnswerEach'
    <2>1. Range(<<>>) = {}
      BY DEF Range
    <2> QED
      BY <1>2, <1>4, <2>1 DEF OneOwnAnswerEach
  <1>16. CapacityKept'
    BY <1>2 DEF CapacityKept
  <1> QED
    BY <1>8, <1>9, <1>10, <1>11, <1>12, <1>13, <1>14, <1>15, <1>16 DEF Tidy

(* Drop tells the workers to stop while they are all ready.                *)
LEMMA DropKeepsOrder ==
  ASSUME Typed, Tidy, Drop
  PROVE  Tidy'
PROOF
  <1> USE DEF channels, call, wave, outcome, workers, history
  <1> DEFINE c == [type |-> "shutdown"]
  <1>1. /\ TypeOK /\ PhaseInv /\ TurnInv /\ TaskInv /\ CoverInv /\ CapacityKept
    BY DEF Typed, Tidy
  <1>2. /\ pc = "idle" /\ pc' = "dropping"
        /\ commands' = [w \in Pool |-> IF wpc[w] = "dead" THEN commands[w]
                                       ELSE Append(commands[w], c)]
        /\ UNCHANGED <<searches, messages, slots, buckets, needs, active, target, arrived,
                       pending, responses, finished, failed, result, wpc, tasks, at,
                       abandoned>>
    BY DEF Drop
  <1>3. /\ Out = {} /\ Held = {} /\ Out' = {} /\ Held' = {} /\ Crew' = Crew
        /\ \A w : Requested(w)' = Requested(w)
    BY <1>2 DEF Out, Held, Crew, Requested, InWave
  <1>4. /\ messages = <<>>
        /\ \A w \in Pool : /\ commands[w] = <<>> /\ tasks[w] = <<>>
                           /\ wpc[w] \in {"ready", "dead", "gone"} /\ wpc[w] # "gone"
    BY <1>1, <1>2, <1>3, NobodyOut DEF TurnInv, Closing
  <1>5. \A w \in Pool : commands'[w] = IF wpc[w] = "dead" THEN <<>> ELSE <<c>>
    <2>1. Append(<<>>, c) = <<c>>
      OBVIOUS
    <2> HIDE DEF c
    <2> QED
      BY <1>2, <1>4, <2>1
  <1>6. Len(<<c>>) = 1 /\ Head(<<c>>) = c /\ c.type = "shutdown" /\ Range(<<c>>) = {c}
    BY DEF Range
  <1>7. \A w \in Pool : Requested(w)' = {}
    <2>1. \A w \in Pool : responses[w] = {}
      BY <1>1, <1>2 DEF PhaseInv, Nobody
    <2>2. pending = <<>>
      BY <1>1, <1>2 DEF PhaseInv, InWave
    <2> QED
      <3>1. \A w : Asking(w, <<>>) = {} /\ Gathered(w, <<>>) = {} /\ Routed({}) = {}
        BY DEF Asking, Gathered, Routed
      <3> QED
        BY <1>3, <1>4, <2>1, <2>2, <3>1 DEF Requested
  <1> HIDE DEF c
  <1>8. PhaseInv'
    BY <1>1, <1>2, <1>3 DEF PhaseInv, InWave
  <1>9. CommandInv'
    <2>1. ASSUME NEW w \in Pool, commands'[w] # <<>>
          PROVE  /\ Len(commands'[w]) = 1 /\ Silent(w, messages', Len(slots'))
                 /\ Head(commands'[w]).type = "shutdown" /\ wpc'[w] = "ready"
      <3>1. commands'[w] = <<c>> /\ wpc[w] = "ready"
        BY <1>4, <1>5, <2>1
      <3> QED
        BY <1>2, <1>4, <1>6, <3>1 DEF Silent
    <2> QED
      BY <1>2, <2>1 DEF CommandInv, Closing
  <1>10. TurnInv'
    BY <1>2, <1>3, <1>4 DEF TurnInv, Silent, Passing
  <1>11. MessageInv'
    BY <1>2, <1>4 DEF MessageInv
  <1>12. TaskInv'
    BY <1>1, <1>2, <1>5, <1>6 DEF TaskInv
  <1>13. RequestInv'
    BY <1>2, <1>4, <1>7 DEF RequestInv, Passing
  <1>14. CoverInv'
    <2>1. ASSUME NEW r \in Rows
          PROVE  Covered(r, WorkerOf(r, Len(slots)))'
      <3>1. PICK v : v = WorkerOf(r, Len(slots))
        OBVIOUS
      <3>2. v \in Pool
        BY <1>1, <3>1, Crews DEF Rows, TypeOK
      <3>3. Covered(r, v)
        BY <3>1, <1>1 DEF CoverInv
      <3>4. Covered(r, v)'
        BY <1>2, <1>4, <3>2, <3>3 DEF Covered
      <3> QED
        BY <1>2, <3>1, <3>4
    <2> QED
      BY <1>2, <2>1 DEF CoverInv, Rows
  <1>15. OneOwnAnswerEach'
    <2>1. ASSUME NEW w \in Pool PROVE \A d \in Range(commands'[w]) : d.type = "shutdown"
      <3>1. Range(<<>>) = {}
        BY DEF Range
      <3> QED
        BY <1>5, <1>6, <3>1
    <2> QED
      BY <2>1 DEF OneOwnAnswerEach
  <1>16. CapacityKept'
    BY <1>2 DEF CapacityKept
  <1> QED
    BY <1>8, <1>9, <1>10, <1>11, <1>12, <1>13, <1>14, <1>15, <1>16 DEF Tidy

(* The next worker is told to start; from now on the call waits for it.    *)
LEMMA StartKeepsOrder ==
  ASSUME Typed, Tidy, SendStart, ~abandoned'
  PROVE  Tidy'
PROOF
  <1> USE DEF channels, call, wave, outcome, workers, history
  <1> DEFINE w == WorkerCount(Len(slots)) - Len(buckets) + 1
             c == [type |-> "start", tasks |-> Head(buckets)]
  <1>1. /\ TypeOK /\ StartInv /\ PhaseInv /\ CommandInv /\ TurnInv /\ MessageInv /\ TaskInv
        /\ RequestInv /\ CoverInv /\ OneOwnAnswerEach
    BY DEF Typed, Tidy
  <1>2. /\ pc = "starting" /\ buckets # <<>> /\ buckets' = Tail(buckets)
        /\ wpc[w] \notin {"dead", "gone"}
        /\ commands' = [commands EXCEPT ![w] = Append(commands[w], c)]
        /\ UNCHANGED <<searches, messages, pc, slots, needs, active, target, arrived,
                       pending, responses, finished, failed, result, wpc, tasks, at,
                       abandoned>>
    BY DEF SendStart
  <1>3. /\ Len(slots) \in Nat /\ WorkerCount(Len(slots)) \in Nat
        /\ 1..WorkerCount(Len(slots)) \subseteq Pool
        /\ Len(buckets) \in 1..WorkerCount(Len(slots))
        /\ DOMAIN buckets = 1..Len(buckets)
        /\ Len(buckets') = Len(buckets) - 1 /\ DOMAIN buckets' = 1..(Len(buckets) - 1)
        /\ \A k \in 1..(Len(buckets) - 1) : buckets'[k] = buckets[k + 1]
        /\ Head(buckets) = buckets[1]
    <2>1. Len(slots) \in Nat /\ buckets \in Seq(Seq(Task))
      BY <1>1 DEF TypeOK
    <2>2. WorkerCount(Len(slots)) \in Nat /\ 1..WorkerCount(Len(slots)) \subseteq Pool
      BY <2>1, Crews
    <2> DEFINE S == Seq(Task)
    <2>3. buckets \in Seq(S)
      BY <2>1
    <2> HIDE DEF S
    <2>4. Len(buckets) \in 1..WorkerCount(Len(slots))
      BY <1>1, <1>2, <2>2, <2>3 DEF StartInv
    <2>5. /\ DOMAIN buckets = 1..Len(buckets)
          /\ Len(buckets') = Len(buckets) - 1 /\ DOMAIN buckets' = 1..(Len(buckets) - 1)
          /\ \A k \in 1..(Len(buckets) - 1) : buckets'[k] = buckets[k + 1]
          /\ Head(buckets) = buckets[1]
      BY <1>2, <2>3
    <2> QED
      BY <2>1, <2>2, <2>4, <2>5
  <1>4. /\ w = Sent + 1 /\ Sent' = w /\ Sent \in Nat /\ w \in Nat /\ w \in Pool /\ w \notin Out
        /\ Out = 1..Sent /\ Out' = Out \cup {w} /\ Held = {} /\ Held' = {} /\ Crew' = Crew
    <2>1. w = Sent + 1 /\ Sent' = w /\ Sent \in Nat /\ w \in 1..WorkerCount(Len(slots))
      BY <1>2, <1>3 DEF Sent
    <2> HIDE DEF w
    <2>2. Out = 1..Sent /\ Out' = 1..w
      BY <1>2, <2>1 DEF Out
    <2>3. w \in Nat /\ w \notin Out /\ Out' = Out \cup {w}
      BY <2>1, <2>2
    <2> QED
      BY <1>2, <1>3, <2>1, <2>2, <2>3 DEF Held, Crew, InWave
  <1>5. Silent(w, messages, Len(slots)) /\ commands[w] = <<>> /\ wpc[w] = "ready"
        /\ tasks[w] = <<>>
    <2> HIDE DEF w
    <2>1. Silent(w, messages, Len(slots)) /\ wpc[w] \notin Passing /\ wpc[w] # "waiting"
      BY <1>1, <1>4 DEF TurnInv
    <2>2. wpc[w] \in {"ready", "opening", "resuming", "waiting", "dead", "gone"}
      BY <1>1, <1>4 DEF TypeOK
    <2>3. wpc[w] = "ready"
      BY <1>2, <2>1, <2>2 DEF Passing
    <2>4. commands[w] = <<>>
      BY <1>1, <1>2, <1>4 DEF CommandInv, Closing
    <2> QED
      BY <1>1, <1>4, <2>1, <2>3, <2>4 DEF TurnInv
  <1>6. /\ commands'[w] = <<c>> /\ \A v \in Pool : v # w => commands'[v] = commands[v]
        /\ c.type = "start" /\ c.tasks = buckets[1]
    <2>1. commands \in [Pool -> Seq(Commands)]
      BY <1>1 DEF TypeOK
    <2> HIDE DEF w
    <2> QED
      BY <1>2, <1>3, <1>4, <1>5, <2>1
  <1>7. Len(<<c>>) = 1 /\ Head(<<c>>) = c /\ Range(<<c>>) = {c}
    BY DEF Range
  <1>8. \A v : Requested(v)' = Requested(v)
    BY <1>2 DEF Requested
  <1>9. Requested(w) = {}
    <2>1. responses[w] = {} /\ pending = <<>>
      BY <1>1, <1>2, <1>4 DEF PhaseInv, Nobody, InWave
    <2>2. \A i \in DOMAIN messages : messages[i].type = "request" => messages[i].worker # w
      BY <1>5 DEF Silent, Sender
    <2> HIDE DEF w
    <2> QED
      BY <2>1, <2>2 DEF Requested, Asking, Gathered, Routed
  <1>10. Owns(w, buckets[1], slots)
    <2>1. 1 \in DOMAIN buckets
      BY <1>3
    <2>2. Owns(Sent + 1, buckets[1], slots)
      BY <1>1, <1>2, <2>1 DEF TaskInv
    <2> QED
      BY <1>4, <2>2
  <1> HIDE DEF w, c
  <1>11. PhaseInv'
    BY <1>1, <1>2, <1>4 DEF PhaseInv
  <1>12. CommandInv'
    <2>1. ASSUME NEW v \in Pool, commands'[v] # <<>>
          PROVE  /\ Len(commands'[v]) = 1 /\ Silent(v, messages', Len(slots'))
                 /\ IF Head(commands'[v]).type = "shutdown"
                    THEN pc' \in Closing /\ wpc'[v] = "ready"
                    ELSE /\ v \in Out'
                         /\ wpc'[v] = IF Head(commands'[v]).type = "start"
                                      THEN "ready" ELSE "waiting"
      <3>1. CASE v = w
        BY <3>1, <1>2, <1>4, <1>5, <1>6, <1>7
      <3>2. CASE v # w
        BY <3>2, <2>1, <1>1, <1>2, <1>4, <1>6 DEF CommandInv
      <3> QED
        BY <3>1, <3>2
    <2> QED
      BY <2>1 DEF CommandInv
  <1>13. TurnInv'
    BY <1>1, <1>2, <1>4, <1>5, <1>6 DEF TurnInv, Passing
  <1>14. MessageInv'
    BY <1>1, <1>2 DEF MessageInv
  <1>15. TaskInv'
    <2>1. ASSUME NEW k \in DOMAIN buckets'
          PROVE  Owns(Sent' + k, buckets'[k], slots)
      <3>1. k + 1 \in DOMAIN buckets /\ buckets'[k] = buckets[k + 1] /\ Sent' + k = Sent + (k + 1)
        <4>1. k \in 1..(Len(buckets) - 1)
          BY <1>3
        <4>2. k + 1 \in 1..Len(buckets)
          BY <1>3, <4>1
        <4>3. Sent' + k = Sent + (k + 1)
          BY <1>4, <4>1
        <4> QED
          BY <1>3, <4>1, <4>2, <4>3
      <3> QED
        BY <1>1, <1>2, <3>1 DEF TaskInv
    <2>2. \A v \in Pool : commands'[v] # <<>> /\ Head(commands'[v]).type = "start" =>
            Owns(v, Head(commands'[v]).tasks, slots)
      BY <1>1, <1>6, <1>7, <1>10 DEF TaskInv
    <2> QED
      BY <1>1, <1>2, <2>1, <2>2 DEF TaskInv
  <1>16. RequestInv'
    BY <1>1, <1>2, <1>5, <1>6, <1>8, <1>9 DEF RequestInv, Passing
  <1>17. CoverInv'
    <2>1. ASSUME NEW r \in Rows
          PROVE  Covered(r, WorkerOf(r, Len(slots)))'
      <3>1. PICK v : v = WorkerOf(r, Len(slots))
        OBVIOUS
      <3>2. v \in Pool /\ v \in 1..WorkerCount(Len(slots))
        <4>1. r \in 1..Len(slots)
          BY <1>1 DEF Rows, TypeOK
        <4> QED
          BY <1>3, <3>1, <4>1, Crews
      <3>3. Covered(r, v)
        BY <3>1, <1>1 DEF CoverInv
      <3>4. ASSUME pc = "starting", v > Sent, Holds(buckets[v - Sent], r)
            PROVE  Covered(r, v)'
        <4>1. CASE v = w
          <5>1. v - Sent = 1
            BY <1>4, <4>1
          <5>2. commands'[v] # <<>> /\ Head(commands'[v]) = c
            BY <1>6, <1>7, <4>1
          <5> QED
            BY <1>6, <3>4, <5>1, <5>2 DEF Covered
        <4>2. CASE v # w
          <5>1. /\ v > Sent' /\ v - Sent' \in 1..(Len(buckets) - 1)
                /\ (v - Sent') + 1 = v - Sent
            <6>1. v \in 1..WorkerCount(Len(slots)) /\ v > Sent /\ v # Sent + 1
                  /\ Sent' = Sent + 1 /\ Sent \in Nat
                  /\ Sent = WorkerCount(Len(slots)) - Len(buckets)
              BY <1>4, <3>2, <3>4, <4>2 DEF Sent
            <6> QED
              BY <1>3, <6>1
          <5>2. buckets'[v - Sent'] = buckets[v - Sent]
            BY <1>3, <5>1
          <5> QED
            BY <1>2, <3>4, <5>1, <5>2 DEF Covered
        <4> QED
          BY <4>1, <4>2
      <3>5. ASSUME ~(pc = "starting" /\ v > Sent /\ Holds(buckets[v - Sent], r))
            PROVE  Covered(r, v)'
        BY <1>2, <1>5, <1>6, <3>2, <3>3, <3>5 DEF Covered
      <3>6. Covered(r, v)'
        BY <3>4, <3>5
      <3> QED
        BY <1>2, <3>1, <3>6
    <2> QED
      BY <1>2, <2>1 DEF CoverInv, Rows
  <1>18. OneOwnAnswerEach'
    BY <1>1, <1>2, <1>6, <1>7 DEF OneOwnAnswerEach
  <1>19. CapacityKept'
    BY <1>2 DEF CapacityKept
  <1> QED
    BY <1>11, <1>12, <1>13, <1>14, <1>15, <1>16, <1>17, <1>18, <1>19 DEF Tidy

(* The oldest message is taken: those that stay move up.                   *)
LEMMA OldestTaken ==
  ASSUME Typed, messages # <<>>, messages' = Tail(messages)
  PROVE  /\ 1 \in DOMAIN messages /\ messages[1] = Head(messages)
         /\ \A i \in DOMAIN messages' :
              /\ i + 1 \in DOMAIN messages /\ messages'[i] = messages[i + 1]
              /\ i \in Nat /\ i + 1 # 1
         /\ \A i \in DOMAIN messages : i # 1 =>
              /\ i - 1 \in DOMAIN messages' /\ messages'[i - 1] = messages[i]
              /\ i \in Nat /\ (i - 1) + 1 = i
PROOF
  <1> DEFINE n == Len(messages)
  <1>1. messages \in Seq(Messages)
    BY DEF Typed, TypeOK
  <1>2. /\ n \in Nat /\ n >= 1 /\ DOMAIN messages = 1..n /\ messages[1] = Head(messages)
        /\ DOMAIN messages' = 1..(n - 1)
        /\ \A i \in 1..(n - 1) : messages'[i] = messages[i + 1]
    <2> HIDE DEF Messages
    <2> QED
      BY <1>1
  <1> HIDE DEF n
  <1>3. 1 \in DOMAIN messages
    BY <1>2
  <1>4. ASSUME NEW i \in DOMAIN messages'
        PROVE  /\ i + 1 \in DOMAIN messages /\ messages'[i] = messages[i + 1]
               /\ i \in Nat /\ i + 1 # 1
    <2>1. i \in 1..(n - 1)
      BY <1>2
    <2>2. i + 1 \in 1..n /\ i \in Nat /\ i + 1 # 1
      BY <1>2, <2>1
    <2> QED
      BY <1>2, <2>1, <2>2
  <1>5. ASSUME NEW i \in DOMAIN messages, i # 1
        PROVE  /\ i - 1 \in DOMAIN messages' /\ messages'[i - 1] = messages[i]
               /\ i \in Nat /\ (i - 1) + 1 = i
    <2>1. i \in 1..n
      BY <1>2
    <2>2. i - 1 \in 1..(n - 1) /\ i \in Nat /\ (i - 1) + 1 = i
      BY <1>2, <1>5, <2>1
    <2> QED
      BY <1>2, <2>2
  <1> QED
    BY <1>2, <1>3, <1>4, <1>5

(* The coordinator takes the oldest message; after the last word of a      *)
(* worker it waits for that worker no more.                                *)
LEMMA ReceiveKeepsOrder ==
  ASSUME Typed, Tidy, Receive
  PROVE  Tidy'
PROOF
  <1> USE DEF channels, call, wave, outcome, workers, history
  <1>1. /\ TypeOK /\ PhaseInv /\ CommandInv /\ TurnInv /\ MessageInv /\ TaskInv
        /\ RequestInv /\ CoverInv /\ OneOwnAnswerEach
    BY DEF Typed, Tidy
  <1>2. PICK m : m = Head(messages)
    OBVIOUS
  <1>3. /\ pc = "collecting" /\ messages # <<>> /\ messages' = Tail(messages)
        /\ UNCHANGED <<searches, commands, pc, slots, buckets, needs, target, responses,
                       result, wpc, tasks, at, abandoned>>
    BY DEF Receive
  <1>4. /\ m.type = "request" =>
             /\ pending' = Append(pending, [worker |-> m.worker, of |-> m.of])
             /\ UNCHANGED <<active, arrived, finished, failed>>
        /\ m.type = "finished" =>
             /\ finished' = finished \cup {[task |-> m.task, ok |-> m.ok]}
             /\ UNCHANGED <<active, arrived, pending, failed>>
        /\ m.type \in LastWords =>
             /\ Arrive(m.worker) /\ UNCHANGED <<pending, finished>>
             /\ active' = IF m.type = "barrier" THEN active ELSE active \ {m.worker}
             /\ m.type # "panicked" => failed' = failed
    BY <1>2 DEF Receive, LastWords
  <1>5. /\ 1 \in DOMAIN messages /\ messages[1] = m
        /\ \A i \in DOMAIN messages' :
             /\ i + 1 \in DOMAIN messages /\ messages'[i] = messages[i + 1]
             /\ i \in Nat /\ i + 1 # 1
        /\ \A i \in DOMAIN messages : i # 1 =>
             /\ i - 1 \in DOMAIN messages' /\ messages'[i - 1] = messages[i]
             /\ i \in Nat /\ (i - 1) + 1 = i
    BY <1>2, <1>3, OldestTaken
  <1>6. m.type \in {"request", "finished"} \cup LastWords
    BY <1>1, <1>5, Shapes DEF LastWords
  <1>7. PICK u \in Pool : u = Sender(m, Len(slots))
    BY <1>1, <1>5 DEF MessageInv
  <1>8. m.type # "finished" => m.worker = u
    BY <1>7 DEF Sender
  <1>9. Out = target \ arrived /\ Out' = target \ arrived' /\ Crew' = Crew /\ u \in Out
    <2>1. ~Silent(u, messages, Len(slots))
      BY <1>5, <1>7 DEF Silent
    <2> QED
      BY <1>1, <1>3, <2>1 DEF Out, TurnInv, Crew
  <1>10. \A v : Silent(v, messages, Len(slots)) => Silent(v, messages', Len(slots'))
    BY <1>3, <1>5 DEF Silent
  <1>11. commands[u] = <<>>
    <2>1. ~Silent(u, messages, Len(slots))
      BY <1>5, <1>7 DEF Silent
    <2> QED
      BY <1>1, <2>1 DEF CommandInv
  <1>12. m.type \in LastWords =>
           /\ Silent(u, messages', Len(slots')) /\ wpc[u] = After(m)
           /\ arrived' = arrived \cup {u} /\ Out' = Out \ {u}
    <2>1. ASSUME m.type \in LastWords, NEW i \in DOMAIN messages',
                 Sender(messages'[i], Len(slots')) = u
          PROVE  FALSE
      <3>1. i + 1 \in DOMAIN messages /\ Sender(messages[i + 1], Len(slots)) = u /\ i \in Nat
            /\ i + 1 # 1
        BY <1>3, <1>5, <2>1
      <3>2. \A j \in DOMAIN messages : Sender(messages[j], Len(slots)) = u => j <= 1
        BY <1>1, <1>5, <1>7, <2>1 DEF MessageInv
      <3>3. i + 1 <= 1
        BY <3>1, <3>2
      <3> QED
        BY <3>1, <3>3
    <2>2. m.type \in LastWords => wpc[u] = After(m)
      BY <1>1, <1>5, <1>7 DEF MessageInv
    <2>3. m.type \in LastWords => arrived' = arrived \cup {u}
      BY <1>4, <1>8, <1>9 DEF Arrive, LastWords
    <2>4. m.type \in LastWords => Out' = Out \ {u}
      BY <1>9, <2>3
    <2> QED
      BY <2>1, <2>2, <2>3, <2>4 DEF Silent
  <1>13. m.type \notin LastWords => Out' = Out /\ active' = active /\ arrived' = arrived
    BY <1>4, <1>6, <1>9
  <1>14. Held = active \ Out /\ Held' = active' \ Out'
    BY <1>3 DEF Held, InWave
  <1>15. u \in active
    BY <1>1, <1>3, <1>9 DEF PhaseInv, InWave
  <1>16. \A v \in Pool : Requested(v)' = Requested(v)
    <2>1. ASSUME NEW v \in Pool, m.type = "request"
          PROVE  Requested(v)' = Requested(v)
      <3> DEFINE q == [worker |-> m.worker, of |-> m.of]
                 P == [worker : Pool, of : Asked]
      <3>1. pending \in Seq(P)
        BY <1>1 DEF TypeOK
      <3>2. /\ DOMAIN pending' = DOMAIN pending \cup {Len(pending) + 1}
            /\ pending'[Len(pending) + 1] = q /\ Len(pending) + 1 \notin DOMAIN pending
            /\ \A k \in DOMAIN pending : pending'[k] = pending[k]
        <4>1. pending' = Append(pending, q)
          BY <1>4, <2>1
        <4> HIDE DEF P, q
        <4> QED
          BY <3>1, <4>1
      <3>3. \A o : o \in Gathered(v, pending') <=>
              o \in Gathered(v, pending) \/ (m.worker = v /\ o = m.of)
        BY <3>2 DEF Gathered
      <3>4. \A o : o \in Asking(v, messages) =>
              o \in Asking(v, messages') \/ (m.worker = v /\ o = m.of)
        <4>1. ASSUME NEW i \in DOMAIN messages, messages[i].type = "request",
                     messages[i].worker = v
              PROVE  \/ messages[i].of \in Asking(v, messages')
                     \/ m.worker = v /\ messages[i].of = m.of
          BY <1>5, <4>1 DEF Asking
        <4> QED
          BY <4>1 DEF Asking
      <3>5. \A o : o \in Asking(v, messages') => o \in Asking(v, messages)
        BY <1>5 DEF Asking
      <3>6. m.worker = v => m.of \in Asking(v, messages)
        BY <1>5, <2>1 DEF Asking
      <3>7. \A o : o \in Requested(v)' <=> o \in Requested(v)
        BY <1>3, <3>3, <3>4, <3>5, <3>6 DEF Requested
      <3> QED
        BY <3>7
    <2>2. ASSUME NEW v \in Pool, m.type # "request"
          PROVE  Requested(v)' = Requested(v)
      <3>1. pending' = pending
        BY <1>4, <1>6, <2>2
      <3>2. \A o : o \in Asking(v, messages) => o \in Asking(v, messages')
        <4>1. ASSUME NEW i \in DOMAIN messages, messages[i].type = "request",
                     messages[i].worker = v
              PROVE  messages[i].of \in Asking(v, messages')
          BY <1>5, <2>2, <4>1 DEF Asking
        <4> QED
          BY <4>1 DEF Asking
      <3>3. \A o : o \in Asking(v, messages') => o \in Asking(v, messages)
        BY <1>5 DEF Asking
      <3>4. Asking(v, messages') = Asking(v, messages)
        BY <3>2, <3>3
      <3> QED
        BY <1>3, <3>1, <3>4 DEF Requested
    <2> QED
      BY <2>1, <2>2
  <1>17. PhaseInv'
    <2>1. \A k \in DOMAIN pending' : pending'[k].worker \in target
      <3>1. CASE m.type = "request"
        <4> DEFINE q == [worker |-> m.worker, of |-> m.of]
                   P == [worker : Pool, of : Asked]
        <4>1. pending \in Seq(P)
          BY <1>1 DEF TypeOK
        <4>2. pending' = Append(pending, q) /\ q.worker = u
          BY <1>4, <1>8, <3>1
        <4>3. \A k \in DOMAIN pending' :
                (k \in DOMAIN pending /\ pending'[k] = pending[k]) \/ pending'[k] = q
          <5> HIDE DEF P, q
          <5> QED
            BY <4>1, <4>2
        <4> QED
          BY <1>1, <1>9, <4>2, <4>3 DEF PhaseInv
      <3>2. CASE m.type # "request"
        BY <1>1, <1>4, <1>6, <3>2 DEF PhaseInv
      <3> QED
        BY <3>1, <3>2
    <2>2. active' \subseteq target /\ target \ active' \subseteq arrived'
      <3>1. active \subseteq target /\ target \ active \subseteq arrived
        BY <1>1, <1>3 DEF PhaseInv, InWave
      <3>2. CASE m.type \in LastWords
        BY <1>4, <1>8, <1>12, <3>1, <3>2 DEF LastWords
      <3>3. CASE m.type \notin LastWords
        BY <1>13, <3>1, <3>3
      <3> QED
        BY <3>2, <3>3
    <2> QED
      BY <1>1, <1>3, <1>9, <2>1, <2>2 DEF PhaseInv, InWave
  <1>18. CommandInv'
    <2>1. ASSUME NEW v \in Pool, commands'[v] # <<>>
          PROVE  /\ Len(commands'[v]) = 1 /\ Silent(v, messages', Len(slots'))
                 /\ IF Head(commands'[v]).type = "shutdown"
                    THEN pc' \in Closing /\ wpc'[v] = "ready"
                    ELSE /\ v \in Out'
                         /\ wpc'[v] = IF Head(commands'[v]).type = "start"
                                      THEN "ready" ELSE "waiting"
      <3>1. v # u /\ (v \in Out => v \in Out')
        BY <1>3, <1>11, <1>12, <1>13, <2>1
      <3> QED
        BY <1>1, <1>3, <1>10, <2>1, <3>1 DEF CommandInv
    <2> QED
      BY <2>1 DEF CommandInv
  <1>19. TurnInv'
    <2>1. ASSUME NEW v \in Pool, v # u \/ m.type \notin LastWords
          PROVE  /\ v \notin Out' => Silent(v, messages', Len(slots'))
                 /\ wpc'[v] \in Passing => /\ v \in Out' /\ commands'[v] = <<>>
                                           /\ at'[v] <= Len(tasks'[v]) + 1
                 /\ wpc'[v] = "gone" => pc' \in Closing
                 /\ wpc'[v] \in {"ready", "dead", "gone"} => tasks'[v] = <<>>
                 /\ wpc'[v] = "waiting" => v \in Out' \cup Held'
                 /\ v \in Held' => wpc'[v] = "waiting" /\ commands'[v] = <<>>
      <3>1. (v \in Out <=> v \in Out') /\ (v \in Held <=> v \in Held')
        <4>1. CASE m.type \in LastWords
          BY <1>4, <1>8, <1>12, <1>14, <2>1, <4>1 DEF LastWords
        <4>2. CASE m.type \notin LastWords
          BY <1>13, <1>14, <4>2
        <4> QED
          BY <4>1, <4>2
      <3> QED
        BY <1>1, <1>3, <1>10, <3>1 DEF TurnInv
    <2>2. ASSUME m.type \in LastWords
          PROVE  /\ u \notin Out' => Silent(u, messages', Len(slots'))
                 /\ wpc'[u] \in Passing => /\ u \in Out' /\ commands'[u] = <<>>
                                           /\ at'[u] <= Len(tasks'[u]) + 1
                 /\ wpc'[u] = "gone" => pc' \in Closing
                 /\ wpc'[u] \in {"ready", "dead", "gone"} => tasks'[u] = <<>>
                 /\ wpc'[u] = "waiting" => u \in Out' \cup Held'
                 /\ u \in Held' => wpc'[u] = "waiting" /\ commands'[u] = <<>>
      <3>1. wpc'[u] = After(m) /\ commands'[u] = <<>> /\ Silent(u, messages', Len(slots'))
            /\ u \notin Out' /\ tasks'[u] = tasks[u]
        BY <1>3, <1>11, <1>12, <2>2
      <3>2. wpc[u] \in {"ready", "dead", "gone"} => tasks[u] = <<>>
        BY <1>1 DEF TurnInv
      <3>3. u \in Held' <=> m.type = "barrier"
        BY <1>4, <1>8, <1>12, <1>14, <1>15, <2>2 DEF LastWords
      <3> QED
        BY <1>3, <2>2, <3>1, <3>2, <3>3 DEF After, Passing, LastWords
    <2> QED
      BY <2>1, <2>2 DEF TurnInv
  <1>20. MessageInv'
    <2>1. ASSUME NEW i \in DOMAIN messages'
          PROVE  /\ Sender(messages'[i], Len(slots)) \in Pool
                 /\ messages'[i].type \in LastWords =>
                      /\ \A j \in DOMAIN messages' :
                           Sender(messages'[j], Len(slots)) = Sender(messages'[i], Len(slots))
                             => j <= i
                      /\ wpc[Sender(messages'[i], Len(slots))] = After(messages'[i])
      <3>1. i + 1 \in DOMAIN messages /\ messages'[i] = messages[i + 1] /\ i \in Nat
        BY <1>5
      <3>2. /\ Sender(messages[i + 1], Len(slots)) \in Pool
            /\ messages[i + 1].type \in LastWords =>
                 /\ \A j \in DOMAIN messages :
                      Sender(messages[j], Len(slots)) = Sender(messages[i + 1], Len(slots))
                        => j <= i + 1
                 /\ wpc[Sender(messages[i + 1], Len(slots))] = After(messages[i + 1])
        BY <1>1, <3>1 DEF MessageInv
      <3>3. ASSUME messages[i + 1].type \in LastWords, NEW j \in DOMAIN messages',
                   Sender(messages'[j], Len(slots)) = Sender(messages'[i], Len(slots))
            PROVE  j <= i
        <4>1. j + 1 \in DOMAIN messages /\ messages'[j] = messages[j + 1] /\ j \in Nat
          BY <1>5
        <4>2. j + 1 <= i + 1
          BY <3>1, <3>2, <3>3, <4>1
        <4> QED
          BY <3>1, <4>1, <4>2
      <3> QED
        BY <3>1, <3>2, <3>3
    <2> QED
      BY <1>3, <2>1 DEF MessageInv
  <1>21. TaskInv'
    <2>1. \A i \in DOMAIN messages' :
            messages'[i].type = "finished" => Own(messages'[i].task, slots)
      BY <1>1, <1>5 DEF TaskInv
    <2>2. \A f \in finished' : Own(f.task, slots)
      <3>1. CASE m.type = "finished"
        <4>1. Own(m.task, slots)
          BY <1>1, <1>5, <3>1 DEF TaskInv
        <4> QED
          BY <1>1, <1>4, <3>1, <4>1 DEF TaskInv
      <3>2. CASE m.type # "finished"
        BY <1>1, <1>4, <1>6, <3>2 DEF TaskInv
      <3> QED
        BY <3>1, <3>2
    <2> QED
      BY <1>1, <1>3, <2>1, <2>2 DEF TaskInv
  <1>22. RequestInv'
    BY <1>1, <1>3, <1>16 DEF RequestInv
  <1>23. CoverInv'
    <2>1. ASSUME NEW r \in Rows
          PROVE  Covered(r, WorkerOf(r, Len(slots)))'
      <3>1. PICK v : v = WorkerOf(r, Len(slots))
        OBVIOUS
      <3>2. Covered(r, v)
        BY <3>1, <1>1 DEF CoverInv
      <3>3. finished \subseteq finished'
        BY <1>4, <1>6
      <3>4. ASSUME NEW i \in DOMAIN messages, messages[i].type = "finished",
                   messages[i].task.row = r
            PROVE  Covered(r, v)'
        <4>1. CASE i = 1
          <5>1. [task |-> m.task, ok |-> m.ok] \in finished' /\ m.task.row = r
            BY <1>4, <1>5, <3>4, <4>1
          <5>2. [task |-> m.task, ok |-> m.ok].task.row = r
            BY <5>1
          <5>3. \E f \in finished' : f.task.row = r
            BY <5>1, <5>2
          <5> QED
            BY <5>3 DEF Covered
        <4>2. CASE i # 1
          <5>1. i - 1 \in DOMAIN messages' /\ messages'[i - 1] = messages[i]
            BY <1>5, <4>2
          <5> QED
            BY <3>4, <5>1 DEF Covered
        <4> QED
          BY <4>1, <4>2
      <3>5. ASSUME ~\E i \in DOMAIN messages : messages[i].type = "finished"
                                               /\ messages[i].task.row = r
            PROVE  Covered(r, v)'
        BY <1>3, <3>2, <3>3, <3>5 DEF Covered
      <3>6. Covered(r, v)'
        BY <3>4, <3>5
      <3> QED
        BY <1>3, <3>1, <3>6
    <2> QED
      BY <1>3, <2>1 DEF CoverInv, Rows
  <1>24. OneOwnAnswerEach'
    BY <1>1, <1>3 DEF OneOwnAnswerEach
  <1>25. CapacityKept'
    BY <1>3 DEF CapacityKept
  <1> QED
    BY <1>17, <1>18, <1>19, <1>20, <1>21, <1>22, <1>23, <1>24, <1>25 DEF Tidy

(* Answers to what the searches of a worker have asked for: one each.      *)
LEMMA OneAnswerEach ==
  ASSUME NEW ts \in Seq(Task), NEW as \in SUBSET Answers,
         \A a \in as : a.row = a.of.row, Routed(as) = AskedOf(ts, Len(ts)),
         \A j, k \in DOMAIN ts : ts[j].row = ts[k].row => j = k
  PROVE  /\ {a.of : a \in as} = {AskedBy(t) : t \in Range(ts)}
         /\ Cardinality(as) = Len(ts)
PROOF
  <1> DEFINE n == Len(ts)
             f == [k \in 1..n |-> [row |-> ts[k].row, of |-> AskedBy(ts[k])]]
  <1>1. n \in Nat /\ DOMAIN ts = 1..n
    OBVIOUS
  <1>0. Routed(as) = AskedOf(ts, n)
    OBVIOUS
  <1> HIDE DEF n
  <1>2. {a.of : a \in as} = {AskedBy(t) : t \in Range(ts)}
    <2>1. \A x : x \in AskedOf(ts, n) <=> \E k \in 1..n : x = AskedBy(ts[k])
      BY DEF AskedOf
    <2>2. \A t : t \in Range(ts) <=> \E k \in 1..n : t = ts[k]
      BY <1>1 DEF Range
    <2>3. AskedOf(ts, n) = {AskedBy(t) : t \in Range(ts)}
      BY <2>1, <2>2
    <2> QED
      BY <1>0, <2>3 DEF Routed
  <1>3. \A k \in 1..n : AskedBy(ts[k]).row = ts[k].row
    BY DEF AskedBy
  <1>4. \A a \in as : a = [row |-> a.of.row, of |-> a.of]
    <2>1. ASSUME NEW a \in as
          PROVE  a = [row |-> a.of.row, of |-> a.of]
      <3>1. a \in [row : Nat, of : Asked] /\ a.row = a.of.row
        BY DEF Answers
      <3>2. a = [row |-> a.row, of |-> a.of]
        BY <3>1
      <3> QED
        BY <3>1, <3>2
    <2> QED
      BY <2>1
  <1>5. \A k \in 1..n : f[k] \in as
    <2>1. ASSUME NEW k \in 1..n
          PROVE  f[k] \in as
      <3>1. PICK a \in as : a.of = AskedBy(ts[k])
        <4>1. AskedBy(ts[k]) \in AskedOf(ts, n)
          BY DEF AskedOf
        <4>2. AskedBy(ts[k]) \in Routed(as)
          BY <1>0, <4>1
        <4> QED
          BY <4>2 DEF Routed
      <3>2. a = [row |-> a.of.row, of |-> a.of] /\ a.of.row = ts[k].row
        BY <1>3, <1>4, <3>1
      <3>3. a = [row |-> ts[k].row, of |-> AskedBy(ts[k])]
        BY <3>1, <3>2
      <3> QED
        BY <3>3
    <2> QED
      BY <2>1
  <1>6. \A a \in as : \E k \in 1..n : f[k] = a
    <2>1. ASSUME NEW a \in as
          PROVE  \E k \in 1..n : f[k] = a
      <3>1. PICK k \in 1..n : a.of = AskedBy(ts[k])
        <4>1. a.of \in Routed(as)
          BY DEF Routed
        <4>2. a.of \in AskedOf(ts, n)
          BY <1>0, <4>1
        <4> QED
          BY <4>2 DEF AskedOf
      <3>2. a = [row |-> a.of.row, of |-> a.of] /\ a.of.row = ts[k].row
        BY <1>3, <1>4, <3>1
      <3>3. a = [row |-> ts[k].row, of |-> AskedBy(ts[k])]
        BY <3>1, <3>2
      <3> QED
        BY <3>3
    <2> QED
      BY <2>1
  <1>7. \A j, k \in 1..n : f[j] = f[k] => j = k
    <2>1. \A k \in 1..n : f[k].row = ts[k].row
      OBVIOUS
    <2> HIDE DEF f
    <2> QED
      BY <1>1, <2>1
  <1>8. f \in Bijection(1..n, as)
    <2>1. f \in [1..n -> as]
      BY <1>5
    <2> HIDE DEF f
    <2> QED
      BY <1>6, <1>7, <2>1 DEF Bijection, Injection, Surjection, IsInjective
  <1>9. ExistsBijection(1..n, as)
    BY <1>8 DEF ExistsBijection
  <1>10. IsFiniteSet(1..n) /\ Cardinality(1..n) = n
    BY <1>1, FirstNumbers
  <1>11. Cardinality(as) = n
    BY <1>9, <1>10, FS_Bijection
  <1> QED
    BY <1>2, <1>11 DEF n

(* The coordinator answers all workers of the wave at once, and waits for  *)
(* them again.                                                             *)
LEMMA ReplyKeepsOrder ==
  ASSUME Typed, Tidy, Reply
  PROVE  Tidy'
PROOF
  <1> USE DEF call, outcome, workers, history
  <1>1. /\ TypeOK /\ PhaseInv /\ CommandInv /\ TurnInv /\ TaskInv /\ RequestInv /\ CoverInv
    BY DEF Typed, Tidy
  <1>2. /\ pc = "replying" /\ Out = {} /\ Held = active /\ arrived = target
        /\ active' = active /\ target' = active /\ arrived' = {}
        /\ pending' = <<>> /\ responses' = Nobody
        /\ pc' = IF active = {} THEN "restoring" ELSE "collecting"
        /\ UNCHANGED <<searches, messages, slots, buckets, needs, finished, failed, result,
                       wpc, tasks, at, abandoned>>
    BY <1>1 DEF Reply, NewWave, Out, Held, InWave, PhaseInv
  <1>3. /\ messages = <<>> /\ \A w \in Pool : Silent(w, messages, Len(slots))
        /\ \A w \in Pool : wpc[w] \notin Passing /\ commands[w] = <<>>
    BY <1>2, NobodyOut DEF Closing
  <1>4. PICK c \in [Pool -> Commands] :
          \A w \in Pool :
            /\ c[w].type \in {"cancel", "responses"}
            /\ c[w].type = "responses" => ~failed /\ c[w].rows = responses[w]
            /\ commands'[w] = IF w \in active THEN <<c[w]>> ELSE <<>>
    <2> DEFINE d == [w \in Pool |-> IF failed THEN [type |-> "cancel"]
                                    ELSE [type |-> "responses", rows |-> responses[w]]]
    <2>1. \A w \in Pool : w \in active => wpc[w] = "waiting"
      BY <1>1, <1>2 DEF TurnInv
    <2>2. \A w \in Pool : d[w] \in Commands
      BY <1>1 DEF Commands, TypeOK
    <2>3. \A w \in Pool : commands'[w] = IF w \notin active \/ wpc[w] \in {"dead", "gone"}
                                         THEN commands[w] ELSE Append(commands[w], d[w])
      BY DEF Reply
    <2>4. \A x : Append(<<>>, x) = <<x>>
      OBVIOUS
    <2>5. \A w \in Pool : commands'[w] = IF w \in active THEN <<d[w]>> ELSE <<>>
      BY <1>3, <2>1, <2>3, <2>4
    <2>6. \A w \in Pool :
            /\ d[w].type \in {"cancel", "responses"}
            /\ d[w].type = "responses" => ~failed /\ d[w].rows = responses[w]
      OBVIOUS
    <2>7. d \in [Pool -> Commands]
      BY <2>2
    <2> HIDE DEF d, Commands
    <2> QED
      BY <2>5, <2>6, <2>7
  <1>5. \A w \in Pool : commands'[w] # <<>> =>
          /\ w \in active /\ Len(commands'[w]) = 1 /\ Head(commands'[w]) = c[w]
          /\ Head(commands'[w]).type \in {"cancel", "responses"}
    <2>1. \A x : Len(<<x>>) = 1 /\ Head(<<x>>) = x
      OBVIOUS
    <2> QED
      BY <1>4, <2>1
  <1>6. active \subseteq Pool /\ Out' = active /\ Held' = {} /\ Crew' = Crew
    BY <1>1, <1>2 DEF Out, Held, InWave, Crew, TypeOK
  <1>7. \A w \in Pool : Requested(w)' = {}
    BY <1>2, <1>3 DEF Requested, Asking, Gathered, Routed, Nobody
  <1>8. PhaseInv'
    <2>1. \A w \in Pool : responses'[w] = {}
      BY <1>2 DEF Nobody
    <2>2. \A k \in DOMAIN pending' : FALSE
      BY <1>2
    <2> QED
      BY <1>1, <1>2, <1>6, <2>1, <2>2 DEF PhaseInv, InWave
  <1>9. CommandInv'
    <2>1. \A w \in Pool : w \in active => wpc[w] = "waiting"
      BY <1>1, <1>2 DEF TurnInv
    <2> QED
      BY <1>2, <1>3, <1>5, <1>6, <2>1 DEF CommandInv
  <1>10. TurnInv'
    BY <1>1, <1>2, <1>3, <1>6 DEF TurnInv, Closing, Passing
  <1>11. MessageInv'
    BY <1>2, <1>3 DEF MessageInv
  <1>12. TaskInv'
    <2>1. pc' # "starting"
      BY <1>2
    <2> QED
      BY <1>1, <1>2, <1>5, <2>1 DEF TaskInv
  <1>13. RequestInv'
    <2>1. ASSUME NEW w \in Pool, wpc[w] = "waiting", commands'[w] = <<>>
          PROVE  FALSE
      <3>1. w \in active
        BY <1>1, <1>2, <2>1 DEF TurnInv
      <3>2. commands'[w] = <<c[w]>>
        BY <1>4, <3>1
      <3>3. \A x : <<x>> # <<>>
        OBVIOUS
      <3> QED
        BY <2>1, <3>2, <3>3
    <2> QED
      BY <1>2, <1>3, <1>7, <2>1 DEF RequestInv
  <1>14. CoverInv'
    <2>1. ASSUME NEW r \in Rows
          PROVE  Covered(r, WorkerOf(r, Len(slots)))'
      <3>1. PICK v : v = WorkerOf(r, Len(slots))
        OBVIOUS
      <3>2. v \in Pool
        <4>1. Len(slots) \in Nat /\ r \in 1..Len(slots)
          BY <1>1 DEF Rows, TypeOK
        <4> QED
          BY <3>1, <4>1, Crews
      <3>3. Covered(r, v)
        BY <3>1, <1>1 DEF CoverInv
      <3>4. Covered(r, v)'
        BY <1>2, <1>3, <3>2, <3>3 DEF Covered
      <3> QED
        BY <1>2, <3>1, <3>4
    <2> QED
      BY <1>2, <2>1 DEF CoverInv, Rows
  <1>15. OneOwnAnswerEach'
    <2>1. ASSUME NEW w \in Pool, NEW x \in Range(commands'[w]), x.type = "responses"
          PROVE  /\ {a.of : a \in x.rows} = {AskedBy(t) : t \in Range(tasks'[w])}
                 /\ Cardinality(x.rows) = Len(tasks'[w])
                 /\ \A a \in x.rows : a.row = a.of.row
      <3>1. w \in active /\ x = c[w]
        <4>1. \A y : Range(<<y>>) = {y}
          BY DEF Range
        <4>2. Range(<<>>) = {}
          BY DEF Range
        <4> QED
          BY <1>4, <2>1, <4>1, <4>2
      <3>2. ~failed /\ x.rows = responses[w]
        BY <1>4, <2>1, <3>1
      <3>3. wpc[w] = "waiting"
        BY <1>1, <1>2, <3>1 DEF TurnInv
      <3>4. Requested(w) = AskedOf(tasks[w], Len(tasks[w]))
        BY <1>1, <1>3, <3>3 DEF RequestInv
      <3>5. pending = <<>>
        BY <1>1, <1>2, <3>2 DEF PhaseInv
      <3>6. Requested(w) = Routed(responses[w])
        BY <1>3, <3>5 DEF Requested, Asking, Gathered
      <3>7. tasks[w] \in Seq(Task) /\ responses[w] \in SUBSET Answers
        BY <1>1 DEF TypeOK
      <3>8. \A a \in responses[w] : a.row = a.of.row
        BY <1>1 DEF PhaseInv
      <3>9. \A j, k \in DOMAIN tasks[w] : tasks[w][j].row = tasks[w][k].row => j = k
        BY <1>1 DEF TaskInv, Owns
      <3>10. /\ {a.of : a \in responses[w]} = {AskedBy(t) : t \in Range(tasks[w])}
             /\ Cardinality(responses[w]) = Len(tasks[w])
        BY <3>4, <3>6, <3>7, <3>8, <3>9, OneAnswerEach
      <3> QED
        BY <1>2, <3>2, <3>8, <3>10
    <2> QED
      BY <2>1 DEF OneOwnAnswerEach
  <1>16. CapacityKept'
    BY <1>2 DEF CapacityKept
  <1> QED
    BY <1>8, <1>9, <1>10, <1>11, <1>12, <1>13, <1>14, <1>15, <1>16 DEF Tidy

(* No call, no message and no search: the cloud scheduler as it is made.   *)
LEMMA CloudStarts ==
  Init => CloudInv
PROOF
  <1> SUFFICES ASSUME Init PROVE CloudInv
    OBVIOUS
  <1> USE DEF Init
  <1>1. TypeOK
    <2>1. /\ messages \in Seq(Messages) /\ slots \in Seq(Slots)
          /\ buckets \in Seq(Seq(Task)) /\ needs \in Seq(0..MaxEvals)
          /\ calls \in Seq(Seq(Nat)) /\ pending \in Seq([worker : Pool, of : Asked])
      OBVIOUS
    <2>2. /\ \A S : <<>> \in Seq(S)
          /\ commands \in [Pool -> Seq(Commands)] /\ tasks \in [Pool -> Seq(Task)]
      <3>1. \A S : <<>> \in Seq(S)
        OBVIOUS
      <3> QED
        BY <3>1
    <2>3. /\ responses \in [Pool -> SUBSET Answers] /\ inbox \in [Pool -> SUBSET Answers]
          /\ at \in [Pool -> Nat]
          /\ wpc \in [Pool -> {"ready", "opening", "resuming", "waiting", "dead", "gone"}]
      BY DEF Nobody
    <2>4. plays \in 0..MaxPlays /\ panics \in 0..MaxPanics
      BY SchedulerAssumption
    <2>5. /\ searches \in [Slots -> Contents]
          /\ finished \subseteq [task : Task, ok : BOOLEAN]
          /\ result \in [kind : Outcomes, plays : SUBSET Nat]
      BY DEF Contents, Outcomes
    <2> QED
      BY <2>1, <2>2, <2>3, <2>4, <2>5 DEF TypeOK
  <1>2. StartInv /\ PassInv
    BY DEF StartInv, PassInv, Passing
  <1>3. Rows = {} /\ Out = {} /\ Held = {}
    BY DEF Rows, Out, Held, InWave
  <1>4. PhaseInv
    BY DEF PhaseInv, InWave, Nobody
  <1>5. CommandInv /\ MessageInv
    BY DEF CommandInv, MessageInv
  <1>6. TurnInv
    BY <1>3 DEF TurnInv, Silent, Passing
  <1>7. TaskInv
    BY DEF TaskInv, Owns
  <1>8. RequestInv /\ CoverInv
    BY <1>3 DEF RequestInv, CoverInv, Passing
  <1>9. OneOwnAnswerEach /\ CapacityKept
    BY DEF OneOwnAnswerEach, CapacityKept, Range
  <1> QED
    BY <1>1, <1>2, <1>4, <1>5, <1>6, <1>7, <1>8, <1>9 DEF CloudInv, Typed, Tidy

(* Every step of the cloud scheduler keeps its invariant.                  *)
LEMMA CloudSteps ==
  ASSUME CloudInv, Next
  PROVE  CloudInv'
PROOF
  <1>1. Typed /\ (~abandoned => Tidy)
    BY DEF CloudInv
  <1>2. ASSUME NEW request \in Requests,
               NEW need \in [DOMAIN request -> 0..MaxEvals], Play(request, need)
        PROVE  CloudInv'
    <2>1. Typed'
      BY <1>1, <1>2, CallKeepsTypes
    <2>2. abandoned' = abandoned
      BY <1>2 DEF Play
    <2> QED
      BY <1>1, <1>2, <2>1, <2>2, PlayKeepsOrder DEF CloudInv
  <1>3. ASSUME \/ \E request \in Requests : \E k \in DOMAIN request : PlayRejected(request, k)
               \/ \E s \in Slots : Reset(s)
               \/ Joined \/ BeginWaves \/ CloseWave \/ EvaluateChunk \/ EvaluationFails
               \/ Restore
        PROVE  CloudInv'
    <2>1. Typed'
      BY <1>1, <1>3, CallKeepsTypes, WaveKeepsTypes
    <2>2. abandoned' = abandoned
      BY <1>3 DEF PlayRejected, Reset, Joined, BeginWaves, CloseWave, EvaluateChunk,
                  EvaluationFails, Restore, history
    <2> QED
      BY <1>1, <1>3, <2>1, <2>2, QuietSteps DEF CloudInv
  <1>4. ASSUME Drop
        PROVE  CloudInv'
    <2>1. Typed'
      BY <1>1, <1>4, CallKeepsTypes
    <2>2. abandoned' = abandoned
      BY <1>4 DEF Drop, history
    <2> QED
      BY <1>1, <1>4, <2>1, <2>2, DropKeepsOrder DEF CloudInv
  <1>5. ASSUME SendStart
        PROVE  CloudInv'
    <2>1. Typed'
      BY <1>1, <1>5, CallKeepsTypes
    <2>2. ~abandoned' => ~abandoned
      BY <1>5 DEF SendStart
    <2> QED
      BY <1>1, <1>5, <2>1, <2>2, StartKeepsOrder DEF CloudInv
  <1>6. ASSUME Receive
        PROVE  CloudInv'
    <2>1. Typed'
      BY <1>1, <1>6, WaveKeepsTypes
    <2>2. abandoned' = abandoned
      BY <1>6 DEF Receive, history
    <2> QED
      BY <1>1, <1>6, <2>1, <2>2, ReceiveKeepsOrder DEF CloudInv
  <1>7. ASSUME Reply
        PROVE  CloudInv'
    <2>1. Typed'
      BY <1>1, <1>7, WaveKeepsTypes
    <2>2. abandoned' = abandoned
      BY <1>7 DEF Reply, history
    <2> QED
      BY <1>1, <1>7, <2>1, <2>2, ReplyKeepsOrder DEF CloudInv
  <1>8. ASSUME NEW w \in Pool, WorkerStep(w)
        PROVE  CloudInv'
    <2>1. Typed'
      BY <1>1, <1>8, WorkerKeepsTypes
    <2>2. abandoned' = abandoned
      BY <1>8 DEF WorkerStep, Started, Resumed, Cancelled, Told, Ask, End, EndPass,
                  EnginePanics, ProtocolPanics, unworked
    <2> QED
      BY <1>1, <1>8, <2>1, <2>2, WorkerKeepsOrder DEF CloudInv
  <1> QED
    BY <1>2, <1>3, <1>4, <1>5, <1>6, <1>7, <1>8 DEF Next, Coordinate

(* ... and so does a step of the other scheduler.                          *)
LEMMA CloudStutters ==
  ASSUME CloudInv, UNCHANGED vars
  PROVE  CloudInv'
PROOF
  <1>1. UNCHANGED <<searches, messages, commands, pc, slots, buckets, needs, active, target,
                    arrived, pending, responses, finished, failed, result, wpc, tasks, at,
                    inbox, plays, panics, abandoned, calls>>
    BY DEF vars, channels, call, wave, outcome, workers, history
  <1>2. Typed'
    BY <1>1 DEF CloudInv, Typed, TypeOK, StartInv, PassInv
  <1>3. ASSUME Tidy
        PROVE  Tidy'
    <2>1. PhaseInv'
      BY <1>1, <1>3 DEF Tidy, PhaseInv, Crew
    <2>2. Out' = Out /\ Held' = Held /\ Sent' = Sent
      BY <1>1 DEF Out, Held, Sent
    <2>3. CommandInv' /\ TurnInv' /\ MessageInv'
      BY <1>1, <1>3, <2>2 DEF Tidy, CommandInv, TurnInv, MessageInv
    <2>4. TaskInv'
      BY <1>1, <1>3, <2>2 DEF Tidy, TaskInv
    <2>5. RequestInv'
      BY <1>1, <1>3 DEF Tidy, RequestInv, Requested
    <2>6. CoverInv'
      BY <1>1, <1>3, <2>2 DEF Tidy, CoverInv, Covered, Rows
    <2>7. OneOwnAnswerEach' /\ CapacityKept'
      BY <1>1, <1>3 DEF Tidy, OneOwnAnswerEach, CapacityKept
    <2> QED
      BY <2>1, <2>3, <2>4, <2>5, <2>6, <2>7 DEF Tidy
  <1> QED
    BY <1>1, <1>2, <1>3 DEF CloudInv

(* Only Restore and Reset put a clean search into a slot, and Reset into   *)
(* one that has its search.                                                *)
LEMMA CleanedByRestore ==
  ASSUME CloudInv, ~abandoned, Next, NEW s \in Slots,
         searches[s] = "taken", searches'[s] = "clean"
  PROVE  \E r \in Rows : slots[r] = s /\ wpc[WorkerOf(r, Len(slots))] = "dead"
PROOF
  <1>1. Typed /\ Tidy /\ searches \in [Slots -> Contents]
    BY DEF CloudInv, Typed, TypeOK
  <1>2. ~\E request \in Requests :
           \/ \E need \in [DOMAIN request -> 0..MaxEvals] : Play(request, need)
           \/ \E k \in DOMAIN request : PlayRejected(request, k)
    BY DEF Play, PlayRejected
  <1>3. ~\E x \in Slots : Reset(x)
    BY <1>1 DEF Reset
  <1>4. ~\E w \in Pool : WorkerStep(w)
    BY DEF WorkerStep, Started, Resumed, Cancelled, Told, Ask, End, EndPass, EnginePanics,
           ProtocolPanics, unworked
  <1>5. ~Drop /\ (Coordinate => Restore)
    BY DEF Drop, Coordinate, SendStart, BeginWaves, Receive, CloseWave, EvaluateChunk,
           EvaluationFails, Reply, Joined
  <1>6. Restore
    BY <1>2, <1>3, <1>4, <1>5 DEF Next
  <1> QED
    BY <1>1, <1>6, RestoreGivesBack

(* The older scheduler never makes a search anew in place of a taken one.  *)
LEMMA NeverCleaned ==
  ASSUME RustInv, Rust!Next, NEW s \in Slots, searches[s] = "taken"
  PROVE  searches'[s] # "clean"
PROOF
  <1>1. searches \in [Slots -> {"clean", "used", "taken"}]
    BY DEF RustInv, Rust!TypeOK
  <1>2. ASSUME NEW request \in Requests, NEW need \in [DOMAIN request -> 0..MaxEvals],
               Rust!Play(request, need)
        PROVE  searches'[s] # "clean"
    BY <1>2 DEF Rust!Play
  <1>3. ASSUME NEW x \in Slots, Rust!Reset(x)
        PROVE  searches'[s] # "clean"
    BY <1>1, <1>3 DEF Rust!Reset
  <1>4. ASSUME Rust!Restore
        PROVE  searches'[s] # "clean"
    BY <1>1, <1>4 DEF Rust!Restore
  <1>5. ASSUME Rust!Coordinate, ~Rust!Restore
        PROVE  searches'[s] # "clean"
    BY <1>5 DEF Rust!Coordinate, Rust!Receive, Rust!CloseWave, Rust!EvaluateChunk,
                Rust!EvaluationFails, Rust!CancelChunk
  <1>6. ASSUME NEW r \in Rust!Rows, Rust!Thread(r)
        PROVE  searches'[s] # "clean"
    BY <1>6 DEF Rust!Thread, Rust!Ask, Rust!End, Rust!Resume, Rust!GiveUp
  <1> QED
    BY <1>2, <1>3, <1>4, <1>5, <1>6 DEF Rust!Next

-----------------------------------------------------------------------------
(* Either scheduler, from its start on.                                    *)
SchedulersInv ==
    /\ which \in {"cloud", "rust"}
    /\ which = "cloud" => CloudInv
    /\ which = "rust" => RustInv

(* Both schedulers start in the invariant.                                 *)
LEMMA SchedulersStart ==
  EitherInit => SchedulersInv
PROOF
  BY CloudStarts, RustStarts DEF EitherInit, SchedulersInv

(* Every step of the one that was chosen keeps it.                         *)
LEMMA SchedulersStep ==
  ASSUME SchedulersInv, [EitherNext]_everything
  PROVE  SchedulersInv'
PROOF
  <1>1. CASE which = "cloud" /\ Next /\ which' = which
    BY <1>1, CloudSteps DEF SchedulersInv
  <1>2. CASE which = "rust" /\ Rust!Next /\ which' = which
    BY <1>2, RustSteps DEF SchedulersInv
  <1>3. CASE UNCHANGED everything
    <2>1. which' = which /\ UNCHANGED vars
      BY <1>3 DEF everything
    <2>2. UNCHANGED Rust!vars
      BY <1>3 DEF everything, rustOnly, vars, channels, call, wave, outcome, workers,
                  history, Rust!vars, Rust!call, Rust!wave, Rust!workers
    <2> QED
      BY <2>1, <2>2, CloudStutters, RustStutters DEF SchedulersInv
  <1> QED
    BY <1>1, <1>2, <1>3 DEF EitherNext

(* The inductive invariant of the two wave schedulers: who owes the        *)
(* coordinator a message, who waits for it, and where every search and     *)
(* every request of the call is.                                           *)
THEOREM SchedulersInvariant == EitherSpec => []SchedulersInv
PROOF
  <1>1. EitherInit => SchedulersInv
    BY SchedulersStart
  <1>2. SchedulersInv /\ [EitherNext]_everything => SchedulersInv'
    BY SchedulersStep
  <1> QED
    BY <1>1, <1>2, PTL DEF EitherSpec

(* Whatever the pool, the requests, the batch size and the panics, the     *)
(* state of both schedulers keeps its types.                               *)
THEOREM SchedulersTyped == EitherSpec => []SchedulersTypeOK
PROOF
  <1>1. SchedulersInv => SchedulersTypeOK
    BY DEF SchedulersInv, SchedulersTypeOK, CloudInv, Typed, RustInv
  <1> QED
    BY <1>1, SchedulersInvariant, PTL

(* run_wave and evaluate_chunk route by request id: what a worker is sent  *)
(* are the answers its suspended sessions wait for, one each, and a thread *)
(* of the older scheduler gets the answer to what it asked.                *)
THEOREM AnswersRouted == EitherSpec => []AnswersAreOwn
PROOF
  <1>1. SchedulersInv => AnswersAreOwn
    <2>1. abandoned => OneOwnAnswerEach
      BY DEF OneOwnAnswerEach
    <2> QED
      BY <2>1 DEF SchedulersInv, AnswersAreOwn, CloudInv, Tidy, RustInv
  <1> QED
    BY <1>1, SchedulersInvariant, PTL

(* A call that has started its searches leaves no slot empty, whether it   *)
(* succeeds, the evaluator fails, a search raises or a worker panics.      *)
THEOREM CapacityReturned == EitherSpec => []SlotsComeBack
PROOF
  <1>1. SchedulersInv => SlotsComeBack
    <2>1. abandoned => CapacityKept
      BY DEF CapacityKept
    <2>2. RustInv => Rust!SlotsReturned
      BY DEF RustInv, ThreadPhases, Rust!SlotsReturned
    <2> QED
      BY <2>1, <2>2 DEF SchedulersInv, SlotsComeBack, CloudInv, Tidy
  <1> QED
    BY <1>1, SchedulersInvariant, PTL

(* Only the panic of the worker that held it costs a slot its search: a    *)
(* failing evaluator or a search that raises does not.                     *)
THEOREM ErrorsCostNoSearch == EitherSpec => SearchesOutliveErrors
PROOF
  <1>1. SchedulersInv /\ [EitherNext]_everything =>
          [~abandoned => \A s \in Slots : searches[s] = "taken" /\ searches'[s] = "clean" =>
             \E r \in Rows : slots[r] = s /\ wpc[WorkerOf(r, Len(slots))] = "dead"]_vars
    <2> SUFFICES ASSUME SchedulersInv, [EitherNext]_everything, vars' # vars, ~abandoned,
                        NEW s \in Slots, searches[s] = "taken", searches'[s] = "clean"
                 PROVE  \E r \in Rows : slots[r] = s /\ wpc[WorkerOf(r, Len(slots))] = "dead"
      OBVIOUS
    <2>1. \/ which = "cloud" /\ Next
          \/ which = "rust" /\ Rust!Next
      BY DEF EitherNext, everything
    <2>2. CASE which = "cloud" /\ Next
      BY <2>2, CleanedByRestore DEF SchedulersInv
    <2>3. CASE which = "rust" /\ Rust!Next
      BY <2>3, NeverCleaned DEF SchedulersInv
    <2> QED
      BY <2>1, <2>2, <2>3
  <1> QED
    BY <1>1, SchedulersInvariant, PTL DEF EitherSpec, SearchesOutliveErrors
=============================================================================
