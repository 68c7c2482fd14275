------------------------- MODULE ReviewBatchesProofs -------------------------
(***************************************************************************)
(* Theorems about ReviewBatches for every value of its constants: any      *)
(* histories, limits and chunk sizes, and no bound on edits and crashes.   *)
(*                                                                         *)
(* The first half is about reviewChunks: whatever the history, its chunks  *)
(* keep their bounds, have each issue once, and have every rune of every   *)
(* issue.  This takes induction over the parts (Iteration).  The second    *)
(* half is the inductive invariant BatchesInv: what a checkpoint attests   *)
(* was compared, and the prompts of a chunk are counted by the passes.     *)
(***************************************************************************)
EXTENDS ReviewBatches, Iteration, SequenceTheorems, FiniteSetTheorems, TLAPS

-----------------------------------------------------------------------------
(* The inductive invariant *)

Part == {p \in [number : Nat \ {0}, version : Nat, from : Nat, to : Nat] : p.from <= p.to}

\* Prompts are counted as the passes are, and once more after this one.
PromptsCounted ==
  LET before == pass + (IF recovering THEN 1 ELSE 0) IN
  /\ asked \in Nat
  /\ pc = "execute" => asked = before
  /\ pc = "session" => asked = before + (IF phase > Handshakes THEN 1 ELSE 0)
  /\ pc \in {"closing", "returned"} /\ reply.kind \notin {"setup", "failed"} => asked = before + 1

\* There is a chunk to review, and the answer that was accepted covers it.
AnswerOfChunk ==
  /\ todo \in Seq(Seq(Part))
  /\ pc \in {"execute", "session", "closing", "returned", "verify"} => todo # <<>>
  /\ pc \in {"closing", "returned"} => reply.kind # "none"
  /\ pc = "verify" => reply \in Answers /\ Parsed(reply, Chunk) = "ok"

\* All text of a chunk with a checkpoint was compared, in memory as in state.json.
AttestedCompared == \A c \in ckpt.batches : Text(c, Numbers(c)) \subseteq compared

\* A candidate that may be filed has a checkpoint of every chunk of the list.
ListAttested ==
  pc = "publish" =>
    snap \in Histories /\ ckpt.validated /\ ToSet(ReviewChunks(snap)) \subseteq ckpt.batches

BatchesInv ==
  SessionInv /\ WellBatched /\ PromptsCounted /\ AnswerOfChunk /\ AttestedCompared /\ ListAttested

-----------------------------------------------------------------------------
(* Folds.  The fold operators of the library recurse over sets of indices: *)
(* such a function exists, and it goes through the initial segments one by *)
(* one.                                                                    *)

\* Max of a set is the element no other exceeds.
LEMMA GreatestOf ==
  ASSUME NEW s \in SUBSET Int, NEW m \in s, \A l \in s : l <= m
  PROVE  Max(s) = m
<1>1. \A x \in s : (\A y \in s : x >= y) => x = m
  OBVIOUS
<1>2. \A y \in s : m >= y
  OBVIOUS
<1> QED
  BY <1>1, <1>2 DEF Max

\* The function that a fold over the sets of indices computes exists.
Iterated(it, n, base, F) ==
  \A s \in SUBSET (1..n) :
    it[s] = IF s = {} THEN base ELSE F[<<it[s \ {Max(s)}], Max(s)>>]

\* For any step F there is such a function, and it is the fold of F over 1..n.
LEMMA Iterates ==
  ASSUME NEW n \in Nat, NEW A, NEW base \in A, NEW F \in [A \X (1..n) -> A]
  PROVE  \E it \in [SUBSET (1..n) -> A] : Iterated(it, n, base, F)
<1> DEFINE Is(it, m) == \A s \in SUBSET (1..m) :
             it[s] = IF s = {} THEN base ELSE F[<<it[s \ {Max(s)}], Max(s)>>]
           T == {m \in 0..n : \E it \in [SUBSET (1..m) -> A] : Is(it, m)}
<1>1. 0 \in T
  <2>1. SUBSET (1..0) = {{}}
    OBVIOUS
  <2> DEFINE it == [s \in SUBSET (1..0) |-> base]
  <2>2. it \in [SUBSET (1..0) -> A] /\ Is(it, 0)
    BY <2>1
  <2>3. \E i \in [SUBSET (1..0) -> A] : Is(i, 0)
    <3> HIDE DEF it, Is
    <3> QED
      BY <2>2
  <2>4. 0 \in 0..n
    OBVIOUS
  <2> HIDE DEF it, Is
  <2> QED
    BY <2>3, <2>4
<1>2. ASSUME NEW m \in 1..n, m - 1 \in T PROVE m \in T
  <2>1. PICK g \in [SUBSET (1..(m - 1)) -> A] : Is(g, m - 1)
    BY <1>2
  <2> DEFINE it == [s \in SUBSET (1..m) |-> IF m \in s THEN F[<<g[s \ {m}], m>>] ELSE g[s]]
  <2>2. \A s \in SUBSET (1..m) : /\ m \in s => s \ {m} \in SUBSET (1..(m - 1))
                                 /\ m \notin s => s \in SUBSET (1..(m - 1))
    OBVIOUS
  <2>3. it \in [SUBSET (1..m) -> A]
    <3> SUFFICES ASSUME NEW s \in SUBSET (1..m)
                 PROVE (IF m \in s THEN F[<<g[s \ {m}], m>>] ELSE g[s]) \in A
      OBVIOUS
    <3>1. CASE m \in s
      <4>1. g[s \ {m}] \in A
        BY <2>2, <3>1
      <4>2. <<g[s \ {m}], m>> \in A \X (1..n)
        BY <4>1
      <4> QED
        BY <4>2, <3>1
    <3>2. CASE m \notin s
      BY <2>2, <3>2
    <3> QED
      BY <3>1, <3>2
  <2>4. Is(it, m)
    <3> SUFFICES ASSUME NEW s \in SUBSET (1..m)
                 PROVE it[s] = IF s = {} THEN base ELSE F[<<it[s \ {Max(s)}], Max(s)>>]
      OBVIOUS
    <3>1. CASE m \in s
      <4>1. Max(s) = m
        <5>1. s \in SUBSET Int /\ \A l \in s : l <= m
          OBVIOUS
        <5> QED
          BY <3>1, <5>1, GreatestOf
      <4>2. it[s \ {m}] = g[s \ {m}]
        BY <2>2
      <4> QED
        BY <3>1, <4>1, <4>2
    <3>2. CASE m \notin s
      <4>1. it[s] = g[s] /\ s \in SUBSET (1..(m - 1))
        BY <2>2, <3>2
      <4>2. CASE s = {}
        BY <4>1, <4>2, <2>1
      <4>3. CASE s # {}
        <5>1. s \ {Max(s)} \in SUBSET (1..(m - 1)) /\ s \ {Max(s)} \in SUBSET (1..m) /\ m \notin s \ {Max(s)}
          BY <4>1, <3>2
        <5>2. it[s \ {Max(s)}] = g[s \ {Max(s)}]
          BY <5>1
        <5>3. g[s] = F[<<g[s \ {Max(s)}], Max(s)>>]
          BY <2>1, <4>1, <4>3
        <5> QED
          BY <4>1, <4>3, <5>2, <5>3
      <4> QED
        BY <4>2, <4>3
    <3> QED
      BY <3>1, <3>2
  <2>5. \E i \in [SUBSET (1..m) -> A] : Is(i, m)
    <3> HIDE DEF it, Is
    <3> QED
      BY <2>3, <2>4
  <2> HIDE DEF it, Is
  <2> QED
    BY <2>5
<1>3. n \in T
  <2> HIDE DEF T
  <2> QED
  BY <1>1, <1>2, Count
<1>4. \A it : Is(it, n) => Iterated(it, n, base, F)
  BY DEF Iterated
<1>5. \E it \in [SUBSET (1..n) -> A] : Is(it, n)
  <2> HIDE DEF Is
  <2> QED
    BY <1>3
<1> QED
  <2> HIDE DEF Is, T
  <2> QED
    BY <1>4, <1>5

\* A set of indices that is not empty has a greatest element: n less the least
\* distance from n.
LEMMA GreatestIn ==
  ASSUME NEW n \in Nat, NEW s \in SUBSET (1..n), s # {}
  PROVE  Max(s) \in s
<1> DEFINE T == {n - x : x \in s}
<1>1. T \in SUBSET Nat /\ T # {}
  <2>1. \A x \in s : n - x \in Nat
    OBVIOUS
  <2>2. PICK x \in s : TRUE
    OBVIOUS
  <2>3. n - x \in T
    BY <2>2
  <2> QED
    BY <2>1, <2>3
<1>2. PICK t \in T : \A u \in T : t <= u
  <2> HIDE DEF T
  <2> QED
    BY <1>1, Least
<1>3. PICK x \in s : t = n - x
  BY <1>2
<1>4. \A y \in s : n - x <= n - y /\ x \in Nat /\ y \in Nat
  BY <1>2, <1>3
<1>5. \A y \in s : y <= x
  BY <1>4
<1>6. s \in SUBSET Int
  OBVIOUS
<1> QED
  BY <1>3, <1>5, <1>6, GreatestOf

\* A fold takes i from 1..i and is left with 1..(i - 1).
LEMMA IndicesTo ==
  ASSUME NEW n \in Nat
  PROVE  /\ 1..0 = {} /\ {} \in SUBSET (1..n)
         /\ \A i \in 1..n : /\ 1..i \in SUBSET (1..n) /\ 1..i # {}
                            /\ Max(1..i) = i /\ (1..i) \ {i} = 1..(i - 1)
<1>1. ASSUME NEW i \in 1..n
      PROVE  /\ 1..i \in SUBSET (1..n) /\ 1..i # {}
             /\ Max(1..i) = i /\ (1..i) \ {i} = 1..(i - 1)
  <2>1. 1..i \in SUBSET Int /\ i \in 1..i /\ \A l \in 1..i : l <= i
    OBVIOUS
  <2>2. Max(1..i) = i
    BY <2>1, GreatestOf
  <2>3. 1..i \in SUBSET (1..n) /\ (1..i) \ {i} = 1..(i - 1)
    OBVIOUS
  <2> QED
    BY <2>1, <2>2, <2>3
<1>2. 1..0 = {} /\ {} \in SUBSET (1..n)
  OBVIOUS
<1> QED
  BY <1>1, <1>2

\* The state of reviewChunks between two parts.
Filled == [chunks : Seq(Seq(Part)), chunk : Seq(Part), size : Nat]

\* No part is without weight: it is wrapped in a heading at least.
LEMMA WeightType ==
  ASSUME NEW p \in Part
  PROVE  Weight(p) \in Nat \ {0}
  BY ReviewAssumption DEF Part, Weight

\* Adding a part leaves chunks, a chunk and its size.
LEMMA AddPartType ==
  ASSUME NEW b \in Filled, NEW p \in Part
  PROVE  AddPart(b, p) \in Filled
<1>1. Weight(p) \in Nat
  BY WeightType
<1>2. /\ b.chunks \in Seq(Seq(Part)) /\ b.chunk \in Seq(Part) /\ b.size \in Nat
      /\ b = [chunks |-> b.chunks, chunk |-> b.chunk, size |-> b.size]
  BY DEF Filled
<1>3. CASE Full(b, p)
  <2>1. Append(b.chunks, b.chunk) \in Seq(Seq(Part)) /\ <<p>> \in Seq(Part)
    BY <1>2
  <2> QED
    BY <2>1, <1>1, <1>3 DEF AddPart, Filled
<1>4. CASE ~Full(b, p)
  <2>1. Append(b.chunk, p) \in Seq(Part) /\ b.size + Weight(p) \in Nat
    BY <1>1, <1>2
  <2>2. AddPart(b, p) = [chunks |-> b.chunks, chunk |-> Append(b.chunk, p), size |-> b.size + Weight(p)]
    BY <1>2, <1>4 DEF AddPart
  <2> QED
    BY <2>1, <2>2, <1>2 DEF Filled
<1> QED
  BY <1>3, <1>4

\* The fold of AddPart over parts.
Adding(p) ==
  CHOOSE it : it = [s \in SUBSET DOMAIN p |->
                      IF s = {} THEN NoParts ELSE AddPart(it[s \ {Max(s)}], p[Max(s)])]

\* reviewChunks goes through the parts one by one.
LEMMA Filling ==
  ASSUME NEW p \in Seq(Part)
  PROVE  \E f \in [0..Len(p) -> Filled] :
           /\ f[0] = NoParts /\ FoldLeft(AddPart, NoParts, p) = f[Len(p)]
           /\ \A i \in 1..Len(p) : f[i] = AddPart(f[i - 1], p[i])
<1> DEFINE n == Len(p)
           F == [x \in Filled \X (1..n) |-> AddPart(x[1], p[x[2]])]
<1>1. n \in Nat /\ DOMAIN p = 1..n /\ \A i \in 1..n : p[i] \in Part
  OBVIOUS
<1>2. NoParts \in Filled
  BY DEF NoParts, Filled
<1>3. F \in [Filled \X (1..n) -> Filled]
  BY <1>1, AddPartType
<1>4. PICK it \in [SUBSET (1..n) -> Filled] : Iterated(it, n, NoParts, F)
  <2>1. n \in Nat
    BY <1>1
  <2> HIDE DEF F, n
  <2> QED
    BY <2>1, <1>2, <1>3, Iterates
<1>5. \A s \in SUBSET (1..n) : s # {} => F[<<it[s \ {Max(s)}], Max(s)>>] = AddPart(it[s \ {Max(s)}], p[Max(s)])
  <2> SUFFICES ASSUME NEW s \in SUBSET (1..n), s # {}
               PROVE F[<<it[s \ {Max(s)}], Max(s)>>] = AddPart(it[s \ {Max(s)}], p[Max(s)])
    OBVIOUS
  <2>1. Max(s) \in 1..n /\ it[s \ {Max(s)}] \in Filled
    <3> HIDE DEF n
    <3>1. Max(s) \in s
      BY <1>1, GreatestIn
    <3> QED
      BY <3>1, <1>4
  <2> QED
    BY <2>1
<1> HIDE DEF F
<1>6. it = [s \in SUBSET DOMAIN p |-> IF s = {} THEN NoParts ELSE AddPart(it[s \ {Max(s)}], p[Max(s)])]
  BY <1>1, <1>4, <1>5 DEF Iterated
<1>7. Adding(p) = [s \in SUBSET DOMAIN p |->
                     IF s = {} THEN NoParts ELSE AddPart(Adding(p)[s \ {Max(s)}], p[Max(s)])]
  BY <1>6 DEF Adding
<1>8. FoldLeft(AddPart, NoParts, p) = Adding(p)[1..n]
  BY <1>1 DEF FoldLeft, MapThenFoldSet, Adding
<1> DEFINE f == [i \in 0..n |-> Adding(p)[1..i]]
<1>9. f[0] = NoParts /\ \A i \in 1..n : f[i] = AddPart(f[i - 1], p[i])
  <2>1. f[0] = NoParts
    <3>1. f[0] = Adding(p)[{}]
      BY <1>1, IndicesTo
    <3> QED
      BY <3>1, <1>7
  <2>2. ASSUME NEW i \in 1..n PROVE f[i] = AddPart(f[i - 1], p[i])
    <3>1. /\ 1..i \in SUBSET (1..n) /\ 1..i # {}
          /\ Max(1..i) = i /\ (1..i) \ {i} = 1..(i - 1)
      BY <1>1, IndicesTo
    <3>2. Adding(p)[1..i] = AddPart(Adding(p)[(1..i) \ {Max(1..i)}], p[Max(1..i)])
      BY <1>1, <1>7, <3>1
    <3>3. f[i] = Adding(p)[1..i] /\ f[i - 1] = Adding(p)[1..(i - 1)]
      BY <1>1
    <3> QED
      BY <3>1, <3>2, <3>3
  <2> QED
    BY <2>1, <2>2
<1>10. f[n] = Adding(p)[1..n]
  BY <1>1
<1> DEFINE T == {i \in 0..n : f[i] \in Filled}
<1> HIDE DEF f
<1>11. \A i \in 0..n : i \in T
  <2>1. 0 \in T
    BY <1>1, <1>2, <1>9
  <2>2. \A i \in 1..n : i - 1 \in T => i \in T
    BY <1>1, <1>9, AddPartType
  <2> HIDE DEF T
  <2> QED
    BY <1>1, <2>1, <2>2, Count
<1>12. f \in [0..n -> Filled]
  BY <1>11 DEF f
<1> QED
  BY <1>8, <1>9, <1>10, <1>12

\* What is left to review is a list of chunks.
LEMMA AddOpenType ==
  ASSUME NEW s \in Seq(Seq(Part)), NEW c \in Seq(Part)
  PROVE  AddOpen(s, c) \in Seq(Seq(Part))
  BY DEF AddOpen

\* The fold of AddOpen over chunks.
Opened(p) ==
  CHOOSE it : it = [s \in SUBSET DOMAIN p |->
                      IF s = {} THEN <<>> ELSE AddOpen(it[s \ {Max(s)}], p[Max(s)])]

\* The chunks without a checkpoint are picked one by one.
LEMMA Opening ==
  ASSUME NEW p \in Seq(Seq(Part))
  PROVE  \E f \in [0..Len(p) -> Seq(Seq(Part))] :
           /\ f[0] = <<>> /\ FoldLeft(AddOpen, <<>>, p) = f[Len(p)]
           /\ \A i \in 1..Len(p) : f[i] = AddOpen(f[i - 1], p[i])
<1> DEFINE n == Len(p)
           F == [x \in Seq(Seq(Part)) \X (1..n) |-> AddOpen(x[1], p[x[2]])]
<1>1. n \in Nat /\ DOMAIN p = 1..n /\ \A i \in 1..n : p[i] \in Seq(Part)
  OBVIOUS
<1>2. <<>> \in Seq(Seq(Part))
  OBVIOUS
<1>3. F \in [Seq(Seq(Part)) \X (1..n) -> Seq(Seq(Part))]
  BY <1>1, AddOpenType
<1>4. PICK it \in [SUBSET (1..n) -> Seq(Seq(Part))] : Iterated(it, n, <<>>, F)
  <2>1. n \in Nat
    BY <1>1
  <2> HIDE DEF F, n
  <2> QED
    BY <2>1, <1>2, <1>3, Iterates
<1>5. \A s \in SUBSET (1..n) : s # {} => F[<<it[s \ {Max(s)}], Max(s)>>] = AddOpen(it[s \ {Max(s)}], p[Max(s)])
  <2> SUFFICES ASSUME NEW s \in SUBSET (1..n), s # {}
               PROVE F[<<it[s \ {Max(s)}], Max(s)>>] = AddOpen(it[s \ {Max(s)}], p[Max(s)])
    OBVIOUS
  <2>1. Max(s) \in 1..n /\ it[s \ {Max(s)}] \in Seq(Seq(Part))
    <3> HIDE DEF n
    <3>1. Max(s) \in s
      BY <1>1, GreatestIn
    <3> QED
      BY <3>1, <1>4
  <2> QED
    BY <2>1
<1> HIDE DEF F
<1>6. it = [s \in SUBSET DOMAIN p |-> IF s = {} THEN <<>> ELSE AddOpen(it[s \ {Max(s)}], p[Max(s)])]
  BY <1>1, <1>4, <1>5 DEF Iterated
<1>7. Opened(p) = [s \in SUBSET DOMAIN p |->
                     IF s = {} THEN <<>> ELSE AddOpen(Opened(p)[s \ {Max(s)}], p[Max(s)])]
  BY <1>6 DEF Opened
<1>8. FoldLeft(AddOpen, <<>>, p) = Opened(p)[1..n]
  BY <1>1 DEF FoldLeft, MapThenFoldSet, Opened
<1> DEFINE f == [i \in 0..n |-> Opened(p)[1..i]]
<1>9. f[0] = <<>> /\ \A i \in 1..n : f[i] = AddOpen(f[i - 1], p[i])
  <2>1. f[0] = <<>>
    <3>1. f[0] = Opened(p)[{}]
      BY <1>1, IndicesTo
    <3> QED
      BY <3>1, <1>7
  <2>2. ASSUME NEW i \in 1..n PROVE f[i] = AddOpen(f[i - 1], p[i])
    <3>1. /\ 1..i \in SUBSET (1..n) /\ 1..i # {}
          /\ Max(1..i) = i /\ (1..i) \ {i} = 1..(i - 1)
      BY <1>1, IndicesTo
    <3>2. Opened(p)[1..i] = AddOpen(Opened(p)[(1..i) \ {Max(1..i)}], p[Max(1..i)])
      BY <1>1, <1>7, <3>1
    <3>3. f[i] = Opened(p)[1..i] /\ f[i - 1] = Opened(p)[1..(i - 1)]
      BY <1>1
    <3> QED
      BY <3>1, <3>2, <3>3
  <2> QED
    BY <2>1, <2>2
<1>10. f[n] = Opened(p)[1..n]
  BY <1>1
<1> DEFINE T == {i \in 0..n : f[i] \in Seq(Seq(Part))}
<1> HIDE DEF f
<1>11. \A i \in 0..n : i \in T
  <2> HIDE DEF n
  <2>1. 0 \in 0..n /\ \A i \in 1..n : i \in 0..n
    BY <1>1
  <2>2. 0 \in T
    BY <2>1, <1>2, <1>9
  <2>3. ASSUME NEW i \in 1..n, i - 1 \in T PROVE i \in T
    <3>1. AddOpen(f[i - 1], p[i]) \in Seq(Seq(Part))
      BY <1>1, <2>3, AddOpenType
    <3> QED
      BY <2>1, <3>1, <1>9
  <2> HIDE DEF T
  <2> QED
    BY <1>1, <2>2, <2>3, Count
<1>12. f \in [0..n -> Seq(Seq(Part))]
  BY <1>11 DEF f
<1> QED
  BY <1>8, <1>9, <1>10, <1>12

\* The fold of a chunk to its weight.
Loaded(p) ==
  CHOOSE it : it = [s \in SUBSET DOMAIN p |->
                      IF s = {} THEN 0 ELSE it[s \ {Max(s)}] + Weight(p[Max(s)])]

\* The weight of a chunk is the sum over its parts.
LEMMA Loading ==
  ASSUME NEW p \in Seq(Part)
  PROVE  \E f \in [0..Len(p) -> Nat] :
           /\ f[0] = 0 /\ Load(p) = f[Len(p)]
           /\ \A i \in 1..Len(p) : f[i] = f[i - 1] + Weight(p[i])
<1> DEFINE n == Len(p)
           F == [x \in Nat \X (1..n) |-> x[1] + Weight(p[x[2]])]
<1>1. n \in Nat /\ DOMAIN p = 1..n /\ \A i \in 1..n : p[i] \in Part
  OBVIOUS
<1>2. 0 \in Nat
  OBVIOUS
<1>3. F \in [Nat \X (1..n) -> Nat]
  BY <1>1, WeightType
<1>4. PICK it \in [SUBSET (1..n) -> Nat] : Iterated(it, n, 0, F)
  <2>1. n \in Nat
    BY <1>1
  <2> HIDE DEF F, n
  <2> QED
    BY <2>1, <1>2, <1>3, Iterates
<1>5. \A s \in SUBSET (1..n) : s # {} => F[<<it[s \ {Max(s)}], Max(s)>>] = it[s \ {Max(s)}] + Weight(p[Max(s)])
  <2> SUFFICES ASSUME NEW s \in SUBSET (1..n), s # {}
               PROVE F[<<it[s \ {Max(s)}], Max(s)>>] = it[s \ {Max(s)}] + Weight(p[Max(s)])
    OBVIOUS
  <2>1. Max(s) \in 1..n /\ it[s \ {Max(s)}] \in Nat
    <3> HIDE DEF n
    <3>1. Max(s) \in s
      BY <1>1, GreatestIn
    <3> QED
      BY <3>1, <1>4
  <2> QED
    BY <2>1
<1> HIDE DEF F
<1>6. it = [s \in SUBSET DOMAIN p |-> IF s = {} THEN 0 ELSE it[s \ {Max(s)}] + Weight(p[Max(s)])]
  BY <1>1, <1>4, <1>5 DEF Iterated
<1>7. Loaded(p) = [s \in SUBSET DOMAIN p |->
                     IF s = {} THEN 0 ELSE Loaded(p)[s \ {Max(s)}] + Weight(p[Max(s)])]
  BY <1>6 DEF Loaded
<1>8. Load(p) = Loaded(p)[1..n]
  BY <1>1 DEF Load, FoldLeft, MapThenFoldSet, Loaded
<1> DEFINE f == [i \in 0..n |-> Loaded(p)[1..i]]
<1>9. f[0] = 0 /\ \A i \in 1..n : f[i] = f[i - 1] + Weight(p[i])
  <2>1. f[0] = 0
    <3>1. f[0] = Loaded(p)[{}]
      BY <1>1, IndicesTo
    <3> QED
      BY <3>1, <1>7
  <2>2. ASSUME NEW i \in 1..n PROVE f[i] = f[i - 1] + Weight(p[i])
    <3>1. /\ 1..i \in SUBSET (1..n) /\ 1..i # {}
          /\ Max(1..i) = i /\ (1..i) \ {i} = 1..(i - 1)
      BY <1>1, IndicesTo
    <3>2. Loaded(p)[1..i] = Loaded(p)[(1..i) \ {Max(1..i)}] + Weight(p[Max(1..i)])
      BY <1>1, <1>7, <3>1
    <3>3. f[i] = Loaded(p)[1..i] /\ f[i - 1] = Loaded(p)[1..(i - 1)]
      BY <1>1
    <3> QED
      BY <3>1, <3>2, <3>3
  <2> QED
    BY <2>1, <2>2
<1>10. f[n] = Loaded(p)[1..n]
  BY <1>1
<1> DEFINE T == {i \in 0..n : f[i] \in Nat}
<1> HIDE DEF f
<1>11. \A i \in 0..n : i \in T
  <2>1. 0 \in T
    BY <1>1, <1>2, <1>9
  <2>2. \A i \in 1..n : i - 1 \in T => i \in T
    BY <1>1, <1>9, WeightType
  <2> HIDE DEF T
  <2> QED
    BY <1>1, <2>1, <2>2, Count
<1>12. f \in [0..n -> Nat]
  BY <1>11 DEF f
<1> QED
  BY <1>8, <1>9, <1>10, <1>12

-----------------------------------------------------------------------------
(* Issues and their parts *)

\* Lists are flattened one by one.
LEMMA Joining ==
  ASSUME NEW ss \in Seq(Seq(Part))
  PROVE  \E f \in [0..Len(ss) -> Seq(Part)] :
           /\ f[0] = <<>> /\ FlattenSeq(ss) = f[Len(ss)]
           /\ \A i \in 1..Len(ss) : f[i] = f[i - 1] \o ss[i]
<1> DEFINE n == Len(ss)
           F == [x \in Seq(Part) \X (1..n) |-> x[1] \o ss[x[2]]]
<1>1. n \in Nat /\ DOMAIN ss = 1..n /\ \A i \in 1..n : ss[i] \in Seq(Part)
  OBVIOUS
<1>2. <<>> \in Seq(Part)
  OBVIOUS
<1>3. F \in [Seq(Part) \X (1..n) -> Seq(Part)]
  BY <1>1
<1>4. PICK it \in [SUBSET (1..n) -> Seq(Part)] : Iterated(it, n, <<>>, F)
  <2>1. n \in Nat
    BY <1>1
  <2> HIDE DEF F, n
  <2> QED
    BY <2>1, <1>2, <1>3, Iterates
<1> DEFINE f == [i \in 0..n |-> it[1..i]]
<1>5. f \in [0..n -> Seq(Part)]
  <2>1. \A i \in 0..n : 1..i \in SUBSET (1..n)
    BY <1>1
  <2> HIDE DEF n
  <2> QED
    BY <1>4, <2>1
<1>6. f[0] = <<>>
  <2>1. f[0] = it[{}]
    BY <1>1, IndicesTo
  <2> QED
    BY <2>1, <1>1, <1>4, IndicesTo DEF Iterated
<1>7. ASSUME NEW i \in 1..n PROVE f[i] = f[i - 1] \o ss[i]
  <2>1. /\ 1..i \in SUBSET (1..n) /\ 1..i # {}
        /\ Max(1..i) = i /\ (1..i) \ {i} = 1..(i - 1)
    BY <1>1, IndicesTo
  <2>2. f[i] = it[1..i] /\ f[i - 1] = it[1..(i - 1)] /\ i - 1 \in 0..n
    BY <1>1
  <2>3. it[1..i] = F[<<it[(1..i) \ {Max(1..i)}], Max(1..i)>>]
    <3> HIDE DEF F, n, f
    <3> QED
      BY <1>4, <2>1 DEF Iterated
  <2>4. f[i] = F[<<f[i - 1], i>>]
    BY <2>1, <2>2, <2>3
  <2>5. f[i - 1] \in Seq(Part)
    BY <1>5, <2>2
  <2> QED
    <3> HIDE DEF f, n
    <3> QED
      BY <2>4, <2>5
<1> HIDE DEF F, f
<1>8. CASE n = 0
  <2>1. FlattenSeq(ss) = <<>>
    BY <1>8 DEF FlattenSeq
  <2> QED
    BY <2>1, <1>5, <1>6, <1>7, <1>8
<1>9. CASE n # 0
  <2> DEFINE Flat == CHOOSE g : g = [i \in 1..n |-> IF i = 1 THEN ss[i] ELSE g[i - 1] \o ss[i]]
  <2>1. FlattenSeq(ss) = Flat[n]
    BY <1>9 DEF FlattenSeq
  <2> DEFINE h == [i \in 1..n |-> f[i]]
  <2>2. h = [i \in 1..n |-> IF i = 1 THEN ss[i] ELSE h[i - 1] \o ss[i]]
    <3> SUFFICES ASSUME NEW i \in 1..n
                 PROVE f[i] = IF i = 1 THEN ss[i] ELSE h[i - 1] \o ss[i]
      BY <1>1
    <3>1. f[i] = f[i - 1] \o ss[i]
      BY <1>7
    <3>2. CASE i = 1
      <4>1. f[i - 1] = <<>>
        BY <1>6, <3>2
      <4>2. ss[i] \in Seq(Part)
        BY <1>1
      <4> HIDE DEF h, n
      <4> QED
        BY <3>1, <4>1, <4>2, <3>2
    <3>3. CASE i # 1
      <4>1. h[i - 1] = f[i - 1]
        BY <1>1, <3>3
      <4> QED
        BY <3>1, <4>1, <3>3
    <3> QED
      BY <3>2, <3>3
  <2>3. Flat = [i \in 1..n |-> IF i = 1 THEN ss[i] ELSE Flat[i - 1] \o ss[i]]
    <3> HIDE DEF h
    <3> QED
      BY <2>2
  <2> HIDE DEF Flat
  <2> DEFINE T == {i \in 0..n : i = 0 \/ Flat[i] = f[i]}
  <2>4. ASSUME NEW i \in 1..n, i - 1 \in T PROVE i \in T
    <3>1. CASE i = 1
      <4>1. Flat[i] = h[i]
        BY <2>2, <2>3, <3>1
      <4> QED
        BY <4>1
    <3>2. CASE i # 1
      <4>1. Flat[i] = Flat[i - 1] \o ss[i]
        BY <2>3, <3>2
      <4>2. Flat[i - 1] = f[i - 1]
        BY <2>4, <3>2, <1>1
      <4>3. f[i] = f[i - 1] \o ss[i] /\ i \in 0..n
        BY <1>1, <1>7
      <4> QED
        BY <4>1, <4>2, <4>3
    <3> QED
      BY <3>1, <3>2
  <2>5. 0 \in T
    BY <1>1
  <2>6. n \in T
    <3>1. n \in Nat /\ n \in 0..n
      BY <1>1
    <3> HIDE DEF T, n
    <3> QED
      BY <3>1, <2>4, <2>5, Count
  <2>7. FlattenSeq(ss) = f[n]
    BY <2>1, <2>6, <1>9
  <2> QED
    BY <2>7, <1>5, <1>6, <1>7
<1> QED
  BY <1>8, <1>9

-----------------------------------------------------------------------------

\* Min of two numbers.
LEMMA LeastOf ==
  ASSUME NEW a \in Nat, NEW b \in Nat
  PROVE  Min({a, b}) = IF a <= b THEN a ELSE b
<1> DEFINE m == IF a <= b THEN a ELSE b
<1>1. m \in {a, b} /\ \A y \in {a, b} : m <= y
  OBVIOUS
<1>2. \A x \in {a, b} : (\A y \in {a, b} : x <= y) => x = m
  OBVIOUS
<1> HIDE DEF m
<1>3. Min({a, b}) = m
  BY <1>1, <1>2 DEF Min
<1> QED
  BY <1>3 DEF m

\* The number of parts, and where they begin and end.
LEMMA PartBounds ==
  ASSUME NEW size \in Nat \ {0}
  PROVE  /\ (size + Limit - 1) \div Limit \in Nat \ {0}
         /\ \A k \in 1..((size + Limit - 1) \div Limit) :
              (k - 1) * Limit \in Nat /\ k * Limit \in Nat
                /\ (k - 1) * Limit <= k * Limit /\ (k - 1) * Limit <= size
         /\ \A r \in 1..size : \E k \in 1..((size + Limit - 1) \div Limit) :
              (k - 1) * Limit < r /\ r <= k * Limit
<1> DEFINE q == (size + Limit - 1) \div Limit
<1>0. Limit \in Nat \ {0}
  BY ReviewAssumption
<1>1. q \in Nat /\ q * Limit <= size + Limit - 1 /\ size + Limit - 1 < q * Limit + Limit
  BY <1>0, SMT
<1>2. q # 0
  <2>1. CASE q = 0
    <3>1. q * Limit = 0
      BY <1>0, <2>1, SMT
    <3> QED
      BY <1>0, <1>1, <3>1
  <2> QED
    BY <2>1
<1>3. ASSUME NEW k \in 1..q
      PROVE  /\ (k - 1) * Limit \in Nat /\ k * Limit \in Nat
             /\ (k - 1) * Limit <= k * Limit /\ (k - 1) * Limit <= size
  <2> HIDE DEF q
  <2>1. k \in Nat /\ k >= 1 /\ k <= q
    BY <1>1
  <2>2. k * Limit <= q * Limit /\ k * Limit \in Nat /\ q * Limit \in Nat
    BY <1>0, <1>1, <2>1, SMT
  <2>3. (k - 1) * Limit = k * Limit - Limit /\ (k - 1) * Limit \in Nat
    BY <1>0, <2>1, SMT
  <2> QED
    BY <1>0, <1>1, <2>2, <2>3
<1>4. ASSUME NEW r \in 1..size
      PROVE  \E k \in 1..q : (k - 1) * Limit < r /\ r <= k * Limit
  <2> DEFINE j == (r - 1) \div Limit
  <2>1. j \in Nat /\ j * Limit <= r - 1 /\ r - 1 < j * Limit + Limit
    BY <1>0, SMT
  <2> HIDE DEF j, q
  <2>2. (j + 1) * Limit = j * Limit + Limit /\ j * Limit \in Nat
    BY <1>0, <2>1, SMT
  <2>3. j < q
    <3> SUFFICES ASSUME j >= q PROVE FALSE
      BY <1>1, <2>1
    <3>1. j * Limit >= q * Limit /\ q * Limit \in Nat
      BY <1>0, <1>1, <2>1, SMT
    <3> QED
      BY <1>0, <1>1, <2>1, <2>2, <3>1
  <2>4. j + 1 \in 1..q /\ (j + 1) - 1 = j
    BY <1>1, <2>1, <2>3
  <2>5. j * Limit < r /\ r <= (j + 1) * Limit
    BY <1>0, <2>1, <2>2
  <2> QED
    BY <2>4, <2>5
<1> QED
  BY <1>1, <1>2, <1>3, <1>4

\* The part p has the rune r; rune 0 stands for the title, which every part has.
Speaks(p, r) == r = 0 \/ (p.from < r /\ r <= p.to)

\* The parts of an issue are of this version of it, and each rune is in one.
LEMMA PartsOfIssue ==
  ASSUME NEW i \in Issue
  PROVE  /\ PartsOf(i) \in Seq(Part)
         /\ \A k \in DOMAIN PartsOf(i) :
              PartsOf(i)[k].number = i.number /\ PartsOf(i)[k].version = i.version
         /\ \A r \in 0..i.size : \E k \in DOMAIN PartsOf(i) : Speaks(PartsOf(i)[k], r)
<1> DEFINE n == IF i.size = 0 THEN 1 ELSE (i.size + Limit - 1) \div Limit
           end(k) == IF k * Limit <= i.size THEN k * Limit ELSE i.size
<1>0. Limit \in Nat \ {0} /\ i.size \in Nat /\ i.number \in Nat \ {0} /\ i.version \in Nat
  BY ReviewAssumption DEF Issue
<1>1. n \in Nat \ {0}
  BY <1>0, PartBounds
<1>2. ASSUME NEW k \in 1..n
      PROVE  /\ (k - 1) * Limit \in Nat /\ k * Limit \in Nat
             /\ (k - 1) * Limit <= k * Limit /\ (k - 1) * Limit <= i.size
  <2>1. CASE i.size = 0
    <3>1. k = 1
      BY <2>1
    <3>2. (1 - 1) * Limit = 0 /\ 1 * Limit = Limit
      BY <1>0, SMT
    <3> QED
      BY <1>0, <2>1, <3>1, <3>2
  <2>2. CASE i.size # 0
    BY <1>0, <2>2, PartBounds
  <2> QED
    BY <2>1, <2>2
<1> DEFINE p(k) == [number |-> i.number, version |-> i.version,
                    from |-> (k - 1) * Limit, to |-> end(k)]
<1>3. PartsOf(i) = [k \in 1..n |-> p(k)]
  <2>1. \A k \in 1..n : Min({k * Limit, i.size}) = end(k)
    BY <1>0, <1>2, LeastOf
  <2> HIDE DEF end
  <2> QED
    BY <2>1 DEF PartsOf
<1>4. \A k \in 1..n : p(k) \in Part
  <2> SUFFICES ASSUME NEW k \in 1..n PROVE p(k) \in Part
    OBVIOUS
  <2>1. end(k) \in Nat /\ (k - 1) * Limit <= end(k) /\ (k - 1) * Limit \in Nat
    BY <1>0, <1>2
  <2> HIDE DEF end
  <2> QED
    BY <1>0, <2>1 DEF Part
<1>5. ASSUME NEW r \in 0..i.size PROVE \E k \in 1..n : Speaks(p(k), r)
  <2>1. CASE r = 0
    <3>1. 1 \in 1..n /\ Speaks(p(1), r)
      BY <1>1, <2>1 DEF Speaks
    <3> QED
      BY <3>1
  <2>2. CASE r # 0
    <3>1. i.size # 0 /\ r \in 1..i.size
      BY <1>0, <2>2
    <3>2. PICK k \in 1..n : (k - 1) * Limit < r /\ r <= k * Limit
      BY <1>0, <3>1, PartBounds
    <3>3. r <= end(k)
      BY <3>1, <3>2
    <3>4. p(k).from = (k - 1) * Limit /\ p(k).to = end(k)
      OBVIOUS
    <3> HIDE DEF p, end, n
    <3>5. Speaks(p(k), r)
      BY <3>2, <3>3, <3>4 DEF Speaks
    <3> QED
      BY <3>2, <3>5
  <2> QED
    BY <2>1, <2>2
<1>6. \A k \in 1..n : p(k).number = i.number /\ p(k).version = i.version
  OBVIOUS
<1> HIDE DEF p, n
<1>7. DOMAIN PartsOf(i) = 1..n /\ \A k \in 1..n : PartsOf(i)[k] = p(k)
  BY <1>3
<1>8. PartsOf(i) \in Seq(Part)
  BY <1>1, <1>3, <1>4
<1> QED
  BY <1>5, <1>6, <1>7, <1>8

\* The parts come by issue number.
Sorted(s) == \A j, k \in DOMAIN s : j <= k => s[j].number <= s[k].number

\* Parts flattens the parts of sorted issues: sorted, and every rune of every
\* issue is in one of them.
LEMMA PartsOfHistory ==
  ASSUME NEW h \in Histories
  PROVE  /\ Parts(h) \in Seq(Part) /\ Sorted(Parts(h))
         /\ \A k \in DOMAIN h : \A r \in 0..h[k].size : \E j \in DOMAIN Parts(h) :
              /\ Parts(h)[j].number = h[k].number /\ Parts(h)[j].version = h[k].version
              /\ Speaks(Parts(h)[j], r)
<1> DEFINE n == Len(h)
           ss == [k \in DOMAIN h |-> PartsOf(h[k])]
<1>1. /\ n \in Nat /\ DOMAIN h = 1..n /\ \A k \in 1..n : h[k] \in Issue /\ h[k].number \in Nat
      /\ \A k, l \in 1..n : k < l => h[k].number < h[l].number
  <2>1. h \in Seq(Issue) /\ \A k, l \in DOMAIN h : k < l => h[k].number < h[l].number
    BY ReviewAssumption
  <2>2. n \in Nat /\ DOMAIN h = 1..n /\ \A k \in 1..n : h[k] \in Issue
    BY <2>1
  <2>3. \A x \in Issue : x.number \in Nat
    BY DEF Issue
  <2> QED
    BY <2>1, <2>2, <2>3
<1>2. ss \in Seq(Seq(Part)) /\ Len(ss) = n /\ DOMAIN ss = 1..n
  <2>1. \A k \in 1..n : PartsOf(h[k]) \in Seq(Part)
    BY <1>1, PartsOfIssue
  <2>2. ss \in [1..n -> Seq(Part)]
    BY <1>1, <2>1
  <2> QED
    BY <1>1, <2>2
<1>3. \A k \in 1..n : ss[k] = PartsOf(h[k]) /\ ss[k] \in Seq(Part)
  BY <1>1, PartsOfIssue
<1>4. Parts(h) = FlattenSeq(ss)
  BY DEF Parts
<1> HIDE DEF ss
<1>5. PICK f \in [0..n -> Seq(Part)] :
        f[0] = <<>> /\ FlattenSeq(ss) = f[n] /\ \A i \in 1..n : f[i] = f[i - 1] \o ss[i]
  <2>1. PICK f \in [0..Len(ss) -> Seq(Part)] :
           /\ f[0] = <<>> /\ FlattenSeq(ss) = f[Len(ss)]
           /\ \A i \in 1..Len(ss) : f[i] = f[i - 1] \o ss[i]
    BY <1>2, Joining
  <2> QED
    BY <2>1, <1>2
<1> HIDE DEF n
<1> DEFINE T == {i \in 0..n :
                   /\ Sorted(f[i])
                   /\ \A j \in DOMAIN f[i] : \E k \in 1..i : f[i][j].number = h[k].number
                   /\ \A k \in 1..i : \A l \in DOMAIN ss[k] : \E j \in DOMAIN f[i] : f[i][j] = ss[k][l]}
<1>6. 0 \in T
  BY <1>1, <1>5 DEF Sorted
<1>7. ASSUME NEW i \in 1..n, i - 1 \in T PROVE i \in T
  <2> DEFINE a == f[i - 1]
             m == Len(a)
  <2>0. i \in 0..n /\ i - 1 \in 0..n
    BY <1>1
  <2>1. a \in Seq(Part) /\ ss[i] \in Seq(Part) /\ f[i] = a \o ss[i] /\ m \in Nat /\ DOMAIN a = 1..m
    <3>1. a \in Seq(Part)
      BY <1>5, <2>0
    <3>2. ss[i] \in Seq(Part) /\ f[i] = a \o ss[i]
      BY <1>3, <1>5
    <3> QED
      BY <3>1, <3>2
  <2>2. /\ Sorted(a)
        /\ \A j \in 1..m : \E k \in 1..(i - 1) : a[j].number = h[k].number
        /\ \A k \in 1..(i - 1) : \A l \in DOMAIN ss[k] : \E j \in 1..m : a[j] = ss[k][l]
    <3> i - 1 \in T
      BY <1>7
    <3> QED
      BY <2>1
  <2> HIDE DEF T, a
  <2>3. /\ \A j \in DOMAIN f[i] : j \in 1..m \/ (j - m \in 1..Len(ss[i]) /\ j > m)
        /\ \A j \in 1..m : j \in DOMAIN f[i] /\ f[i][j] = a[j] /\ a[j] \in Part
        /\ \A l \in 1..Len(ss[i]) : m + l \in DOMAIN f[i] /\ f[i][m + l] = ss[i][l]
        /\ \A j \in DOMAIN f[i] : j > m => f[i][j] = ss[i][j - m]
        /\ \A l \in 1..Len(ss[i]) : ss[i][l].number = h[i].number
    <3>1. \A l \in 1..Len(ss[i]) : ss[i][l].number = h[i].number
      BY <1>1, <1>3, PartsOfIssue
    <3> QED
      BY <2>1, <3>1
  <2>4. \A j \in DOMAIN f[i] : \E k \in 1..i : f[i][j].number = h[k].number /\ (j > m => k = i) /\ (j <= m => k < i)
    <3> SUFFICES ASSUME NEW j \in DOMAIN f[i]
                 PROVE \E k \in 1..i : f[i][j].number = h[k].number /\ (j > m => k = i) /\ (j <= m => k < i)
      OBVIOUS
    <3>1. CASE j \in 1..m
      <4>1. PICK k \in 1..(i - 1) : a[j].number = h[k].number
        BY <2>2, <3>1
      <4>2. f[i][j] = a[j] /\ k \in 1..i /\ k < i /\ ~(j > m)
        BY <2>1, <2>3, <3>1
      <4> QED
        BY <4>1, <4>2
    <3>2. CASE j \notin 1..m
      <4>1. f[i][j] = ss[i][j - m] /\ j - m \in 1..Len(ss[i]) /\ j > m
        BY <2>3, <3>2
      <4>2. f[i][j].number = h[i].number
        BY <2>3, <4>1
      <4>3. ~(j <= m) /\ i \in 1..i
        BY <2>0, <2>1, <4>1
      <4> QED
        BY <4>1, <4>2, <4>3
    <3> QED
      BY <3>1, <3>2
  <2>5. Sorted(f[i])
    <3> SUFFICES ASSUME NEW j \in DOMAIN f[i], NEW k \in DOMAIN f[i], j <= k
                 PROVE f[i][j].number <= f[i][k].number
      BY DEF Sorted
    <3>0. j \in Nat /\ k \in Nat
      BY <2>1
    <3>1. CASE k <= m
      <4>1. j \in 1..m /\ k \in 1..m
        BY <2>1, <2>3, <3>0, <3>1
      <4>2. a[j].number <= a[k].number
        BY <2>1, <2>2, <4>1 DEF Sorted
      <4> QED
        BY <2>3, <4>1, <4>2
    <3>2. CASE k > m
      <4>1. PICK x \in 1..i : f[i][j].number = h[x].number
        BY <2>4
      <4>2. f[i][k].number = h[i].number
        BY <2>4, <3>2
      <4>3. x \in 1..n /\ x <= i
        BY <1>1
      <4>4. h[x].number <= h[i].number
        BY <1>1, <4>3
      <4> QED
        BY <4>1, <4>2, <4>4
    <3> QED
      BY <2>1, <3>0, <3>1, <3>2
  <2>6. \A k \in 1..i : \A l \in DOMAIN ss[k] : \E j \in DOMAIN f[i] : f[i][j] = ss[k][l]
    <3> SUFFICES ASSUME NEW k \in 1..i, NEW l \in DOMAIN ss[k]
                 PROVE \E j \in DOMAIN f[i] : f[i][j] = ss[k][l]
      OBVIOUS
    <3>1. CASE k = i
      <4>1. l \in 1..Len(ss[i])
        BY <2>1, <3>1
      <4> QED
        BY <2>3, <3>1, <4>1
    <3>2. CASE k # i
      <4>1. k \in 1..(i - 1)
        BY <3>2
      <4>2. PICK j \in 1..m : a[j] = ss[k][l]
        BY <2>2, <4>1
      <4> QED
        BY <2>3, <4>2
    <3> QED
      BY <3>1, <3>2
  <2>7. \A j \in DOMAIN f[i] : \E k \in 1..i : f[i][j].number = h[k].number
    BY <2>4
  <2> QED
    BY <2>0, <2>5, <2>6, <2>7 DEF T
<1>8. n \in T
  <2>1. n \in 0..n
    BY <1>1
  <2> HIDE DEF T
  <2> QED
    BY <1>1, <1>6, <1>7, <2>1, Count
<1>9. ASSUME NEW k \in DOMAIN h, NEW r \in 0..h[k].size
      PROVE  \E j \in DOMAIN f[n] :
              /\ f[n][j].number = h[k].number /\ f[n][j].version = h[k].version
              /\ Speaks(f[n][j], r)
  <2>0. k \in 1..n /\ h[k] \in Issue /\ ss[k] = PartsOf(h[k])
    BY <1>1, <1>3
  <2>1. PICK l \in DOMAIN ss[k] : Speaks(ss[k][l], r)
    BY <2>0, PartsOfIssue
  <2>2. ss[k][l].number = h[k].number /\ ss[k][l].version = h[k].version
    BY <2>0, PartsOfIssue
  <2>3. PICK j \in DOMAIN f[n] : f[n][j] = ss[k][l]
    BY <2>0, <1>8
  <2> QED
    BY <2>1, <2>2, <2>3
<1> QED
  BY <1>1, <1>4, <1>5, <1>8, <1>9

-----------------------------------------------------------------------------
(* Chunks *)

\* A part more adds its weight.
LEMMA LoadAppend ==
  ASSUME NEW c \in Seq(Part), NEW p \in Part
  PROVE  /\ Load(c) \in Nat
         /\ Load(Append(c, p)) = Load(c) + Weight(p)
<1> DEFINE d == Append(c, p)
           n == Len(c)
<1>1. /\ d \in Seq(Part) /\ Len(d) = n + 1 /\ n \in Nat
      /\ d[n + 1] = p /\ \A i \in 1..n : d[i] = c[i]
  OBVIOUS
<1>2. PICK f \in [0..n -> Nat] :
        f[0] = 0 /\ Load(c) = f[n] /\ \A i \in 1..n : f[i] = f[i - 1] + Weight(c[i])
  BY Loading
<1>3. PICK g \in [0..Len(d) -> Nat] :
        g[0] = 0 /\ Load(d) = g[Len(d)] /\ \A i \in 1..Len(d) : g[i] = g[i - 1] + Weight(d[i])
  <2> HIDE DEF d
  <2> QED
    BY <1>1, Loading
<1> HIDE DEF d, n
<1> DEFINE T == {i \in 0..n : f[i] = g[i]}
<1>4. 0 \in T
  BY <1>1, <1>2, <1>3
<1>5. ASSUME NEW i \in 1..n, i - 1 \in T PROVE i \in T
  <2>1. i \in 1..Len(d) /\ i \in 0..n
    BY <1>1
  <2>2. f[i] = f[i - 1] + Weight(c[i])
    BY <1>2
  <2>3. g[i] = g[i - 1] + Weight(c[i])
    BY <1>1, <1>3, <2>1
  <2> QED
    BY <1>5, <2>1, <2>2, <2>3
<1>6. n \in T
  <2>1. n \in 0..n
    BY <1>1
  <2> HIDE DEF T
  <2> QED
    BY <1>1, <1>4, <1>5, <2>1, Count
<1>7. g[n + 1] = g[n] + Weight(p)
  <2>1. n + 1 \in 1..Len(d) /\ (n + 1) - 1 = n
    BY <1>1
  <2>2. g[n + 1] = g[(n + 1) - 1] + Weight(d[n + 1])
    BY <1>3, <2>1
  <2> QED
    BY <1>1, <2>1, <2>2
<1>8. Load(c) = f[n] /\ f[n] \in Nat
  <2>1. n \in 0..n
    BY <1>1
  <2> QED
    BY <1>2, <2>1
<1> QED
  BY <1>1, <1>3, <1>6, <1>7, <1>8 DEF d

\* An empty chunk has no weight.
LEMMA LoadNothing == Load(<<>>) = 0
<1>1. <<>> \in Seq(Part) /\ Len(<<>>) = 0
  OBVIOUS
<1> QED
  BY <1>1, Loading

\* No issue has two parts in the chunk.
Rising(c) == \A k, l \in DOMAIN c : k < l => c[k].number < c[l].number
\* The bounds of a chunk, as in WellBatched.
Good(c) == /\ c \in Seq(Part) /\ Rising(c)
           /\ Len(c) <= MaxParts /\ (Len(c) > 1 => Load(c) <= Limit)

\* The parts of S are in chunks, the last number is m at most, and all are good.
Fills(b, S, m) ==
  /\ \A x \in S : \/ \E l \in DOMAIN b.chunk : b.chunk[l] = x
                  \/ \E k \in DOMAIN b.chunks : \E l \in DOMAIN b.chunks[k] : b.chunks[k][l] = x
  /\ \A k \in DOMAIN b.chunks : Good(b.chunks[k])
  /\ Good(b.chunk) /\ b.size = Load(b.chunk)
  /\ \A l \in DOMAIN b.chunk : b.chunk[l].number <= m

\* The empty chunk of an empty history keeps the bounds.
LEMMA GoodNothing == Good(<<>>)
  BY ReviewAssumption, LoadNothing DEF Good, Rising

\* So does a part alone, however long it is.
LEMMA GoodOne ==
  ASSUME NEW p \in Part
  PROVE  Good(<<p>>) /\ Load(<<p>>) = Weight(p)
<1>1. Load(Append(<<>>, p)) = 0 + Weight(p)
  <2>1. <<>> \in Seq(Part)
    OBVIOUS
  <2> QED
    BY <2>1, LoadAppend, LoadNothing
<1>2. Append(<<>>, p) = <<p>>
  OBVIOUS
<1>3. Weight(p) \in Nat
  BY WeightType
<1>4. <<p>> \in Seq(Part) /\ Len(<<p>>) = 1 /\ MaxParts \in Nat \ {0}
  BY ReviewAssumption
<1>5. Rising(<<p>>)
  BY DEF Rising
<1> QED
  BY <1>1, <1>2, <1>3, <1>4, <1>5 DEF Good

\* A part that fits makes the chunk no worse.
LEMMA GoodMore ==
  ASSUME NEW c \in Seq(Part), Good(c), c # <<>>, NEW p \in Part, NEW m \in Nat,
         \A l \in DOMAIN c : c[l].number <= m, m <= p.number, Last(c).number # p.number,
         Len(c) < MaxParts, Load(c) + Weight(p) <= Limit
  PROVE  Good(Append(c, p))
<1> DEFINE d == Append(c, p)
           n == Len(c)
<1>1. /\ d \in Seq(Part) /\ Len(d) = n + 1 /\ n \in Nat \ {0} /\ DOMAIN c = 1..n
      /\ d[n + 1] = p /\ DOMAIN d = 1..(n + 1) /\ \A i \in 1..n : d[i] = c[i]
  OBVIOUS
<1>2. \A i \in 1..n : c[i].number \in Nat
  <2>1. \A x \in Part : x.number \in Nat
    BY DEF Part
  <2> QED
    BY <2>1
<1>3. p.number \in Nat
  BY DEF Part
<1>4. \A i \in 1..n : c[i].number < p.number
  <2> SUFFICES ASSUME NEW i \in 1..n PROVE c[i].number < p.number
    OBVIOUS
  <2>1. n \in 1..n /\ c[n].number # p.number /\ c[n].number <= p.number
    BY <1>1, <1>2, <1>3 DEF Last
  <2>2. i < n => c[i].number < c[n].number
    BY <1>1, <2>1 DEF Good, Rising
  <2>3. i = n \/ i < n
    <3>1. n \in Nat
      OBVIOUS
    <3> HIDE DEF n
    <3> QED
      BY <3>1
  <2> QED
    BY <1>2, <1>3, <2>1, <2>2, <2>3
<1> HIDE DEF d, n
<1>5. Rising(d)
  <2> SUFFICES ASSUME NEW k \in DOMAIN d, NEW l \in DOMAIN d, k < l
               PROVE d[k].number < d[l].number
    BY DEF Rising
  <2>0. k \in 1..(n + 1) /\ l \in 1..(n + 1) /\ n \in Nat
    BY <1>1
  <2>1. k \in 1..n /\ (l \in 1..n \/ l = n + 1)
    BY <2>0
  <2>2. d[k] = c[k]
    BY <1>1, <2>1
  <2>3. CASE l = n + 1
    BY <1>1, <1>4, <2>1, <2>2, <2>3
  <2>4. CASE l \in 1..n
    BY <1>1, <2>1, <2>2, <2>4 DEF Good, Rising
  <2> QED
    BY <2>1, <2>3, <2>4
<1>6. Load(d) <= Limit
  BY LoadAppend DEF d
<1>7. Len(d) <= MaxParts
  BY <1>1, ReviewAssumption DEF n
<1> QED
  BY <1>1, <1>5, <1>6, <1>7 DEF Good, d

\* A step of reviewChunks loses no part and keeps the bounds.
LEMMA AddPartFills ==
  ASSUME NEW b \in Filled, NEW S, NEW m \in Nat, Fills(b, S, m), NEW p \in Part, m <= p.number
  PROVE  Fills(AddPart(b, p), S \union {p}, p.number) /\ AddPart(b, p).chunk # <<>>
<1> DEFINE a == AddPart(b, p)
<1>0. /\ b.chunks \in Seq(Seq(Part)) /\ b.chunk \in Seq(Part) /\ b.size \in Nat
      /\ p.number \in Nat /\ Weight(p) \in Nat
  BY WeightType DEF Filled, Part
<1>1. CASE Full(b, p)
  <2>1. a.chunks = Append(b.chunks, b.chunk) /\ a.chunk = <<p>> /\ a.size = Weight(p)
    BY <1>1 DEF AddPart
  <2> HIDE DEF a
  <2> DEFINE n == Len(b.chunks)
  <2>2. /\ DOMAIN a.chunks = 1..(n + 1) /\ n \in Nat /\ DOMAIN b.chunks = 1..n
        /\ a.chunks[n + 1] = b.chunk /\ n + 1 \in DOMAIN a.chunks
        /\ \A k \in DOMAIN b.chunks : a.chunks[k] = b.chunks[k] /\ k \in DOMAIN a.chunks
    BY <1>0, <2>1
  <2>3. \A k \in DOMAIN a.chunks : Good(a.chunks[k])
    <3>1. \A k \in 1..(n + 1) : k \in 1..n \/ k = n + 1
      BY <2>2
    <3> QED
      BY <2>2, <3>1 DEF Fills
  <2>4. Good(a.chunk) /\ a.size = Load(a.chunk)
    BY <2>1, GoodOne
  <2>5. DOMAIN a.chunk = {1} /\ a.chunk[1] = p /\ a.chunk # <<>>
    BY <2>1
  <2>6. ASSUME NEW x \in S \union {p}
        PROVE  \/ \E l \in DOMAIN a.chunk : a.chunk[l] = x
               \/ \E k \in DOMAIN a.chunks : \E l \in DOMAIN a.chunks[k] : a.chunks[k][l] = x
    <3>1. CASE x = p
      BY <2>5, <3>1
    <3>2. CASE \E l \in DOMAIN b.chunk : b.chunk[l] = x
      BY <2>2, <3>2
    <3>3. CASE \E k \in DOMAIN b.chunks : \E l \in DOMAIN b.chunks[k] : b.chunks[k][l] = x
      BY <2>2, <3>3
    <3> QED
      BY <3>1, <3>2, <3>3 DEF Fills
  <2>7. \A l \in DOMAIN a.chunk : a.chunk[l].number <= p.number
    BY <1>0, <2>5
  <2>8. Fills(a, S \union {p}, p.number)
    BY <2>3, <2>4, <2>6, <2>7 DEF Fills
  <2> QED
    BY <2>5, <2>8 DEF a
<1>2. CASE ~Full(b, p)
  <2>1. a.chunks = b.chunks /\ a.chunk = Append(b.chunk, p) /\ a.size = b.size + Weight(p)
    BY <1>2 DEF AddPart, Filled
  <2> HIDE DEF a
  <2> DEFINE n == Len(b.chunk)
  <2>2. /\ DOMAIN a.chunk = 1..(n + 1) /\ n \in Nat /\ DOMAIN b.chunk = 1..n
        /\ a.chunk[n + 1] = p /\ n + 1 \in DOMAIN a.chunk /\ a.chunk # <<>>
        /\ \A l \in 1..n : a.chunk[l] = b.chunk[l] /\ l \in DOMAIN a.chunk
    BY <1>0, <2>1
  <2>3. Good(a.chunk)
    <3>1. CASE b.chunk = <<>>
      <4>1. a.chunk = <<p>>
        BY <2>1, <3>1
      <4> QED
        BY <4>1, GoodOne
    <3>2. CASE b.chunk # <<>>
      <4>1. /\ ~(b.size + Weight(p) > Limit) /\ ~(Len(b.chunk) >= MaxParts)
            /\ Last(b.chunk).number # p.number
        BY <1>2, <3>2 DEF Full
      <4>2. b.size + Weight(p) <= Limit /\ Len(b.chunk) < MaxParts
        BY <1>0, <2>2, <4>1, ReviewAssumption
      <4>3. Good(b.chunk) /\ b.size = Load(b.chunk) /\ \A l \in DOMAIN b.chunk : b.chunk[l].number <= m
        BY DEF Fills
      <4> QED
        BY <1>0, <2>1, <3>2, <4>1, <4>2, <4>3, GoodMore
    <3> QED
      BY <3>1, <3>2
  <2>4. a.size = Load(a.chunk)
    BY <1>0, <2>1, LoadAppend DEF Fills
  <2>5. ASSUME NEW x \in S \union {p}
        PROVE  \/ \E l \in DOMAIN a.chunk : a.chunk[l] = x
               \/ \E k \in DOMAIN a.chunks : \E l \in DOMAIN a.chunks[k] : a.chunks[k][l] = x
    <3>1. CASE x = p
      BY <2>2, <3>1
    <3>2. CASE \E l \in DOMAIN b.chunk : b.chunk[l] = x
      BY <2>2, <3>2
    <3>3. CASE \E k \in DOMAIN b.chunks : \E l \in DOMAIN b.chunks[k] : b.chunks[k][l] = x
      BY <2>1, <3>3
    <3> QED
      BY <3>1, <3>2, <3>3 DEF Fills
  <2>6. \A l \in DOMAIN a.chunk : a.chunk[l].number <= p.number
    <3>0. \A x \in Part : x.number \in Nat
      BY DEF Part
    <3>1. \A l \in 1..n : b.chunk[l].number <= m /\ b.chunk[l].number \in Nat
      <4>1. \A l \in 1..n : b.chunk[l].number <= m
        BY <2>2 DEF Fills
      <4>2. \A l \in 1..n : b.chunk[l] \in Part
        BY <1>0
      <4> QED
        BY <3>0, <4>1, <4>2
    <3> HIDE DEF n
    <3>2. \A l \in 1..n : b.chunk[l].number <= p.number
      BY <1>0, <3>1
    <3>3. \A l \in 1..(n + 1) : l \in 1..n \/ l = n + 1
      BY <2>2
    <3>4. \A l \in 1..n : a.chunk[l].number <= p.number
      BY <2>2, <3>2
    <3>5. a.chunk[n + 1].number <= p.number
      BY <1>0, <2>2
    <3> QED
      BY <2>2, <3>3, <3>4, <3>5
  <2>7. \A k \in DOMAIN a.chunks : Good(a.chunks[k])
    BY <2>1 DEF Fills
  <2>8. Fills(a, S \union {p}, p.number)
    BY <2>3, <2>4, <2>5, <2>6, <2>7 DEF Fills
  <2> QED
    BY <2>2, <2>8 DEF a
<1> QED
  BY <1>1, <1>2

\* What reviewChunks makes of a history: good chunks that have all its parts.
LEMMA ChunksOfHistory ==
  ASSUME NEW h \in Histories
  PROVE  /\ ReviewChunks(h) \in Seq(Seq(Part))
         /\ \A k \in DOMAIN ReviewChunks(h) : Good(ReviewChunks(h)[k])
         /\ \A j \in DOMAIN Parts(h) : \E k \in DOMAIN ReviewChunks(h) :
              \E l \in DOMAIN ReviewChunks(h)[k] : ReviewChunks(h)[k][l] = Parts(h)[j]
<1> DEFINE p == Parts(h)
           n == Len(p)
<1>1. /\ p \in Seq(Part) /\ n \in Nat /\ DOMAIN p = 1..n
      /\ \A j \in 1..n : p[j] \in Part /\ p[j].number \in Nat
      /\ \A j, k \in 1..n : j <= k => p[j].number <= p[k].number
  <2>1. p \in Seq(Part) /\ Sorted(p)
    BY PartsOfHistory
  <2>2. \A x \in Part : x.number \in Nat
    BY DEF Part
  <2> HIDE DEF p
  <2> QED
    BY <2>1, <2>2 DEF Sorted
<1> HIDE DEF p
<1>2. PICK f \in [0..n -> Filled] :
        /\ f[0] = NoParts /\ FoldLeft(AddPart, NoParts, p) = f[n]
        /\ \A i \in 1..n : f[i] = AddPart(f[i - 1], p[i])
  BY <1>1, Filling
<1> HIDE DEF n
<1> DEFINE S(i) == {p[j] : j \in 1..i}
           m(i) == IF i = 0 THEN 0 ELSE p[i].number
           T == {i \in 0..n : Fills(f[i], S(i), m(i)) /\ (i > 0 => f[i].chunk # <<>>)}
<1>3. 0 \in T
  <2>1. f[0].chunk = <<>> /\ f[0].chunks = <<>> /\ f[0].size = 0
    BY <1>2 DEF NoParts
  <2>2. Fills(f[0], S(0), 0)
    BY <2>1, GoodNothing, LoadNothing DEF Fills
  <2> QED
    BY <1>1, <2>2
<1>4. ASSUME NEW i \in 1..n, i - 1 \in T PROVE i \in T
  <2>1. f[i - 1] \in Filled /\ i \in 0..n /\ i - 1 \in 0..n /\ i - 1 \in Nat
    BY <1>1, <1>2
  <2>2. Fills(f[i - 1], S(i - 1), m(i - 1))
    BY <1>4
  <2>3. p[i] \in Part /\ p[i].number \in Nat /\ m(i - 1) \in Nat /\ m(i - 1) <= p[i].number
    <3>1. CASE i = 1
      BY <1>1, <3>1
    <3>2. CASE i # 1
      <4>1. i - 1 \in 1..n /\ i - 1 <= i
        BY <1>1, <3>2
      <4> QED
        BY <1>1, <4>1
    <3> QED
      BY <3>1, <3>2
  <2>4. m(i) = p[i].number
    OBVIOUS
  <2>5. S(i) = S(i - 1) \union {p[i]}
    <3>1. 1..i = 1..(i - 1) \union {i}
      BY <2>1
    <3> QED
      BY <3>1
  <2> HIDE DEF S, m
  <2>6. Fills(f[i], S(i), m(i)) /\ f[i].chunk # <<>>
    BY <1>2, <2>1, <2>2, <2>3, <2>4, <2>5, AddPartFills
  <2> QED
    BY <2>1, <2>6
<1>5. n \in T
  <2>1. n \in 0..n
    BY <1>1
  <2> HIDE DEF T
  <2> QED
    BY <1>1, <1>3, <1>4, <2>1, Count
<1> DEFINE b == f[n]
<1>6. b \in Filled /\ Fills(b, S(n), m(n)) /\ (n > 0 => b.chunk # <<>>)
  BY <1>1, <1>2, <1>5
<1>7. ReviewChunks(h) = IF b.chunk = <<>> THEN <<<<>>>> ELSE Append(b.chunks, b.chunk)
  BY <1>2 DEF ReviewChunks, p
<1>8. b.chunks \in Seq(Seq(Part)) /\ b.chunk \in Seq(Part)
  BY <1>6 DEF Filled
<1>9. \A j \in DOMAIN p : p[j] \in S(n)
  BY <1>1
<1> HIDE DEF b, S, m
<1>10. CASE b.chunk = <<>>
  <2>1. n = 0 /\ DOMAIN p = {}
    BY <1>1, <1>6, <1>10
  <2>2. ReviewChunks(h) = <<<<>>>> /\ <<>> \in Seq(Part)
    BY <1>7, <1>10
  <2>3. DOMAIN ReviewChunks(h) = {1} /\ ReviewChunks(h)[1] = <<>>
    BY <2>2
  <2>4. ReviewChunks(h) \in Seq(Seq(Part))
    BY <2>2
  <2> QED
    BY <2>1, <2>3, <2>4, GoodNothing DEF p
<1>11. CASE b.chunk # <<>>
  <2> DEFINE r == ReviewChunks(h)
             x == Len(b.chunks)
  <2>1. r = Append(b.chunks, b.chunk)
    BY <1>7, <1>11
  <2> HIDE DEF r
  <2>2. /\ r \in Seq(Seq(Part)) /\ DOMAIN r = 1..(x + 1) /\ x \in Nat /\ DOMAIN b.chunks = 1..x
        /\ r[x + 1] = b.chunk /\ x + 1 \in DOMAIN r
        /\ \A k \in DOMAIN b.chunks : r[k] = b.chunks[k] /\ k \in DOMAIN r
    BY <1>8, <2>1
  <2>3. \A k \in DOMAIN r : Good(r[k])
    <3>1. \A k \in 1..(x + 1) : k \in 1..x \/ k = x + 1
      BY <2>2
    <3> QED
      BY <2>2, <3>1, <1>6 DEF Fills
  <2>4. ASSUME NEW j \in DOMAIN p
        PROVE \E k \in DOMAIN r : \E l \in DOMAIN r[k] : r[k][l] = p[j]
    <3>1. CASE \E l \in DOMAIN b.chunk : b.chunk[l] = p[j]
      BY <2>2, <3>1
    <3>2. CASE \E k \in DOMAIN b.chunks : \E l \in DOMAIN b.chunks[k] : b.chunks[k][l] = p[j]
      BY <2>2, <3>2
    <3> QED
      BY <1>6, <1>9, <3>1, <3>2 DEF Fills
  <2> QED
    BY <2>2, <2>3, <2>4 DEF r, p
<1> QED
  BY <1>10, <1>11

\* What Append does, for any set of elements.
LEMMA Appended ==
  ASSUME NEW S, NEW a \in Seq(S), NEW e \in S
  PROVE  /\ Append(a, e) \in Seq(S) /\ Append(a, e) # <<>>
         /\ Len(a) \in Nat /\ DOMAIN a = 1..Len(a) /\ DOMAIN Append(a, e) = 1..(Len(a) + 1)
         /\ Append(a, e)[Len(a) + 1] = e
         /\ \A k \in 1..Len(a) : Append(a, e)[k] = a[k]
  OBVIOUS

\* In such a chunk there are as many issues as parts.
LEMMA GoodCounts ==
  ASSUME NEW c, Good(c)
  PROVE  Cardinality(Numbers(c)) = Len(c)
<1> DEFINE n == Len(c)
           f == [k \in 1..n |-> c[k].number]
<1>1. c \in Seq(Part) /\ n \in Nat /\ DOMAIN c = 1..n
  BY DEF Good
<1>2. \A k, l \in 1..n : k # l => f[k] # f[l]
  <2> SUFFICES ASSUME NEW k \in 1..n, NEW l \in 1..n, k # l PROVE f[k] # f[l]
    OBVIOUS
  <2>1. \A x \in Part : x.number \in Nat
    BY DEF Part
  <2>2. c[k].number \in Nat /\ c[l].number \in Nat
    BY <1>1, <2>1
  <2>3. k < l \/ l < k
    <3> HIDE DEF n
    <3> QED
      BY <1>1
  <2>4. c[k].number < c[l].number \/ c[l].number < c[k].number
    BY <1>1, <2>3 DEF Good, Rising
  <2> QED
    BY <2>2, <2>4
<1>3. Numbers(c) = {f[k] : k \in 1..n}
  BY <1>1 DEF Numbers
<1>4. f \in [1..n -> Numbers(c)]
  BY <1>3
<1> HIDE DEF f, n
<1>5. f \in Bijection(1..n, Numbers(c))
  BY <1>2, <1>3, <1>4 DEF Bijection, Injection, Surjection, IsInjective
<1>6. ExistsBijection(1..n, Numbers(c))
  BY <1>5 DEF ExistsBijection
<1> QED
  BY <1>1, <1>6, FS_CountingElements DEF n

\* What is left to review are good chunks; if nothing is, all of the history's
\* chunks have a checkpoint.
LEMMA PendingOf ==
  ASSUME NEW h \in Histories
  PROVE  /\ Pending(h) \in Seq(Seq(Part))
         /\ \A k \in DOMAIN Pending(h) : Good(Pending(h)[k])
         /\ Pending(h) = <<>> =>
              ckpt.validated /\ \A k \in DOMAIN ReviewChunks(h) : ReviewChunks(h)[k] \in ckpt.batches
<1> DEFINE cs == ReviewChunks(h)
           n == Len(cs)
           open == FoldLeft(AddOpen, <<>>, cs)
<1>1. /\ cs \in Seq(Seq(Part)) /\ n \in Nat /\ DOMAIN cs = 1..n
      /\ \A k \in 1..n : Good(cs[k]) /\ cs[k] \in Seq(Part)
  <2>1. cs \in Seq(Seq(Part)) /\ \A k \in DOMAIN cs : Good(cs[k])
    BY ChunksOfHistory
  <2> HIDE DEF cs
  <2> QED
    BY <2>1
<1>2. Pending(h) = IF open = <<>> /\ ~ckpt.validated THEN <<<<>>>> ELSE open
  BY DEF Pending
<1> HIDE DEF cs
<1>3. PICK f \in [0..n -> Seq(Seq(Part))] :
        /\ f[0] = <<>> /\ open = f[n]
        /\ \A i \in 1..n : f[i] = AddOpen(f[i - 1], cs[i])
  BY <1>1, Opening
<1> HIDE DEF n, open
<1> DEFINE T == {i \in 0..n : /\ \A k \in DOMAIN f[i] : Good(f[i][k])
                              /\ f[i] = <<>> => \A k \in 1..i : cs[k] \in ckpt.batches}
<1>4. 0 \in T
  BY <1>1, <1>3
<1>5. ASSUME NEW i \in 1..n, i - 1 \in T PROVE i \in T
  <2>1. f[i - 1] \in Seq(Seq(Part)) /\ i \in 0..n /\ i - 1 \in 0..n
    BY <1>1, <1>3
  <2>2. \A k \in DOMAIN f[i - 1] : Good(f[i - 1][k])
    BY <1>5
  <2>3. f[i - 1] = <<>> => \A k \in 1..(i - 1) : cs[k] \in ckpt.batches
    BY <1>5
  <2>4. CASE cs[i] \in ckpt.batches
    <3>1. f[i] = f[i - 1]
      BY <1>3, <2>4 DEF AddOpen, Key
    <3>2. \A k \in 1..i : k \in 1..(i - 1) \/ k = i
      BY <2>1
    <3> QED
      BY <2>1, <2>2, <2>3, <2>4, <3>1, <3>2
  <2>5. CASE cs[i] \notin ckpt.batches
    <3>1. f[i] = Append(f[i - 1], cs[i])
      BY <1>3, <2>5 DEF AddOpen, Key
    <3> DEFINE a == f[i - 1]
               x == Len(a)
    <3>2. /\ x \in Nat /\ DOMAIN a = 1..x /\ DOMAIN f[i] = 1..(x + 1)
          /\ f[i][x + 1] = cs[i] /\ f[i] # <<>>
          /\ \A k \in 1..x : f[i][k] = a[k]
      <4>1. a \in Seq(Seq(Part)) /\ cs[i] \in Seq(Part) /\ f[i] = Append(a, cs[i])
        BY <1>1, <2>1, <3>1
      <4> HIDE DEF a
      <4> QED
        BY <4>1, Appended
    <3> HIDE DEF a, x
    <3>3. \A k \in 1..(x + 1) : k \in 1..x \/ k = x + 1
      BY <3>2
    <3>4. \A k \in DOMAIN f[i] : Good(f[i][k])
      BY <1>1, <2>2, <3>2, <3>3 DEF a
    <3> QED
      BY <2>1, <3>2, <3>4
  <2> QED
    BY <2>4, <2>5
<1>6. n \in T
  <2>1. n \in 0..n
    BY <1>1
  <2> HIDE DEF T
  <2> QED
    BY <1>1, <1>4, <1>5, <2>1, Count
<1>7. open \in Seq(Seq(Part)) /\ \A k \in DOMAIN open : Good(open[k])
  BY <1>1, <1>3, <1>6
<1>8. open = <<>> => \A k \in DOMAIN cs : cs[k] \in ckpt.batches
  BY <1>1, <1>3, <1>6
<1>9. CASE open = <<>> /\ ~ckpt.validated
  <2>1. Pending(h) = <<<<>>>> /\ <<>> \in Seq(Part)
    BY <1>2, <1>9
  <2>2. DOMAIN Pending(h) = {1} /\ Pending(h)[1] = <<>> /\ Pending(h) # <<>> /\ Pending(h) \in Seq(Seq(Part))
    BY <2>1
  <2> QED
    BY <2>2, GoodNothing
<1>10. CASE ~(open = <<>> /\ ~ckpt.validated)
  <2>1. Pending(h) = open
    BY <1>2, <1>10
  <2> QED
    BY <2>1, <1>7, <1>8, <1>10 DEF cs
<1> QED
  BY <1>9, <1>10

\* If all chunks have a checkpoint and the text of those was compared, so was
\* every rune of the history.
LEMMA RunesOfHistory ==
  ASSUME NEW h \in Histories, NEW B, NEW C,
         \A k \in DOMAIN ReviewChunks(h) : ReviewChunks(h)[k] \in B,
         \A c \in B : Text(c, Numbers(c)) \subseteq C
  PROVE  \A k \in DOMAIN h : \A r \in 0..h[k].size :
           [number |-> h[k].number, version |-> h[k].version, rune |-> r] \in C
<1> SUFFICES ASSUME NEW k \in DOMAIN h, NEW r \in 0..h[k].size
             PROVE [number |-> h[k].number, version |-> h[k].version, rune |-> r] \in C
  OBVIOUS
<1>1. PICK j \in DOMAIN Parts(h) :
        /\ Parts(h)[j].number = h[k].number /\ Parts(h)[j].version = h[k].version
        /\ Speaks(Parts(h)[j], r)
  BY PartsOfHistory
<1>2. PICK i \in DOMAIN ReviewChunks(h) : \E l \in DOMAIN ReviewChunks(h)[i] :
        ReviewChunks(h)[i][l] = Parts(h)[j]
  BY ChunksOfHistory
<1> DEFINE c == ReviewChunks(h)[i]
           p == Parts(h)[j]
<1>3. c \in B /\ Text(c, Numbers(c)) \subseteq C
  OBVIOUS
<1>4. p \in Part /\ p.from \in Nat /\ p.to \in Nat
  <2>1. Parts(h) \in Seq(Part)
    BY PartsOfHistory
  <2>2. p \in Part
    BY <2>1
  <2> HIDE DEF p
  <2> QED
    BY <2>2 DEF Part
<1>5. r \in Int
  <2>1. h \in Seq(Issue)
    BY ReviewAssumption
  <2>2. h[k] \in Issue
    BY <2>1
  <2>3. h[k].size \in Nat
    BY <2>2 DEF Issue
  <2> QED
    BY <2>3
<1> HIDE DEF c, p
<1>6. p \in ToSet(c) /\ p.number \in Numbers(c)
  BY <1>2 DEF c, p, ToSet, Numbers
<1>7. r \in {0} \union (p.from + 1)..p.to
  BY <1>1, <1>4, <1>5 DEF p, Speaks
<1>8. [number |-> p.number, version |-> p.version, rune |-> r] \in Text(c, Numbers(c))
  BY <1>6, <1>7 DEF Text
<1> QED
  BY <1>1, <1>3, <1>8 DEF p

-----------------------------------------------------------------------------
(* The invariant is established and preserved *)

\* The invariant holds at first.
LEMMA BatchesStart == Init => BatchesInv
<1> SUFFICES ASSUME Init PROVE BatchesInv
  OBVIOUS
<1>1. SessionInv
  <2>1. 0 \in 0..MaxEdits /\ 0 \in 0..(Handshakes + 1)
    BY ReviewAssumption
  <2>2. reply \in [kind : {"none", "setup", "failed"}]
    BY DEF Init
  <2>3. /\ {ckpt.validated, saved.validated, recovering} \subseteq BOOLEAN
        /\ saved.batches \subseteq ckpt.batches
    BY DEF Init, NoCheckpoint
  <2>4. TypeOK
    BY <2>1, <2>2, <2>3 DEF Init, TypeOK
  <2> QED
    BY <2>4 DEF Init, SessionInv
<1>2. WellBatched
  BY DEF Init, WellBatched, ToSet
<1>3. PromptsCounted
  BY DEF Init, PromptsCounted
<1>4. AnswerOfChunk
  BY DEF Init, AnswerOfChunk
<1>5. AttestedCompared /\ ListAttested
  BY DEF Init, AttestedCompared, ListAttested, NoCheckpoint
<1> QED
  BY <1>1, <1>2, <1>3, <1>4, <1>5 DEF BatchesInv

\* What rests on the lists and the checkpoint stays with them.
LEMMA ListsStay ==
  ASSUME BatchesInv, UNCHANGED <<review, checkpoint, compared>>, pc' # "publish" \/ pc = "publish"
  PROVE  /\ WellBatched' /\ AttestedCompared' /\ ListAttested'
         /\ (todo \in Seq(Seq(Part)))' /\ (saved.batches \subseteq ckpt.batches)'
         /\ ({ckpt.validated, saved.validated} \subseteq BOOLEAN)'
<1>0. snap' = snap /\ todo' = todo /\ ckpt' = ckpt /\ saved' = saved /\ compared' = compared
  BY DEF review, checkpoint
<1>1. WellBatched'
  BY <1>0 DEF BatchesInv, WellBatched
<1>2. AttestedCompared'
  BY <1>0 DEF BatchesInv, AttestedCompared
<1>3. ListAttested'
  BY <1>0 DEF BatchesInv, ListAttested
<1>4. (todo \in Seq(Seq(Part)))'
  BY <1>0 DEF BatchesInv, AnswerOfChunk
<1>5. (saved.batches \subseteq ckpt.batches)' /\ ({ckpt.validated, saved.validated} \subseteq BOOLEAN)'
  BY <1>0 DEF BatchesInv, SessionInv, TypeOK
<1> QED
  BY <1>1, <1>2, <1>3, <1>4, <1>5

\* An answer of the agent is no outcome of the program's own.
LEMMA AnswerKinds ==
  \A a \in Answers : a.kind \notin {"none", "setup", "failed"}
  BY DEF Answers

\* Handshakes, prompts, answers and failures of the agent count the prompts.
LEMMA SessionSteps == BatchesInv /\ Session => BatchesInv'
<1> SUFFICES ASSUME BatchesInv, Session PROVE BatchesInv'
  OBVIOUS
<1>0. /\ SessionInv /\ PromptsCounted /\ AnswerOfChunk /\ TypeOK
      /\ Handshakes \in Nat \ {0, 1}
  BY ReviewAssumption DEF BatchesInv, SessionInv
<1> USE DEF SessionInv, TypeOK, PromptsCounted, AnswerOfChunk, tracker, session
<1>1. CASE CannotLaunch
  <2>0. UNCHANGED <<review, checkpoint, compared>> /\ pc' # "publish" /\ todo' = todo
    BY <1>1 DEF CannotLaunch, review
  <2>1. SessionInv' /\ PromptsCounted' /\ AnswerOfChunk'
    BY <1>0, <1>1, <2>0, ListsStay DEF CannotLaunch
  <2> QED
    BY <2>0, <2>1, ListsStay DEF BatchesInv
<1>2. CASE Launch
  <2>0. UNCHANGED <<review, checkpoint, compared>> /\ pc' # "publish" /\ todo' = todo
    BY <1>2 DEF Launch, review
  <2>1. SessionInv' /\ PromptsCounted' /\ AnswerOfChunk'
    BY <1>0, <1>2, <2>0, ListsStay DEF Launch
  <2> QED
    BY <2>0, <2>1, ListsStay DEF BatchesInv
<1>3. CASE Handshake
  <2>0. UNCHANGED <<review, checkpoint, compared>> /\ pc' # "publish" /\ todo' = todo
    BY <1>3 DEF Handshake, Talking, review
  <2>1. SessionInv' /\ PromptsCounted' /\ AnswerOfChunk'
    BY <1>0, <1>3, <2>0, ListsStay DEF Handshake, Talking
  <2> QED
    BY <2>0, <2>1, ListsStay DEF BatchesInv
<1>4. CASE Prompt
  <2>0. UNCHANGED <<review, checkpoint, compared>> /\ pc' # "publish" /\ todo' = todo
    BY <1>4 DEF Prompt, Talking, review
  <2>1. SessionInv' /\ PromptsCounted' /\ AnswerOfChunk'
    BY <1>0, <1>4, <2>0, ListsStay DEF Prompt, Talking
  <2> QED
    BY <2>0, <2>1, ListsStay DEF BatchesInv
<1>5. CASE Answer
  <2>0. UNCHANGED <<review, checkpoint, compared>> /\ pc' # "publish" /\ todo' = todo
    BY <1>5 DEF Answer, review
  <2>1. SessionInv' /\ PromptsCounted' /\ AnswerOfChunk'
    BY <1>0, <1>5, <2>0, ListsStay, AnswerKinds DEF Answer, Talking
  <2> QED
    BY <2>0, <2>1, ListsStay DEF BatchesInv
<1>6. CASE AgentDies
  <2>0. UNCHANGED <<review, checkpoint, compared>> /\ pc' # "publish" /\ todo' = todo
    BY <1>6 DEF AgentDies, Talking, review
  <2>1. SessionInv' /\ PromptsCounted' /\ AnswerOfChunk'
    BY <1>0, <1>6, <2>0, ListsStay DEF AgentDies, Talking
  <2> QED
    BY <2>0, <2>1, ListsStay DEF BatchesInv
<1>7. CASE SessionFails
  <2>0. UNCHANGED <<review, checkpoint, compared>> /\ pc' # "publish" /\ todo' = todo
    BY <1>7 DEF SessionFails, review
  <2>1. SessionInv' /\ PromptsCounted' /\ AnswerOfChunk'
    BY <1>0, <1>7, <2>0, ListsStay DEF SessionFails
  <2> QED
    BY <2>0, <2>1, ListsStay DEF BatchesInv
<1>8. CASE Close
  <2>0. UNCHANGED <<review, checkpoint, compared>> /\ pc' # "publish" /\ todo' = todo
    BY <1>8 DEF Close, review
  <2>1. SessionInv' /\ PromptsCounted' /\ AnswerOfChunk'
    BY <1>0, <1>8, <2>0, ListsStay DEF Close
  <2> QED
    BY <2>0, <2>1, ListsStay DEF BatchesInv
<1> QED
  BY <1>1, <1>2, <1>3, <1>4, <1>5, <1>6, <1>7, <1>8 DEF Session

\* A step that leaves the prompts of a chunk behind.
LEMMA SessionAnew ==
  ASSUME TypeOK, history' = history, edits' = edits, pc' \in {"idle", "refresh", "execute", "publish"},
         pass' = 0, recovering' = FALSE, asked' = 0, agent' = "none", phase' \in {0, phase},
         reply' = reply \/ \E k \in {"none", "setup", "failed"} : reply' = [kind |-> k],
         saved'.batches \subseteq ckpt'.batches,
         {ckpt'.validated, saved'.validated} \subseteq BOOLEAN
  PROVE  SessionInv'
<1>1. 0 \in 0..(Handshakes + 1) /\ phase' \in 0..(Handshakes + 1)
  BY ReviewAssumption DEF TypeOK
<1>2. reply' \in Answers \union [kind : {"none", "setup", "failed"}]
  BY DEF TypeOK
<1>3. history' \in Histories /\ edits' \in 0..MaxEdits /\ 0 \in 0..1
  BY DEF TypeOK
<1>4. TypeOK'
  BY <1>1, <1>2, <1>3 DEF TypeOK
<1> QED
  BY <1>4 DEF SessionInv

\* An attempt that fails outside of a session leaves the checkpoints.
LEMMA FailsIs ==
  ASSUME NEW k \in {"none", "setup", "failed"}, BatchesInv, Fails(k),
         history' = history, edits' = edits, phase' = phase, agent' = agent, pc \notin {"session", "closing"},
         AttestedCompared', saved'.batches \subseteq ckpt'.batches,
         {ckpt'.validated, saved'.validated} \subseteq BOOLEAN
  PROVE  BatchesInv'
<1>1. /\ pc' = "idle" /\ reply' = [kind |-> k] /\ todo' = <<>>
      /\ pass' = 0 /\ recovering' = FALSE /\ asked' = 0
  BY DEF Fails
<1>2. SessionInv'
  <2>1. TypeOK /\ agent' = "none"
    BY DEF BatchesInv, SessionInv
  <2> QED
    BY <1>1, <2>1, SessionAnew
<1>3. WellBatched' /\ PromptsCounted' /\ AnswerOfChunk' /\ ListAttested'
  BY <1>1 DEF WellBatched, ToSet, PromptsCounted, AnswerOfChunk, ListAttested
<1> QED
  BY <1>2, <1>3 DEF BatchesInv

\* What the checkpoints attest stays while they do.
LEMMA CheckpointStays ==
  ASSUME BatchesInv, UNCHANGED <<checkpoint, compared>>
  PROVE  /\ AttestedCompared' /\ saved'.batches \subseteq ckpt'.batches
         /\ {ckpt'.validated, saved'.validated} \subseteq BOOLEAN
<1>0. ckpt' = ckpt /\ saved' = saved /\ compared' = compared
  BY DEF checkpoint
<1>1. AttestedCompared'
  BY <1>0 DEF BatchesInv, AttestedCompared
<1> QED
  BY <1>0, <1>1 DEF BatchesInv, SessionInv, TypeOK

\* Good chunks make a list that is WellBatched.
LEMMA GoodBatches ==
  ASSUME NEW s \in Seq(Seq(Part)), \A k \in DOMAIN s : Good(s[k])
  PROVE  \A c \in ToSet(s) : /\ Len(c) <= MaxParts /\ Cardinality(Numbers(c)) = Len(c)
                             /\ Len(c) > 1 => Load(c) <= Limit
<1> SUFFICES ASSUME NEW c \in ToSet(s)
             PROVE /\ Len(c) <= MaxParts /\ Cardinality(Numbers(c)) = Len(c)
                   /\ Len(c) > 1 => Load(c) <= Limit
  OBVIOUS
<1>1. Good(c)
  BY DEF ToSet
<1> QED
  BY <1>1, GoodCounts DEF Good

\* Reading the list: its chunks are good, and nothing left means all attested.
LEMMA RefreshStep == BatchesInv /\ Refresh => BatchesInv'
<1> SUFFICES ASSUME BatchesInv, Refresh PROVE BatchesInv'
  OBVIOUS
<1>1. /\ snap' = history /\ todo' = Pending(history) /\ history \in Histories
      /\ pc' = IF todo' = <<>> THEN "publish" ELSE "execute"
      /\ pass' = 0 /\ recovering' = FALSE /\ asked' = 0 /\ pc = "refresh"
      /\ UNCHANGED <<history, edits, ckpt, saved, phase, agent, reply, compared>>
  BY DEF Refresh, BatchesInv, SessionInv, TypeOK, tracker, checkpoint, session
<1>2. /\ todo' \in Seq(Seq(Part)) /\ \A k \in DOMAIN todo' : Good(todo'[k])
      /\ todo' = <<>> => ckpt.validated
           /\ \A k \in DOMAIN ReviewChunks(history) : ReviewChunks(history)[k] \in ckpt.batches
  BY <1>1, PendingOf
<1>3. SessionInv'
  <2>1. TypeOK /\ agent = "none"
    BY <1>1 DEF BatchesInv, SessionInv
  <2>2. saved'.batches \subseteq ckpt'.batches /\ {ckpt'.validated, saved'.validated} \subseteq BOOLEAN
    BY <1>1, <2>1 DEF TypeOK
  <2> QED
    BY <1>1, <2>1, <2>2, SessionAnew
<1>4. WellBatched'
  BY <1>2, GoodBatches DEF WellBatched
<1>5. PromptsCounted' /\ AnswerOfChunk'
  BY <1>1, <1>2 DEF PromptsCounted, AnswerOfChunk
<1>6. AttestedCompared'
  BY <1>1 DEF BatchesInv, AttestedCompared
<1>7. ListAttested'
  <2> SUFFICES ASSUME pc' = "publish"
               PROVE snap' \in Histories /\ ckpt'.validated /\ ToSet(ReviewChunks(snap')) \subseteq ckpt'.batches
    BY DEF ListAttested
  <2>1. todo' = <<>>
    BY <1>1
  <2>2. ToSet(ReviewChunks(history)) \subseteq ckpt.batches
    BY <1>2, <2>1 DEF ToSet
  <2> QED
    BY <1>1, <1>2, <2>1, <2>2
<1> QED
  BY <1>3, <1>4, <1>5, <1>6, <1>7 DEF BatchesInv

\* A receipt that is accepted names the chunk's numbers.
LEMMA AcceptedCovers ==
  ASSUME NEW a \in Answers, NEW c, Parsed(a, c) = "ok"
  PROVE  a.kind = "receipt" /\ ToSet(a.checked) = Numbers(c)
<1>1. a.kind \in {"unmarked", "malformed", "receipt"}
  BY DEF Answers
<1>2. a.kind # "unmarked" /\ a.kind # "malformed"
  BY DEF Parsed
<1> QED
  BY <1>1, <1>2 DEF Parsed, Covers

\* A checkpoint is made of the answer that covers the chunk.
LEMMA AttestStep == BatchesInv /\ Attest => BatchesInv'
<1> SUFFICES ASSUME BatchesInv, Attest PROVE BatchesInv'
  OBVIOUS
<1>0. SessionInv /\ TypeOK /\ WellBatched /\ PromptsCounted /\ AnswerOfChunk /\ AttestedCompared
  BY DEF BatchesInv, SessionInv
<1>1. /\ pc = "verify" /\ todo \in Seq(Seq(Part)) /\ todo # <<>>
      /\ reply \in Answers /\ Parsed(reply, Chunk) = "ok"
      /\ ckpt' = [validated |-> TRUE, batches |-> ckpt.batches \union {Chunk}]
      /\ compared' = compared \union Text(Chunk, ToSet(reply.checked))
      /\ UNCHANGED <<history, edits, phase, agent>>
  BY <1>0 DEF Attest, AnswerOfChunk, Key, tracker, session
<1>2. AttestedCompared'
  <2>1. ToSet(reply.checked) = Numbers(Chunk)
    BY <1>1, AcceptedCovers
  <2>2. \A c \in ckpt.batches : Text(c, Numbers(c)) \subseteq compared'
    BY <1>0, <1>1 DEF AttestedCompared
  <2>3. Text(Chunk, Numbers(Chunk)) \subseteq compared'
    BY <1>1, <2>1
  <2>4. ckpt'.batches = ckpt.batches \union {Chunk}
    BY <1>1
  <2> QED
    BY <2>2, <2>3, <2>4 DEF AttestedCompared
<1>3. ckpt'.validated = TRUE /\ ckpt.batches \subseteq ckpt'.batches
  BY <1>1
<1>4. CASE saved' \in {saved, ckpt'} /\ Fails("failed")
  <2>1. saved'.batches \subseteq ckpt'.batches /\ {ckpt'.validated, saved'.validated} \subseteq BOOLEAN
    BY <1>0, <1>3, <1>4 DEF TypeOK
  <2> QED
    BY <1>1, <1>2, <1>4, <2>1, FailsIs
<1>5. CASE /\ saved' = ckpt'
           /\ todo' = Tail(todo)
           /\ pc' = IF todo' = <<>> THEN "refresh" ELSE "execute"
           /\ pass' = 0 /\ recovering' = FALSE /\ asked' = 0
           /\ reply' = [kind |-> "none"]
           /\ UNCHANGED snap
  <2>1. todo' \in Seq(Seq(Part)) /\ ToSet(todo') \subseteq ToSet(todo)
    <3>1. /\ Tail(todo) \in Seq(Seq(Part)) /\ Len(Tail(todo)) = Len(todo) - 1 /\ Len(todo) \in Nat
          /\ DOMAIN Tail(todo) = 1..Len(Tail(todo)) /\ DOMAIN todo = 1..Len(todo)
          /\ \A i \in 1..Len(Tail(todo)) : Tail(todo)[i] = todo[i + 1]
      BY <1>1
    <3>2. \A i \in DOMAIN Tail(todo) : i + 1 \in DOMAIN todo
      BY <3>1
    <3> QED
      BY <1>5, <3>1, <3>2 DEF ToSet
  <2>2. WellBatched'
    BY <1>0, <2>1 DEF WellBatched
  <2>3. SessionInv'
    <3>1. agent' = "none" /\ {ckpt'.validated, saved'.validated} \subseteq BOOLEAN
      BY <1>0, <1>1, <1>3, <1>5 DEF SessionInv
    <3> QED
      BY <1>0, <1>1, <1>5, <3>1, SessionAnew
  <2>4. PromptsCounted' /\ AnswerOfChunk'
    BY <1>5, <2>1 DEF PromptsCounted, AnswerOfChunk
  <2>5. ListAttested'
    BY <1>5 DEF ListAttested
  <2> QED
    BY <1>2, <2>2, <2>3, <2>4, <2>5 DEF BatchesInv
<1> QED
  BY <1>4, <1>5 DEF Attest

\* The other steps of an attempt.
LEMMA AttemptSteps == BatchesInv /\ Attempt => BatchesInv'
<1> SUFFICES ASSUME BatchesInv, Attempt PROVE BatchesInv'
  OBVIOUS
<1>0. /\ SessionInv /\ PromptsCounted /\ AnswerOfChunk /\ TypeOK
  BY DEF BatchesInv, SessionInv
<1>1. CASE Resume
  <2>0. UNCHANGED <<review, checkpoint, compared>> /\ pc' # "publish" /\ todo' = todo
    BY <1>1 DEF Resume, review
  <2>1. SessionInv' /\ PromptsCounted' /\ AnswerOfChunk'
    BY <1>0, <1>1, <2>0, ListsStay
       DEF Resume, SessionInv, TypeOK, PromptsCounted, AnswerOfChunk, tracker, session
  <2> QED
    BY <2>0, <2>1, ListsStay DEF BatchesInv
<1>2. CASE Refresh
  BY <1>2, RefreshStep
<1>3. CASE ExecuteFails
  BY <1>3, CheckpointStays, FailsIs DEF ExecuteFails, tracker, session
<1>4. CASE Recover
  <2>0. UNCHANGED <<review, checkpoint, compared>> /\ pc' # "publish" /\ todo' = todo
    BY <1>4 DEF Recover, review
  <2>1. SessionInv' /\ PromptsCounted' /\ AnswerOfChunk'
    BY <1>0, <1>4, <2>0, ListsStay
       DEF Recover, Returned, SessionInv, TypeOK, PromptsCounted, AnswerOfChunk, tracker, session
  <2> QED
    BY <2>0, <2>1, ListsStay DEF BatchesInv
<1>5. CASE Correct
  <2>0. UNCHANGED <<review, checkpoint, compared>> /\ pc' # "publish" /\ todo' = todo
    BY <1>5 DEF Correct, review
  <2>1. SessionInv' /\ PromptsCounted' /\ AnswerOfChunk'
    BY <1>0, <1>5, <2>0, ListsStay
       DEF Correct, Returned, SessionInv, TypeOK, PromptsCounted, AnswerOfChunk, tracker, session
  <2> QED
    BY <2>0, <2>1, ListsStay DEF BatchesInv
<1>6. CASE ReceiptFails
  BY <1>6, CheckpointStays, FailsIs DEF ReceiptFails, Returned, tracker, session
<1>7. CASE Accept
  <2>0. UNCHANGED <<review, checkpoint, compared>> /\ pc' # "publish" /\ todo' = todo /\ reply' = reply
    BY <1>7 DEF Accept, review
  <2>1. reply \in Answers /\ Parsed(reply, Chunk) = "ok"
    BY <1>0, <1>7 DEF Accept, Returned, TypeOK, AnswerOfChunk
  <2>2. (Parsed(reply, Chunk) = "ok")'
    BY <2>0, <2>1 DEF Chunk
  <2>3. SessionInv' /\ PromptsCounted'
    BY <1>0, <1>7, <2>0, ListsStay
       DEF Accept, Returned, SessionInv, TypeOK, PromptsCounted, tracker, session
  <2>4. AnswerOfChunk'
    BY <1>0, <1>7, <2>0, <2>1, <2>2 DEF Accept, Returned, AnswerOfChunk
  <2> QED
    BY <2>0, <2>3, <2>4, ListsStay DEF BatchesInv
<1>8. CASE WorkspaceFails
  BY <1>8, CheckpointStays, FailsIs DEF WorkspaceFails, tracker, session
<1>9. CASE Attest
  BY <1>9, AttestStep
<1>10. CASE Reread
  <2>0. UNCHANGED <<review, checkpoint, compared>> /\ pc' # "publish" /\ todo' = todo
    BY <1>10 DEF Reread, review
  <2>1. SessionInv' /\ PromptsCounted' /\ AnswerOfChunk'
    BY <1>0, <1>10, <2>0, ListsStay
       DEF Reread, SessionInv, TypeOK, PromptsCounted, AnswerOfChunk, tracker, session
  <2> QED
    BY <2>0, <2>1, ListsStay DEF BatchesInv
<1>11. CASE NextCandidate
  <2>1. AttestedCompared' /\ saved'.batches \subseteq ckpt'.batches
        /\ {ckpt'.validated, saved'.validated} \subseteq BOOLEAN
    BY <1>11 DEF NextCandidate, NoCheckpoint, AttestedCompared
  <2> QED
    BY <1>11, <2>1, FailsIs DEF NextCandidate, tracker, session
<1> QED
  BY <1>1, <1>2, <1>3, <1>4, <1>5, <1>6, <1>7, <1>8, <1>9, <1>10, <1>11 DEF Attempt

\* A restart has the checkpoints of state.json, which are some of those in memory.
LEMMA CrashStep == BatchesInv /\ Crash => BatchesInv'
<1> SUFFICES ASSUME BatchesInv, Crash PROVE BatchesInv'
  OBVIOUS
<1>0. SessionInv /\ TypeOK /\ AttestedCompared /\ Handshakes \in Nat
  BY ReviewAssumption DEF BatchesInv, SessionInv
<1>1. /\ pc' = "idle" /\ reply' = [kind |-> "none"] /\ todo' = <<>>
      /\ pass' = 0 /\ recovering' = FALSE /\ asked' = 0
      /\ ckpt' = saved /\ saved' = saved /\ phase' = 0 /\ agent' = "none"
      /\ UNCHANGED <<history, edits, compared>>
  BY DEF Crash, Fails, tracker
<1>2. SessionInv'
  <2>1. saved'.batches \subseteq ckpt'.batches /\ {ckpt'.validated, saved'.validated} \subseteq BOOLEAN
    BY <1>0, <1>1 DEF TypeOK
  <2> QED
    BY <1>0, <1>1, <2>1, SessionAnew
<1>3. WellBatched' /\ PromptsCounted' /\ AnswerOfChunk' /\ ListAttested'
  BY <1>1 DEF WellBatched, ToSet, PromptsCounted, AnswerOfChunk, ListAttested
<1>4. AttestedCompared'
  BY <1>0, <1>1 DEF AttestedCompared, TypeOK
<1> QED
  BY <1>2, <1>3, <1>4 DEF BatchesInv

\* An edit changes the tracker only: the list being reviewed stays as it was read.
LEMMA EditStep == BatchesInv /\ Edit => BatchesInv'
<1> SUFFICES ASSUME BatchesInv, Edit PROVE BatchesInv'
  OBVIOUS
<1>0. SessionInv /\ PromptsCounted /\ AnswerOfChunk /\ TypeOK /\ MaxEdits \in Nat
  BY ReviewAssumption DEF BatchesInv, SessionInv
<1>1. /\ UNCHANGED <<review, checkpoint, compared>> /\ pc' = pc /\ todo' = todo /\ reply' = reply
  BY DEF Edit, review
<1>2. SessionInv' /\ PromptsCounted' /\ AnswerOfChunk'
  BY <1>0, <1>1, ListsStay
     DEF Edit, SessionInv, TypeOK, PromptsCounted, AnswerOfChunk, Chunk, session
<1> QED
  BY <1>1, <1>2, ListsStay DEF BatchesInv

\* Every step keeps the invariant.
LEMMA BatchesNext == BatchesInv /\ [Next]_vars => BatchesInv'
<1> SUFFICES ASSUME BatchesInv, [Next]_vars PROVE BatchesInv'
  OBVIOUS
<1>1. CASE UNCHANGED vars
  <2>1. UNCHANGED <<history, edits, pc, snap, todo, ckpt, saved, pass, recovering, phase, agent, reply, asked, compared>>
    BY <1>1 DEF vars, tracker, review, checkpoint, session
  <2>2. UNCHANGED <<review, checkpoint, compared>> /\ pc' = pc
    BY <2>1 DEF review, checkpoint
  <2>3. SessionInv' /\ PromptsCounted' /\ AnswerOfChunk'
    BY <2>1 DEF BatchesInv, SessionInv, TypeOK, PromptsCounted, AnswerOfChunk, Chunk
  <2> QED
    BY <2>2, <2>3, ListsStay DEF BatchesInv
<1> QED
  BY <1>1, SessionSteps, AttemptSteps, CrashStep, EditStep DEF Next

\* The invariant of a candidate's review (runner.process, run.go): its prompts
\* are counted by passes, an accepted answer covers its chunk, and what the
\* checkpoints attest was compared.
THEOREM BatchesCorrect == Spec => []BatchesInv
  BY BatchesStart, BatchesNext, PTL DEF Spec

\* While an answer is judged and the workspace verified no process of the agent is
\* left, and recovery (agent.go:78) and correction (run.go:506) together never
\* prompt for a chunk more than three times.
THEOREM SessionInvCorrect == Spec => []SessionInv
<1>1. BatchesInv => SessionInv
  BY DEF BatchesInv
<1> QED
  BY <1>1, BatchesCorrect, PTL

\* Whatever the history, a chunk that reviewChunks makes of it is small enough,
\* or one part alone, and has no issue twice.
THEOREM WellBatchedCorrect == Spec => []WellBatched
<1>1. BatchesInv => WellBatched
  BY DEF BatchesInv
<1> QED
  BY <1>1, BatchesCorrect, PTL

\* A candidate that comes to be published was compared with every rune of every
\* issue of the list that was read, in however many chunks, attempts and crashes.
THEOREM EveryRuneComparedCorrect == Spec => []EveryRuneCompared
<1>1. BatchesInv => EveryRuneCompared
  <2> SUFFICES ASSUME BatchesInv, pc = "publish"
               PROVE /\ ckpt.validated
                     /\ \A k \in DOMAIN snap : \A r \in 0..snap[k].size :
                          [number |-> snap[k].number, version |-> snap[k].version, rune |-> r] \in compared
    BY DEF EveryRuneCompared
  <2>1. snap \in Histories /\ ckpt.validated /\ ToSet(ReviewChunks(snap)) \subseteq ckpt.batches
    BY DEF BatchesInv, ListAttested
  <2>2. \A k \in DOMAIN ReviewChunks(snap) : ReviewChunks(snap)[k] \in ckpt.batches
    BY <2>1 DEF ToSet
  <2>3. \A c \in ckpt.batches : Text(c, Numbers(c)) \subseteq compared
    BY DEF BatchesInv, AttestedCompared
  <2> QED
    BY <2>1, <2>2, <2>3, RunesOfHistory
<1> QED
  BY <1>1, BatchesCorrect, PTL

=============================================================================
