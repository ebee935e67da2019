---------------------------- MODULE MatcherProofs ----------------------------
(***************************************************************************)
(* Theorems about Matcher, for every plan whose compile tree makes sense,  *)
(* any shards, slices and rows, and whatever is ingested or deleted while  *)
(* a query runs: the interpreter keeps to its stacks and to the rows it    *)
(* was given (AlwaysSound), and its results are places of the index, in    *)
(* order and none of them twice (ResultsArePlaces, ResultsInOrder).        *)
(*                                                                         *)
(* The code is generated before anything runs, so what holds at a place of *)
(* it is fixed: each place has a note, with the rank, the offset relative  *)
(* to where its level started, and the slots on the value stack.  By       *)
(* induction on the height of trees, every tree compiles to code with      *)
(* right notes (TreesCompile).  At run time the notes of the place and of  *)
(* the return addresses describe a stack of frames, of which the registers *)
(* are the top (MachineInv).                                               *)
(*                                                                         *)
(* First the arithmetic of powers of two, and induction on numbers.        *)
(***************************************************************************)
EXTENDS Matcher, WellFoundedInduction, SequenceTheorems, FiniteSetTheorems, TLAPS

(* A set of numbers with 0 that is closed under + 1 has them all.          *)
LEMMA Induction ==
  ASSUME NEW S, 0 \in S, \A n \in Nat : n \in S => n + 1 \in S
  PROVE  \A n \in Nat : n \in S
<1> DEFINE T == Nat \ S
<1>1. SUFFICES ASSUME T # {} PROVE FALSE
  OBVIOUS
<1>2. PICK x \in T : \A y \in T : <<y, x>> \notin OpToRel(<, Nat)
  <2> HIDE DEF T
  <2>1. T \subseteq Nat
    BY DEF T
  <2>2. QED
    BY <2>1, <1>1, NatLessThanWellFounded, WFMin
<1>3. x \in Nat /\ x # 0
  OBVIOUS
<1>4. x - 1 \in Nat /\ <<x - 1, x>> \in OpToRel(<, Nat)
  BY <1>3 DEF OpToRel
<1>5. x - 1 \in S
  BY <1>2, <1>4
<1>6. (x - 1) + 1 \in S
  BY <1>4, <1>5
<1>7. QED
  BY <1>3, <1>6

Doubling(g, n) ==
  g = [k \in 0 .. n |-> IF k = 0 THEN 1 ELSE 2 * g[k - 1]]

LEMMA DoublingExists == \A n \in Nat : \E g : Doubling(g, n)
<1> DEFINE S == {n \in Nat : \E g : Doubling(g, n)}
<1>1. 0 \in S
  <2>1. Doubling([k \in 0 .. 0 |-> 1], 0)
    BY DEF Doubling
  <2>2. QED
    BY <2>1
<1>2. ASSUME NEW n \in Nat, n \in S PROVE n + 1 \in S
  <2>1. PICK g : Doubling(g, n)
    BY <1>2
  <2> DEFINE h == [k \in 0 .. n + 1 |-> IF k = n + 1 THEN 2 * g[n] ELSE g[k]]
  <2>2. ASSUME NEW k \in 0 .. n + 1
        PROVE  h[k] = IF k = 0 THEN 1 ELSE 2 * h[k - 1]
    <3>1. CASE k = n + 1
      <4>1. h[k - 1] = g[n] /\ k # 0 /\ k = n + 1
        BY <3>1
      <4>2. QED
        BY <4>1
    <3>2. CASE k \in 0 .. n
      <4>1. h[k] = g[k] /\ (k # 0 => h[k - 1] = g[k - 1])
        BY <3>2
      <4>2. QED
        BY <2>1, <3>2, <4>1 DEF Doubling
    <3>3. QED
      BY <3>1, <3>2
  <2>3. Doubling(h, n + 1)
    BY <2>2 DEF Doubling
  <2>4. QED
    BY <2>3
<1>3. QED
  <2> HIDE DEF S
  <2>1. \A n \in Nat : n \in S
    BY <1>1, <1>2, Induction
  <2>2. QED
    BY <2>1 DEF S

LEMMA DoublingUnique ==
  ASSUME NEW n \in Nat, NEW m \in Nat, n <= m, NEW g, NEW h, Doubling(g, n), Doubling(h, m)
  PROVE  g[n] = h[n]
<1> DEFINE S == {k \in Nat : k <= n => g[k] = h[k]}
<1>1. 0 \in S
  BY DEF Doubling
<1>2. ASSUME NEW k \in Nat, k \in S PROVE k + 1 \in S
  <2>1. SUFFICES ASSUME k + 1 <= n PROVE g[k + 1] = h[k + 1]
    OBVIOUS
  <2>2. k + 1 \in 0 .. n /\ k + 1 \in 0 .. m /\ k + 1 # 0 /\ (k + 1) - 1 = k /\ g[k] = h[k]
    BY <1>2, <2>1
  <2>3. g[k + 1] = 2 * g[k] /\ h[k + 1] = 2 * h[k]
    BY <2>2 DEF Doubling
  <2>4. QED
    BY <2>2, <2>3
<1>3. QED
  <2> HIDE DEF S
  <2>1. \A k \in Nat : k \in S
    BY <1>1, <1>2, Induction
  <2>2. QED
    BY <2>1 DEF S

LEMMA TwoToDef ==
  \A n \in Nat : TwoTo[n] = IF n = 0 THEN 1 ELSE 2 * TwoTo[n - 1]
<1> DEFINE At(n) == CHOOSE g : Doubling(g, n)
           G == [n \in Nat |-> At(n)[n]]
<1>1. \A n \in Nat : Doubling(At(n), n)
  BY DoublingExists, Zenon
<1> HIDE DEF At
<1>2. ASSUME NEW n \in Nat
      PROVE  G[n] = IF n = 0 THEN 1 ELSE 2 * G[n - 1]
  <2>1. At(n)[n] = IF n = 0 THEN 1 ELSE 2 * At(n)[n - 1]
    <3>1. PICK g : g = At(n)
      OBVIOUS
    <3>2. Doubling(g, n) /\ n \in 0 .. n
      BY <1>1, <3>1
    <3>3. g[n] = IF n = 0 THEN 1 ELSE 2 * g[n - 1]
      BY <3>2 DEF Doubling
    <3>4. QED
      BY <3>1, <3>3
  <2>2. n # 0 => n - 1 \in Nat /\ At(n - 1)[n - 1] = At(n)[n - 1]
    BY <1>1, DoublingUnique
  <2>3. QED
    BY <2>1, <2>2
<1>3. G = [n \in Nat |-> IF n = 0 THEN 1 ELSE 2 * G[n - 1]]
  BY <1>2
<1> HIDE DEF G
<1>4. TwoTo = [n \in Nat |-> IF n = 0 THEN 1 ELSE 2 * TwoTo[n - 1]]
  BY <1>3, Zenon DEF TwoTo
<1>5. QED
  BY <1>4

Growing(g, n) ==
  g = [k \in 0 .. n |-> IF k = 0 THEN {} ELSE Parents(g[k - 1])]

LEMMA GrowingExists == \A n \in Nat : \E g : Growing(g, n)
<1> DEFINE S == {n \in Nat : \E g : Growing(g, n)}
<1>1. 0 \in S
  <2>1. Growing([k \in 0 .. 0 |-> {}], 0)
    BY DEF Growing
  <2>2. QED
    BY <2>1
<1>2. ASSUME NEW n \in Nat, n \in S PROVE n + 1 \in S
  <2>1. PICK g : Growing(g, n)
    BY <1>2
  <2> DEFINE h == [k \in 0 .. n + 1 |-> IF k = n + 1 THEN Parents(g[n]) ELSE g[k]]
  <2>2. ASSUME NEW k \in 0 .. n + 1
        PROVE  h[k] = IF k = 0 THEN {} ELSE Parents(h[k - 1])
    <3>1. CASE k = n + 1
      <4>1. h[k - 1] = g[n] /\ k # 0 /\ k = n + 1
        BY <3>1
      <4>2. QED
        BY <4>1
    <3>2. CASE k \in 0 .. n
      <4>1. h[k] = g[k] /\ (k # 0 => h[k - 1] = g[k - 1])
        BY <3>2
      <4>2. QED
        BY <2>1, <3>2, <4>1 DEF Growing
    <3>3. QED
      BY <3>1, <3>2
  <2>3. Growing(h, n + 1)
    BY <2>2 DEF Growing
  <2>4. QED
    BY <2>3
<1>3. QED
  <2> HIDE DEF S
  <2>1. \A n \in Nat : n \in S
    BY <1>1, <1>2, Induction
  <2>2. QED
    BY <2>1 DEF S

LEMMA GrowingUnique ==
  ASSUME NEW n \in Nat, NEW m \in Nat, n <= m, NEW g, NEW h, Growing(g, n), Growing(h, m)
  PROVE  g[n] = h[n]
<1> DEFINE S == {k \in Nat : k <= n => g[k] = h[k]}
<1>1. 0 \in S
  BY DEF Growing
<1>2. ASSUME NEW k \in Nat, k \in S PROVE k + 1 \in S
  <2>1. SUFFICES ASSUME k + 1 <= n PROVE g[k + 1] = h[k + 1]
    OBVIOUS
  <2>2. k + 1 \in 0 .. n /\ k + 1 \in 0 .. m /\ k + 1 # 0 /\ (k + 1) - 1 = k /\ g[k] = h[k]
    BY <1>2, <2>1
  <2>3. g[k + 1] = Parents(g[k]) /\ h[k + 1] = Parents(h[k])
    BY <2>2 DEF Growing
  <2>4. QED
    BY <2>2, <2>3
<1>3. QED
  <2> HIDE DEF S
  <2>1. \A k \in Nat : k \in S
    BY <1>1, <1>2, Induction
  <2>2. QED
    BY <2>1 DEF S

LEMMA CompileNodeDef ==
  \A n \in Nat : CompileNode[n] = IF n = 0 THEN {} ELSE Parents(CompileNode[n - 1])
<1> DEFINE At(n) == CHOOSE g : Growing(g, n)
           G == [n \in Nat |-> At(n)[n]]
<1>1. \A n \in Nat : Growing(At(n), n)
  BY GrowingExists, Zenon
<1> HIDE DEF At
<1>2. ASSUME NEW n \in Nat
      PROVE  G[n] = IF n = 0 THEN {} ELSE Parents(G[n - 1])
  <2>1. At(n)[n] = IF n = 0 THEN {} ELSE Parents(At(n)[n - 1])
    <3>1. PICK g : g = At(n)
      OBVIOUS
    <3>2. Growing(g, n) /\ n \in 0 .. n
      BY <1>1, <3>1
    <3>3. g[n] = IF n = 0 THEN {} ELSE Parents(g[n - 1])
      BY <3>2 DEF Growing
    <3>4. QED
      BY <3>1, <3>3
  <2>2. n # 0 => n - 1 \in Nat /\ At(n - 1)[n - 1] = At(n)[n - 1]
    BY <1>1, GrowingUnique
  <2>3. QED
    BY <2>1, <2>2
<1>3. G = [n \in Nat |-> IF n = 0 THEN {} ELSE Parents(G[n - 1])]
  BY <1>2
<1> HIDE DEF G
<1>4. CompileNode = [n \in Nat |-> IF n = 0 THEN {} ELSE Parents(CompileNode[n - 1])]
  BY <1>3, Zenon DEF CompileNode
<1>5. QED
  BY <1>4

Sensible(Trees, n) ==
  [q \in DOMAIN Plans |-> [rank \in Rank \cup {Value} |->
     {node \in CompileNode[n] : MakesSense(node, rank, Plans[q].rows, Trees[q])}]]
NothingSensible == [q \in DOMAIN Plans |-> [rank \in Rank \cup {Value} |-> {}]]

Codes(Code, n) ==
  [node \in CompileNode[n] |-> [g \in Generator |-> NodeCode(Code, node, g)]]

Sifting(g, n) ==
  g = [k \in 0 .. n |-> IF k = 0 THEN NothingSensible ELSE Sensible(g[k - 1], k)]

LEMMA SiftingExists == \A n \in Nat : \E g : Sifting(g, n)
<1> DEFINE S == {n \in Nat : \E g : Sifting(g, n)}
<1>1. 0 \in S
  <2>1. Sifting([k \in 0 .. 0 |-> NothingSensible], 0)
    BY DEF Sifting
  <2>2. QED
    BY <2>1
<1>2. ASSUME NEW n \in Nat, n \in S PROVE n + 1 \in S
  <2>1. PICK g : Sifting(g, n)
    BY <1>2
  <2> DEFINE h == [k \in 0 .. n + 1 |-> IF k = n + 1 THEN Sensible(g[n], (n + 1)) ELSE g[k]]
  <2>2. ASSUME NEW k \in 0 .. n + 1
        PROVE  h[k] = IF k = 0 THEN NothingSensible ELSE Sensible(h[k - 1], k)
    <3>1. CASE k = n + 1
      <4>1. h[k - 1] = g[n] /\ k # 0 /\ k = n + 1
        BY <3>1
      <4>2. QED
        BY <4>1
    <3>2. CASE k \in 0 .. n
      <4>1. h[k] = g[k] /\ (k # 0 => h[k - 1] = g[k - 1])
        BY <3>2
      <4>2. QED
        BY <2>1, <3>2, <4>1 DEF Sifting
    <3>3. QED
      BY <3>1, <3>2
  <2>3. Sifting(h, n + 1)
    BY <2>2 DEF Sifting
  <2>4. QED
    BY <2>3
<1>3. QED
  <2> HIDE DEF S
  <2>1. \A n \in Nat : n \in S
    BY <1>1, <1>2, Induction
  <2>2. QED
    BY <2>1 DEF S

LEMMA SiftingUnique ==
  ASSUME NEW n \in Nat, NEW m \in Nat, n <= m, NEW g, NEW h, Sifting(g, n), Sifting(h, m)
  PROVE  g[n] = h[n]
<1> DEFINE S == {k \in Nat : k <= n => g[k] = h[k]}
<1>1. 0 \in S
  BY DEF Sifting
<1>2. ASSUME NEW k \in Nat, k \in S PROVE k + 1 \in S
  <2>1. SUFFICES ASSUME k + 1 <= n PROVE g[k + 1] = h[k + 1]
    OBVIOUS
  <2>2. k + 1 \in 0 .. n /\ k + 1 \in 0 .. m /\ k + 1 # 0 /\ (k + 1) - 1 = k /\ g[k] = h[k]
    BY <1>2, <2>1
  <2>3. g[k + 1] = Sensible(g[k], (k + 1)) /\ h[k + 1] = Sensible(h[k], (k + 1))
    BY <2>2 DEF Sifting
  <2>4. QED
    BY <2>2, <2>3
<1>3. QED
  <2> HIDE DEF S
  <2>1. \A k \in Nat : k \in S
    BY <1>1, <1>2, Induction
  <2>2. QED
    BY <2>1 DEF S

LEMMA SensibleTreesDef ==
  \A n \in Nat : SensibleTrees[n] = IF n = 0 THEN NothingSensible ELSE Sensible(SensibleTrees[n - 1], n)
<1> DEFINE At(n) == CHOOSE g : Sifting(g, n)
           G == [n \in Nat |-> At(n)[n]]
<1>1. \A n \in Nat : Sifting(At(n), n)
  BY SiftingExists, Zenon
<1> HIDE DEF At
<1>2. ASSUME NEW n \in Nat
      PROVE  G[n] = IF n = 0 THEN NothingSensible ELSE Sensible(G[n - 1], n)
  <2>1. At(n)[n] = IF n = 0 THEN NothingSensible ELSE Sensible(At(n)[n - 1], n)
    <3>1. PICK g : g = At(n)
      OBVIOUS
    <3>2. Sifting(g, n) /\ n \in 0 .. n
      BY <1>1, <3>1
    <3>3. g[n] = IF n = 0 THEN NothingSensible ELSE Sensible(g[n - 1], n)
      BY <3>2 DEF Sifting
    <3>4. QED
      BY <3>1, <3>3
  <2>2. n # 0 => n - 1 \in Nat /\ At(n - 1)[n - 1] = At(n)[n - 1]
    BY <1>1, SiftingUnique
  <2>3. QED
    BY <2>1, <2>2
<1>3. G = [n \in Nat |-> IF n = 0 THEN NothingSensible ELSE Sensible(G[n - 1], n)]
  BY <1>2
<1> HIDE DEF G
<1>4. SensibleTrees = [n \in Nat |-> IF n = 0 THEN NothingSensible ELSE Sensible(SensibleTrees[n - 1], n)]
  BY <1>3, ZenonT(60) DEF SensibleTrees, Sensible, NothingSensible
<1>5. QED
  BY <1>4

Compiling(g, n) ==
  g = [k \in 0 .. n |-> IF k = 0 THEN << >> ELSE Codes(g[k - 1], k)]

LEMMA CompilingExists == \A n \in Nat : \E g : Compiling(g, n)
<1> DEFINE S == {n \in Nat : \E g : Compiling(g, n)}
<1>1. 0 \in S
  <2>1. Compiling([k \in 0 .. 0 |-> << >>], 0)
    BY DEF Compiling
  <2>2. QED
    BY <2>1
<1>2. ASSUME NEW n \in Nat, n \in S PROVE n + 1 \in S
  <2>1. PICK g : Compiling(g, n)
    BY <1>2
  <2> DEFINE h == [k \in 0 .. n + 1 |-> IF k = n + 1 THEN Codes(g[n], (n + 1)) ELSE g[k]]
  <2>2. ASSUME NEW k \in 0 .. n + 1
        PROVE  h[k] = IF k = 0 THEN << >> ELSE Codes(h[k - 1], k)
    <3>1. CASE k = n + 1
      <4>1. h[k - 1] = g[n] /\ k # 0 /\ k = n + 1
        BY <3>1
      <4>2. QED
        BY <4>1
    <3>2. CASE k \in 0 .. n
      <4>1. h[k] = g[k] /\ (k # 0 => h[k - 1] = g[k - 1])
        BY <3>2
      <4>2. QED
        BY <2>1, <3>2, <4>1 DEF Compiling
    <3>3. QED
      BY <3>1, <3>2
  <2>3. Compiling(h, n + 1)
    BY <2>2 DEF Compiling
  <2>4. QED
    BY <2>3
<1>3. QED
  <2> HIDE DEF S
  <2>1. \A n \in Nat : n \in S
    BY <1>1, <1>2, Induction
  <2>2. QED
    BY <2>1 DEF S

LEMMA CompilingUnique ==
  ASSUME NEW n \in Nat, NEW m \in Nat, n <= m, NEW g, NEW h, Compiling(g, n), Compiling(h, m)
  PROVE  g[n] = h[n]
<1> DEFINE S == {k \in Nat : k <= n => g[k] = h[k]}
<1>1. 0 \in S
  BY DEF Compiling
<1>2. ASSUME NEW k \in Nat, k \in S PROVE k + 1 \in S
  <2>1. SUFFICES ASSUME k + 1 <= n PROVE g[k + 1] = h[k + 1]
    OBVIOUS
  <2>2. k + 1 \in 0 .. n /\ k + 1 \in 0 .. m /\ k + 1 # 0 /\ (k + 1) - 1 = k /\ g[k] = h[k]
    BY <1>2, <2>1
  <2>3. g[k + 1] = Codes(g[k], (k + 1)) /\ h[k + 1] = Codes(h[k], (k + 1))
    BY <2>2 DEF Compiling
  <2>4. QED
    BY <2>2, <2>3
<1>3. QED
  <2> HIDE DEF S
  <2>1. \A k \in Nat : k \in S
    BY <1>1, <1>2, Induction
  <2>2. QED
    BY <2>1 DEF S

LEMMA CompileDef ==
  \A n \in Nat : Compile[n] = IF n = 0 THEN << >> ELSE Codes(Compile[n - 1], n)
<1> DEFINE At(n) == CHOOSE g : Compiling(g, n)
           G == [n \in Nat |-> At(n)[n]]
<1>1. \A n \in Nat : Compiling(At(n), n)
  BY CompilingExists, Zenon
<1> HIDE DEF At
<1>2. ASSUME NEW n \in Nat
      PROVE  G[n] = IF n = 0 THEN << >> ELSE Codes(G[n - 1], n)
  <2>1. At(n)[n] = IF n = 0 THEN << >> ELSE Codes(At(n)[n - 1], n)
    <3>1. PICK g : g = At(n)
      OBVIOUS
    <3>2. Compiling(g, n) /\ n \in 0 .. n
      BY <1>1, <3>1
    <3>3. g[n] = IF n = 0 THEN << >> ELSE Codes(g[n - 1], n)
      BY <3>2 DEF Compiling
    <3>4. QED
      BY <3>1, <3>3
  <2>2. n # 0 => n - 1 \in Nat /\ At(n - 1)[n - 1] = At(n)[n - 1]
    BY <1>1, CompilingUnique
  <2>3. QED
    BY <2>1, <2>2
<1>3. G = [n \in Nat |-> IF n = 0 THEN << >> ELSE Codes(G[n - 1], n)]
  BY <1>2
<1> HIDE DEF G
<1>4. Compile = [n \in Nat |-> IF n = 0 THEN << >> ELSE Codes(Compile[n - 1], n)]
  BY <1>3, Zenon DEF Compile, Codes
<1>5. QED
  BY <1>4

-----------------------------------------------------------------------------
(* Powers of 2, and places within blocks of such sizes.                    *)

LEMMA TwoToType == \A n \in Nat : TwoTo[n] \in Nat \ {0}
<1> DEFINE S == {n \in Nat : TwoTo[n] \in Nat \ {0}}
<1>1. 0 \in S
  BY TwoToDef
<1>2. ASSUME NEW n \in Nat, n \in S PROVE n + 1 \in S
  <2>1. TwoTo[n + 1] = 2 * TwoTo[n]
    BY TwoToDef
  <2>2. QED
    BY <1>2, <2>1
<1>3. QED
  <2> HIDE DEF S
  <2>1. \A n \in Nat : n \in S
    BY <1>1, <1>2, Induction
  <2>2. QED
    BY <2>1 DEF S

LEMMA TwoToSum == \A a, b \in Nat : TwoTo[a + b] = TwoTo[a] * TwoTo[b]
<1>1. SUFFICES ASSUME NEW a \in Nat PROVE \A b \in Nat : TwoTo[a + b] = TwoTo[a] * TwoTo[b]
  OBVIOUS
<1> DEFINE S == {b \in Nat : TwoTo[a + b] = TwoTo[a] * TwoTo[b]}
<1>2. 0 \in S
  BY TwoToDef, TwoToType
<1>3. ASSUME NEW b \in Nat, b \in S PROVE b + 1 \in S
  <2>1. TwoTo[b + 1] = 2 * TwoTo[b]
    BY TwoToDef
  <2>2. TwoTo[a + (b + 1)] = 2 * TwoTo[a + b]
    <3>1. a + (b + 1) \in Nat /\ a + (b + 1) # 0 /\ (a + (b + 1)) - 1 = a + b
      OBVIOUS
    <3>2. QED
      BY <3>1, TwoToDef
  <2>3. PICK x \in Nat, y \in Nat : x = TwoTo[a] /\ y = TwoTo[b]
    BY TwoToType
  <2>4. 2 * (x * y) = x * (2 * y)
    OBVIOUS
  <2>5. QED
    BY <1>3, <2>1, <2>2, <2>3, <2>4
<1>4. QED
  <2> HIDE DEF S
  <2>1. \A b \in Nat : b \in S
    BY <1>2, <1>3, Induction
  <2>2. QED
    BY <2>1 DEF S

LEMMA Products ==
  ASSUME NEW a \in Nat, NEW b \in Nat
  PROVE  a * b \in Nat /\ (b > 0 => a <= a * b) /\ (a > 0 => b <= a * b)
OBVIOUS

LEMMA Division ==
  ASSUME NEW D \in Nat \ {0}, NEW k \in Nat, NEW i \in 0 .. D - 1
  PROVE  (k * D + i) \div D = k
<1>1. PICK x \in Nat : x = k * D + i
  BY Products
<1>2. x \div D \in Int /\ D * (x \div D) <= x /\ x < D * (x \div D) + D
  OBVIOUS
<1>3. PICK y \in Int : y = x \div D
  BY <1>2
<1>4. D * y <= k * D + i /\ k * D + i < D * y + D
  BY <1>1, <1>2, <1>3
<1>5. y <= k
  BY <1>4
<1>6. y >= k
  BY <1>4
<1>7. QED
  BY <1>1, <1>3, <1>5, <1>6

LEMMA DivisionBounds ==
  ASSUME NEW D \in Nat \ {0}, NEW x \in Nat
  PROVE  \E k \in Nat, i \in 0 .. D - 1 : k = x \div D /\ x = k * D + i
<1>1. x \div D \in Nat /\ D * (x \div D) <= x /\ x < D * (x \div D) + D
  OBVIOUS
<1>2. PICK y \in Nat : y = x \div D
  BY <1>1
<1>3. x - y * D \in 0 .. D - 1 /\ x = y * D + (x - y * D)
  BY <1>1, <1>2
<1>4. QED
  BY <1>2, <1>3

(* A place in a block of N within a block of M.                            *)
LEMMA Nested ==
  ASSUME NEW M \in Nat \ {0}, NEW N \in Nat \ {0}, NEW b \in Nat,
         NEW x \in b * M .. (b + 1) * M - 1, NEW i \in 0 .. N - 1
  PROVE  /\ x \in Nat /\ x * N + i \in Nat
         /\ x * N + i \in b * (M * N) .. (b + 1) * (M * N) - 1
<1>1. b * M \in Nat /\ (b + 1) * M = b * M + M /\ x \in Nat
  BY Products
<1>2. PICK y \in Nat : y = x - b * M
  BY <1>1
<1>3. y <= M - 1 /\ x = b * M + y
  BY <1>1, <1>2
<1>4. x * N = (b * M) * N + y * N /\ y * N <= (M - 1) * N /\ y * N \in Nat
  BY <1>1, <1>3, Products
<1>5. (M - 1) * N = M * N - N /\ (b * M) * N = b * (M * N)
      /\ (b + 1) * (M * N) = b * (M * N) + M * N
  BY Products
<1>6. M * N \in Nat /\ b * (M * N) \in Nat
  BY Products
<1>7. QED
  BY <1>1, <1>4, <1>5, <1>6

-----------------------------------------------------------------------------
(* The generator.                                                          *)

LEMMA GeneratorType ==
  ASSUME NEW g \in Generator
  PROVE  /\ g.code \in Seq(Instruction) /\ Len(g.code) \in Nat
         /\ g.jumpTable \in Seq(Nat \cup {NotPlaced}) /\ Len(g.jumpTable) \in Nat
         /\ g = [code |-> g.code, jumpTable |-> g.jumpTable]
BY DEF Generator

LEMMA OpType ==
  /\ \A opcode \in Opcode, operand \in Nat :
       /\ Op(opcode, operand) \in Instruction
       /\ Op(opcode, operand).opcode = opcode
       /\ operand < c_rowFieldSize => Op(opcode, operand).row = operand
  /\ \A opcode \in Opcode, row \in RowNode :
       /\ RowOp(opcode, row) \in Instruction
       /\ RowOp(opcode, row).opcode = opcode /\ RowOp(opcode, row).delta = row.rankDelta
       /\ row.id < c_rowFieldSize => RowOp(opcode, row).row = row.id
<1>1. c_rowFieldSize \in Nat \ {0} /\ c_maxRankValue \in Nat
  BY PlansAssumption, PlanAssumption
<1>2. ASSUME NEW x \in Nat
      PROVE  x % c_rowFieldSize \in Nat /\ (x < c_rowFieldSize => x % c_rowFieldSize = x)
  BY <1>1
<1>3. ASSUME NEW opcode \in Opcode, NEW operand \in Nat
      PROVE  /\ Op(opcode, operand) \in Instruction
             /\ Op(opcode, operand).opcode = opcode
             /\ operand < c_rowFieldSize => Op(opcode, operand).row = operand
  BY <1>1, <1>2 DEF Op, Instruction, Rank
<1>4. ASSUME NEW opcode \in Opcode, NEW row \in RowNode
      PROVE  /\ RowOp(opcode, row) \in Instruction
             /\ RowOp(opcode, row).opcode = opcode /\ RowOp(opcode, row).delta = row.rankDelta
             /\ row.id < c_rowFieldSize => RowOp(opcode, row).row = row.id
  BY <1>1, <1>2 DEF Op, RowOp, Instruction, Rank, RowNode
<1>5. QED
  BY <1>3, <1>4

LEMMA Emitted ==
  ASSUME NEW g \in Generator, NEW instructions \in Seq(Instruction)
  PROVE  LET h == EmitAll(g, instructions) IN
         /\ h \in Generator /\ h.jumpTable = g.jumpTable
         /\ Len(h.code) = Len(g.code) + Len(instructions)
         /\ \A i \in 1 .. Len(g.code) : h.code[i] = g.code[i]
         /\ \A i \in 1 .. Len(instructions) : h.code[Len(g.code) + i] = instructions[i]
<1> DEFINE h == EmitAll(g, instructions)
<1>1. g.code \in Seq(Instruction) /\ Len(g.code) \in Nat /\ Len(instructions) \in Nat
      /\ g.jumpTable \in Seq(Nat \cup {NotPlaced})
  BY GeneratorType
<1>2. h = [code |-> g.code \o instructions, jumpTable |-> g.jumpTable]
  BY Zenon DEF EmitAll
<1>3. PICK s : s = g.code \o instructions
  OBVIOUS
<1>4. s \in Seq(Instruction) /\ Len(s) = Len(g.code) + Len(instructions)
      /\ \A i \in 1 .. Len(g.code) : s[i] = g.code[i]
  BY <1>1, <1>3
<1>5. ASSUME NEW i \in 1 .. Len(instructions) PROVE s[Len(g.code) + i] = instructions[i]
  BY <1>1, <1>3
<1>6. h \in Generator
  BY <1>1, <1>2, <1>3, <1>4 DEF Generator
<1>7. QED
  BY <1>2, <1>3, <1>4, <1>5, <1>6

LEMMA EmittedOne ==
  ASSUME NEW g \in Generator, NEW c \in Instruction
  PROVE  LET h == Emit(g, c) IN
         /\ h \in Generator /\ h.jumpTable = g.jumpTable /\ Len(h.code) = Len(g.code) + 1
         /\ \A i \in 1 .. Len(g.code) : h.code[i] = g.code[i]
         /\ h.code[Len(g.code) + 1] = c
<1>1. PICK s : s = <<c>>
  OBVIOUS
<1>2. s \in Seq(Instruction) /\ Len(s) = 1 /\ s[1] = c
  BY <1>1
<1>3. PICK h : h = EmitAll(g, s)
  OBVIOUS
<1>4. /\ h \in Generator /\ h.jumpTable = g.jumpTable /\ Len(h.code) = Len(g.code) + 1
      /\ \A i \in 1 .. Len(g.code) : h.code[i] = g.code[i]
      /\ \A i \in 1 .. 1 : h.code[Len(g.code) + i] = s[i]
  <2>1. s \in Seq(Instruction) /\ Len(s) = 1
    BY <1>2, Zenon
  <2>2. /\ h \in Generator /\ h.jumpTable = g.jumpTable
        /\ Len(h.code) = Len(g.code) + Len(s)
        /\ \A i \in 1 .. Len(g.code) : h.code[i] = g.code[i]
        /\ \A i \in 1 .. Len(s) : h.code[Len(g.code) + i] = s[i]
    BY <2>1, <1>3, Emitted, Zenon
  <2>3. QED
    BY <2>1, <2>2, Zenon
<1>5. h.code[Len(g.code) + 1] = c
  BY <1>2, <1>4
<1>6. h = Emit(g, c)
  BY <1>1, <1>3, Zenon DEF Emit
<1>7. QED
  BY <1>4, <1>5, <1>6

LEMMA Allocated ==
  ASSUME NEW g \in Generator
  PROVE  LET h == AllocateLabel(g) IN
         /\ h \in Generator /\ h.code = g.code
         /\ Len(h.jumpTable) = Len(g.jumpTable) + 1
         /\ \A l \in 1 .. Len(g.jumpTable) : h.jumpTable[l] = g.jumpTable[l]
<1> DEFINE h == AllocateLabel(g)
<1>1. h = [code |-> g.code, jumpTable |-> Append(g.jumpTable, NotPlaced)]
  BY Zenon DEF AllocateLabel
<1>2. PICK s : s = Append(g.jumpTable, NotPlaced)
  OBVIOUS
<1>3. s \in Seq(Nat \cup {NotPlaced}) /\ Len(s) = Len(g.jumpTable) + 1
      /\ \A l \in 1 .. Len(g.jumpTable) : s[l] = g.jumpTable[l]
  BY <1>2, GeneratorType
<1>4. QED
  BY <1>1, <1>2, <1>3, GeneratorType DEF Generator

LEMMA Placed ==
  ASSUME NEW g \in Generator, NEW label \in 0 .. Len(g.jumpTable) - 1
  PROVE  LET h == PlaceLabel(g, label) IN
         /\ h \in Generator /\ h.code = g.code
         /\ Len(h.jumpTable) = Len(g.jumpTable)
         /\ h.jumpTable[label + 1] = Len(g.code)
         /\ \A l \in 1 .. Len(g.jumpTable) : l # label + 1 => h.jumpTable[l] = g.jumpTable[l]
<1> DEFINE h == PlaceLabel(g, label)
<1>1. h = [code |-> g.code,
           jumpTable |-> [g.jumpTable EXCEPT ![label + 1] = Len(g.code)]]
  BY Zenon DEF PlaceLabel
<1>2. PICK s : s = [g.jumpTable EXCEPT ![label + 1] = Len(g.code)]
  OBVIOUS
<1>3. Len(g.jumpTable) \in Nat /\ Len(g.code) \in Nat /\ label + 1 \in 1 .. Len(g.jumpTable)
      /\ g.jumpTable \in Seq(Nat \cup {NotPlaced})
  BY GeneratorType
<1>4. s \in Seq(Nat \cup {NotPlaced}) /\ Len(s) = Len(g.jumpTable)
      /\ s[label + 1] = Len(g.code)
      /\ \A l \in 1 .. Len(g.jumpTable) : l # label + 1 => s[l] = g.jumpTable[l]
  BY <1>2, <1>3
<1>5. QED
  BY <1>1, <1>2, <1>3, <1>4, GeneratorType DEF Generator

(* What is generated later leaves what there is.                           *)
Grows(g, h) ==
  /\ g \in Generator /\ h \in Generator
  /\ Len(g.code) <= Len(h.code) /\ Len(g.jumpTable) <= Len(h.jumpTable)
  /\ \A i \in 1 .. Len(g.code) : h.code[i] = g.code[i]
  /\ \A l \in 1 .. Len(g.jumpTable) : h.jumpTable[l] = g.jumpTable[l]

LEMMA GrowsOn ==
  ASSUME NEW f, NEW g, NEW h, Grows(f, g), Grows(g, h)
  PROVE  Grows(f, h)
<1>1. /\ Len(f.code) \in Nat /\ Len(g.code) \in Nat /\ Len(h.code) \in Nat
      /\ Len(f.jumpTable) \in Nat /\ Len(g.jumpTable) \in Nat /\ Len(h.jumpTable) \in Nat
  BY GeneratorType DEF Grows
<1>2. QED
  BY <1>1, SMTT(60) DEF Grows

LEMMA EmitGrows ==
  ASSUME NEW g \in Generator, NEW c \in Instruction
  PROVE  Grows(g, Emit(g, c))
<1>1. PICK h : h = Emit(g, c)
  OBVIOUS
<1>2. /\ h \in Generator /\ h.jumpTable = g.jumpTable /\ Len(h.code) = Len(g.code) + 1
      /\ \A i \in 1 .. Len(g.code) : h.code[i] = g.code[i]
  BY <1>1, EmittedOne
<1>3. Len(g.code) \in Nat /\ Len(g.jumpTable) \in Nat
  BY GeneratorType
<1>4. Grows(g, h)
  BY <1>2, <1>3 DEF Grows
<1>5. QED
  BY <1>1, <1>4

LEMMA AllocateGrows ==
  ASSUME NEW g \in Generator
  PROVE  Grows(g, AllocateLabel(g))
BY Allocated, GeneratorType DEF Grows

(* A label that was allocated on the way may be placed.                    *)
LEMMA PlaceGrows ==
  ASSUME NEW f, NEW g, Grows(f, g), NEW label \in Len(f.jumpTable) .. Len(g.jumpTable) - 1
  PROVE  Grows(f, PlaceLabel(g, label))
<1>1. /\ Len(f.code) \in Nat /\ Len(g.code) \in Nat /\ f \in Generator /\ g \in Generator
      /\ Len(f.jumpTable) \in Nat /\ Len(g.jumpTable) \in Nat
  BY GeneratorType DEF Grows
<1>2. label \in 0 .. Len(g.jumpTable) - 1
  BY <1>1
<1>3. \A l \in 1 .. Len(f.jumpTable) : l \in 1 .. Len(g.jumpTable) /\ l # label + 1
  BY <1>1 DEF Grows
<1>4. QED
  BY <1>1, <1>2, <1>3, Placed DEF Grows


-----------------------------------------------------------------------------
(* Notes for the code.  A note says of a place in the code what is true    *)
(* whenever the interpreter is there: the offset is of this rank, and it   *)
(* is the k-th below the offset, of rank top, at which this level of the   *)
(* code (the main code, or a subroutine) was entered; the level has put so *)
(* many slots on the value stack.                                          *)
Note == {n \in [rank : Rank, top : Rank, k : Nat, slots : Nat, main : BOOLEAN] :
           n.rank <= n.top /\ n.k < TwoTo[n.top - n.rank]}
Noted(n, rank, k, slots) ==
  [rank |-> rank, top |-> n.top, k |-> k, slots |-> slots, main |-> n.main]
Called(n) == [rank |-> n.rank, top |-> n.rank, k |-> 0, slots |-> 0, main |-> FALSE]

(* The instruction c leads from the note n to the note m of the next place *)
Follows(rows, c, n, m) ==
  \/ /\ c.opcode \in {"LoadRow", "AndRow"} /\ m = n
     /\ c.row + 1 \in DOMAIN rows /\ rows[c.row + 1].rank = n.rank + c.delta
  \/ /\ c.opcode = "LeftShiftOffset" /\ c.row \in 0 .. n.rank
     /\ m = Noted(n, n.rank - c.row, n.k * TwoTo[c.row], n.slots)
  \/ /\ c.opcode = "RightShiftOffset" /\ c.row \in 0 .. n.top - n.rank
     /\ m = Noted(n, n.rank + c.row, n.k \div TwoTo[c.row], n.slots)
  \/ /\ c.opcode = "IncrementOffset" /\ m = Noted(n, n.rank, n.k + 1, n.slots)
  \/ /\ c.opcode = "Push" /\ m = Noted(n, n.rank, n.k, n.slots + 1)
  \/ /\ c.opcode \in {"Pop", "AndStack", "OrStack"} /\ n.slots > 0
     /\ m = Noted(n, n.rank, n.k, n.slots - 1)
  \/ c.opcode = "UpdateFlags" /\ n.slots > 0 /\ m = n
  \/ c.opcode = "Not" /\ m = n
  \/ c.opcode = "Report" /\ n.rank = 0 /\ m = n

(* The notes A are right at place p of the generator to, in a segment of   *)
(* its code that jumps and calls do not leave.                             *)
Right(rows, A, to, low, high, p) ==
  LET c == to.code[p + 1]
      target == to.jumpTable[c.row + 1]
  IN  /\ c \in Instruction
      /\ \/ Follows(rows, c, A[p], A[p + 1])
         \/ /\ c.opcode \in {"Jmp", "Jz", "Call"}
            /\ c.row + 1 \in DOMAIN to.jumpTable /\ target \in low .. high
            /\ c.opcode = "Jmp" => A[target] = A[p]
            /\ c.opcode = "Jz" => A[target] = A[p] /\ A[p + 1] = A[p]
            /\ c.opcode = "Call" => A[target] = Called(A[p]) /\ A[p + 1] = A[p]
         \/ c.opcode = "Return" /\ A[p].slots = 0 /\ A[p].rank = A[p].top /\ ~A[p].main

Fine(rows, A, to, low, high) ==
  \A p \in low .. high - 1 : Right(rows, A, to, low, high, p)

Sound(rows, to, low, high, n, m) ==
  \E A \in [Nat -> Note] : Fine(rows, A, to, low, high) /\ A[low] = n /\ A[high] = m

LEMMA FollowsIsRight ==
  ASSUME NEW rows, NEW A, NEW to, NEW low, NEW high, NEW p, NEW c \in Instruction,
         to.code[p + 1] = c, Follows(rows, c, A[p], A[p + 1])
  PROVE  Right(rows, A, to, low, high, p)
BY Zenon DEF Right

LEMMA CallIsRight ==
  ASSUME NEW rows, NEW A, NEW to, NEW low, NEW high, NEW p, NEW c \in Instruction,
         to.code[p + 1] = c, c.opcode = "Call", c.row + 1 \in DOMAIN to.jumpTable,
         NEW start \in low .. high, to.jumpTable[c.row + 1] = start,
         A[start] = Called(A[p]), A[p + 1] = A[p]
  PROVE  Right(rows, A, to, low, high, p)
<1>1. c.opcode # "Jmp" /\ c.opcode # "Jz" /\ c.opcode \in {"Jmp", "Jz", "Call"}
  OBVIOUS
<1>2. QED
  BY <1>1, Zenon DEF Right

LEMMA RanksAdd ==
  /\ c_maxRankValue \in Nat
  /\ \A a, b \in Rank : a <= b => b - a \in Rank /\ b - a \in Nat
BY PlanAssumption DEF Rank

LEMMA NoteType ==
  ASSUME NEW n \in Note
  PROVE  /\ n.rank \in Nat /\ n.top \in Nat /\ n.k \in Nat /\ n.slots \in Nat
         /\ n.main \in BOOLEAN /\ n.rank <= n.top /\ n.top <= c_maxRankValue
         /\ n.k < TwoTo[n.top - n.rank] /\ n.top - n.rank \in Nat
         /\ n = Noted(n, n.rank, n.k, n.slots)
         /\ \A slots \in Nat : Noted(n, n.rank, n.k, slots) \in Note
         /\ Called(n) \in Note
<1>1. n \in [rank : Rank, top : Rank, k : Nat, slots : Nat, main : BOOLEAN]
      /\ n.rank <= n.top /\ n.k < TwoTo[n.top - n.rank]
  BY DEF Note
<1>2. n.rank \in Nat /\ n.top \in Nat /\ n.k \in Nat /\ n.slots \in Nat /\ n.main \in BOOLEAN
      /\ n.top <= c_maxRankValue /\ n.rank \in Rank /\ n.top \in Rank
  BY <1>1, RanksAdd DEF Rank
<1>3. n = Noted(n, n.rank, n.k, n.slots)
  BY <1>1 DEF Noted
<1>4. ASSUME NEW slots \in Nat PROVE Noted(n, n.rank, n.k, slots) \in Note
  BY <1>1, <1>2 DEF Noted, Note
<1>5. Called(n) \in Note
  <2>1. n.rank - n.rank = 0 /\ TwoTo[0] = 1
    BY <1>2, TwoToDef
  <2>2. QED
    BY <1>2, <2>1 DEF Called, Note
<1>6. QED
  BY <1>1, <1>2, <1>3, <1>4, <1>5

(* One piece of code after the other.                                      *)
LEMMA Join ==
  ASSUME NEW rows, NEW to, NEW low \in Nat, NEW mid \in Nat, NEW high \in Nat,
         low <= mid, mid <= high, NEW n, NEW l, NEW m,
         Sound(rows, to, low, mid, n, l), Sound(rows, to, mid, high, l, m)
  PROVE  Sound(rows, to, low, high, n, m)
<1>1. PICK A \in [Nat -> Note] : Fine(rows, A, to, low, mid) /\ A[low] = n /\ A[mid] = l
  BY DEF Sound
<1>2. PICK B \in [Nat -> Note] : Fine(rows, B, to, mid, high) /\ B[mid] = l /\ B[high] = m
  BY DEF Sound
<1> DEFINE C == [p \in Nat |-> IF p < mid THEN A[p] ELSE B[p]]
<1>3. C \in [Nat -> Note] /\ C[low] = n /\ C[high] = m
  BY <1>1, <1>2
<1>4. \A p \in low .. mid : C[p] = A[p]
  BY <1>1, <1>2
<1>5. \A p \in mid .. high : C[p] = B[p]
  BY <1>1, <1>2
<1> HIDE DEF C
<1>6. ASSUME NEW p \in low .. mid - 1 PROVE Right(rows, C, to, low, high, p)
  <2>1. Right(rows, A, to, low, mid, p) /\ C[p] = A[p] /\ C[p + 1] = A[p + 1]
    BY <1>1, <1>4 DEF Fine
  <2>2. \A t \in low .. mid : C[t] = A[t] /\ t \in low .. high
    BY <1>4
  <2>3. QED
    BY <2>1, <2>2, Zenon DEF Right
<1>7. ASSUME NEW p \in mid .. high - 1 PROVE Right(rows, C, to, low, high, p)
  <2>1. Right(rows, B, to, mid, high, p) /\ C[p] = B[p] /\ C[p + 1] = B[p + 1]
    BY <1>2, <1>5 DEF Fine
  <2>2. \A t \in mid .. high : C[t] = B[t] /\ t \in low .. high
    BY <1>5
  <2>3. QED
    BY <2>1, <2>2, Zenon DEF Right
<1>8. Fine(rows, C, to, low, high)
  BY <1>6, <1>7 DEF Fine
<1>9. QED
  BY <1>3, <1>8 DEF Sound

(* The generator to has what was generated between g and h: the code, and  *)
(* the labels that were allocated there.                                   *)
Keeps(g, h, to) ==
  /\ Len(h.code) <= Len(to.code) /\ Len(h.jumpTable) <= Len(to.jumpTable)
  /\ \A i \in Len(g.code) + 1 .. Len(h.code) : to.code[i] = h.code[i]
  /\ \A l \in Len(g.jumpTable) + 1 .. Len(h.jumpTable) : to.jumpTable[l] = h.jumpTable[l]

LEMMA KeepsSelf ==
  ASSUME NEW g, NEW h, Grows(g, h)
  PROVE  Keeps(g, h, h)
BY GeneratorType DEF Grows, Keeps

LEMMA KeepsOn ==
  ASSUME NEW g \in Generator, NEW h \in Generator, NEW f, NEW to, Keeps(g, h, f), Grows(f, to)
  PROVE  Keeps(g, h, to)
<1>1. /\ Len(g.code) \in Nat /\ Len(h.code) \in Nat /\ Len(f.code) \in Nat
      /\ Len(g.jumpTable) \in Nat /\ Len(h.jumpTable) \in Nat /\ Len(f.jumpTable) \in Nat
      /\ Len(to.code) \in Nat /\ Len(to.jumpTable) \in Nat
  BY GeneratorType DEF Grows
<1>2. \A i \in Len(g.code) + 1 .. Len(h.code) : i \in 1 .. Len(f.code)
  BY <1>1 DEF Keeps
<1>3. \A l \in Len(g.jumpTable) + 1 .. Len(h.jumpTable) : l \in 1 .. Len(f.jumpTable)
  BY <1>1 DEF Keeps
<1>4. Len(h.code) <= Len(to.code) /\ Len(h.jumpTable) <= Len(to.jumpTable)
  BY <1>1 DEF Keeps, Grows
<1>5. QED
  BY <1>2, <1>3, <1>4, Zenon DEF Keeps, Grows

LEMMA KeepsPlaced ==
  ASSUME NEW g \in Generator, NEW h \in Generator, NEW f \in Generator, Keeps(g, h, f),
         NEW label \in 0 .. Len(f.jumpTable) - 1,
         label < Len(g.jumpTable) \/ label >= Len(h.jumpTable)
  PROVE  Keeps(g, h, PlaceLabel(f, label))
<1>1. /\ Len(g.code) \in Nat /\ Len(h.code) \in Nat /\ Len(f.code) \in Nat
      /\ Len(g.jumpTable) \in Nat /\ Len(h.jumpTable) \in Nat /\ Len(f.jumpTable) \in Nat
  BY GeneratorType
<1>2. PICK to : to = PlaceLabel(f, label)
  OBVIOUS
<1>3. /\ to.code = f.code /\ Len(to.jumpTable) = Len(f.jumpTable)
      /\ \A l \in 1 .. Len(f.jumpTable) : l # label + 1 => to.jumpTable[l] = f.jumpTable[l]
  BY <1>2, Placed
<1>4. Keeps(g, h, to)
  BY <1>1, <1>3, SMTT(60) DEF Keeps
<1>5. QED
  BY <1>2, <1>4

LEMMA KeepsWithin ==
  ASSUME NEW f \in Generator, NEW g \in Generator, NEW h \in Generator, NEW e \in Generator,
         NEW to, Grows(f, g), Keeps(g, h, e), Keeps(f, e, to), to \in Generator
  PROVE  Keeps(g, h, to)
<1>1. /\ Len(g.code) \in Nat /\ Len(h.code) \in Nat /\ Len(f.code) \in Nat
      /\ Len(g.jumpTable) \in Nat /\ Len(h.jumpTable) \in Nat /\ Len(f.jumpTable) \in Nat
      /\ Len(e.code) \in Nat /\ Len(e.jumpTable) \in Nat
      /\ Len(to.code) \in Nat /\ Len(to.jumpTable) \in Nat
  BY GeneratorType
<1>2. \A i \in Len(g.code) + 1 .. Len(h.code) : i \in Len(f.code) + 1 .. Len(e.code)
  BY <1>1 DEF Keeps, Grows
<1>3. \A l \in Len(g.jumpTable) + 1 .. Len(h.jumpTable) :
        l \in Len(f.jumpTable) + 1 .. Len(e.jumpTable)
  BY <1>1 DEF Keeps, Grows
<1>4. Len(h.code) <= Len(to.code) /\ Len(h.jumpTable) <= Len(to.jumpTable)
  BY <1>1 DEF Keeps
<1>5. QED
  BY <1>2, <1>3, <1>4, Zenon DEF Keeps

LEMMA Single ==
  ASSUME NEW rows, NEW g \in Generator, NEW c \in Instruction, NEW h, h = Emit(g, c),
         NEW to, Keeps(g, h, to), NEW n \in Note, NEW m \in Note, Follows(rows, c, n, m)
  PROVE  Sound(rows, to, Len(g.code), Len(h.code), n, m)
<1>2. Len(h.code) = Len(g.code) + 1 /\ h.code[Len(g.code) + 1] = c /\ h \in Generator
  BY EmittedOne
<1>3. PICK low \in Nat : low = Len(g.code)
  BY GeneratorType
<1>4. to.code[low + 1] = c
  BY <1>2, <1>3 DEF Keeps
<1> DEFINE A == [p \in Nat |-> IF p = low THEN n ELSE m]
<1>5. A \in [Nat -> Note] /\ A[low] = n /\ A[low + 1] = m
  OBVIOUS
<1> HIDE DEF A
<1>6. Right(rows, A, to, low, low + 1, low)
  BY <1>4, <1>5, Zenon DEF Right
<1>7. Fine(rows, A, to, low, low + 1)
  <2>1. \A p \in low .. (low + 1) - 1 : p = low
    OBVIOUS
  <2>2. QED
    BY <1>6, <2>1, Zenon DEF Fine
<1>8. Sound(rows, to, low, low + 1, n, m)
  BY <1>5, <1>7, Zenon DEF Sound
<1>9. QED
  BY <1>2, <1>3, <1>8

-----------------------------------------------------------------------------
(* The code of a node keeps what is noted: it can be entered at its rank,  *)
(* and is left with the offset and the stacks as they were.                *)
Fits(rows, to) ==
  /\ to \in Generator /\ rows \in Seq(PlanRow)
  /\ Len(to.jumpTable) <= c_rowFieldSize /\ Len(rows) <= c_rowFieldSize
  /\ c_maxRankValue < c_rowFieldSize

Enters(n, rank) == IF rank = Value THEN n.rank = 0 /\ n.slots > 0 ELSE n.rank = rank

CompilesTo(rows, rank, g, h) ==
  /\ Grows(g, h)
  /\ \A to : Keeps(g, h, to) /\ Fits(rows, to) =>
       \A n \in Note : Enters(n, rank) =>
         Sound(rows, to, Len(g.code), Len(h.code), n, n)

Child(Code, node, rows, rank) ==
  \A g \in Generator : CompilesTo(rows, rank, g, Code[node][g])

LEMMA Lengths ==
  ASSUME NEW g, NEW h, Grows(g, h)
  PROVE  /\ g \in Generator /\ h \in Generator
         /\ Len(g.code) \in Nat /\ Len(h.code) \in Nat /\ Len(g.code) <= Len(h.code)
         /\ Len(g.jumpTable) \in Nat /\ Len(h.jumpTable) \in Nat
         /\ Len(g.jumpTable) <= Len(h.jumpTable)
BY GeneratorType DEF Grows

LEMMA Piece ==
  ASSUME NEW rows, NEW rank, NEW f, NEW g, NEW h, NEW e \in Generator, NEW to,
         Grows(f, g), CompilesTo(rows, rank, g, h), Keeps(g, h, e), Keeps(f, e, to),
         Fits(rows, to), NEW n \in Note, Enters(n, rank)
  PROVE  Sound(rows, to, Len(g.code), Len(h.code), n, n)
<1>1. f \in Generator /\ g \in Generator /\ h \in Generator /\ to \in Generator
  BY DEF Grows, CompilesTo, Fits
<1>2. Keeps(g, h, to)
  BY <1>1, KeepsWithin
<1>3. QED
  BY <1>2 DEF CompilesTo

LEMMA OnePiece ==
  ASSUME NEW rows, NEW f, NEW g, NEW c \in Instruction, NEW h, h = Emit(g, c), NEW e \in Generator,
         NEW to, Grows(f, g), Keeps(g, h, e), Keeps(f, e, to), Fits(rows, to),
         NEW n \in Note, NEW m \in Note, Follows(rows, c, n, m)
  PROVE  Sound(rows, to, Len(g.code), Len(h.code), n, m)
<1>1. f \in Generator /\ g \in Generator /\ to \in Generator
  BY DEF Grows, Fits
<1>2. h \in Generator
  BY <1>1, EmittedOne
<1>3. Keeps(g, h, to)
  BY <1>1, <1>2, KeepsWithin
<1>4. QED
  BY <1>1, <1>3, Single

(* A label behind a piece of code, and a Jz before it.                     *)
LEMMA Skip ==
  ASSUME NEW g \in Generator, NEW tested, NEW body,
         tested = Emit(AllocateLabel(g), Op("Jz", NextLabel(g))), Grows(tested, body),
         NEW h, h = PlaceLabel(body, NextLabel(g))
  PROVE  /\ Grows(g, tested) /\ Grows(g, h) /\ Keeps(tested, body, h)
         /\ \A rows, to : \A n \in Note :
              /\ Keeps(g, h, to) /\ Fits(rows, to)
              /\ Sound(rows, to, Len(tested.code), Len(body.code), n, n)
              => Sound(rows, to, Len(g.code), Len(h.code), n, n)
<1>1. PICK a : a = AllocateLabel(g)
  OBVIOUS
<1>2. PICK label : label = Len(g.jumpTable)
  OBVIOUS
<1>3. PICK c : c = Op("Jz", label)
  OBVIOUS
<1>4. label \in Nat /\ c \in Instruction /\ c.opcode = "Jz"
      /\ (label < c_rowFieldSize => c.row = label)
  BY <1>2, <1>3, GeneratorType, OpType DEF Opcode
<1>5. a \in Generator /\ Grows(g, a) /\ a.code = g.code /\ Len(a.jumpTable) = label + 1
  BY <1>1, <1>2, Allocated, AllocateGrows
<1>6. tested = Emit(a, c)
  BY <1>1, <1>2, <1>3, Zenon DEF NextLabel
<1>7. /\ tested \in Generator /\ Grows(a, tested) /\ tested.jumpTable = a.jumpTable
      /\ Len(tested.code) = Len(g.code) + 1 /\ tested.code[Len(g.code) + 1] = c
  BY <1>4, <1>5, <1>6, EmittedOne, EmitGrows, SMTT(60)
<1>8. Grows(g, tested) /\ Grows(g, body)
  BY <1>5, <1>7, GrowsOn
<1>9. PICK e : e = PlaceLabel(body, label)
  OBVIOUS
<1>10. h = e
  BY <1>2, <1>9, Zenon DEF NextLabel
<1>11. /\ Len(g.code) \in Nat /\ Len(body.code) \in Nat /\ Len(body.jumpTable) \in Nat
       /\ Len(tested.code) <= Len(body.code) /\ label + 1 <= Len(body.jumpTable)
       /\ body \in Generator /\ Len(g.jumpTable) \in Nat
  BY <1>5, <1>7, Lengths
<1>12. Grows(g, e)
  BY <1>2, <1>4, <1>8, <1>9, <1>11, PlaceGrows
<1>13. Keeps(tested, body, e)
  BY <1>2, <1>4, <1>5, <1>7, <1>9, <1>11, KeepsSelf, KeepsPlaced
<1>14. e.code = body.code /\ Len(e.jumpTable) = Len(body.jumpTable)
       /\ e.jumpTable[label + 1] = Len(body.code)
  BY <1>4, <1>9, <1>11, Placed
<1>15. body.code[Len(g.code) + 1] = c
  BY <1>7, <1>11 DEF Grows
<1>16. ASSUME NEW rows, NEW to, NEW n \in Note, Keeps(g, e, to), Fits(rows, to),
              Sound(rows, to, Len(tested.code), Len(body.code), n, n)
       PROVE  Sound(rows, to, Len(g.code), Len(e.code), n, n)
  <2>1. PICK low \in Nat, high \in Nat :
          low = Len(g.code) /\ high = Len(body.code) /\ low + 1 <= high
          /\ Len(tested.code) = low + 1
    BY <1>7, <1>11
  <2>2. to.code[low + 1] = c
    BY <1>11, <1>14, <1>15, <1>16, <2>1, SMTT(60) DEF Keeps
  <2>3. label + 1 <= Len(to.jumpTable) /\ to.jumpTable[label + 1] = high
    <3>1. label + 1 <= Len(e.jumpTable) /\ Len(e.jumpTable) <= Len(to.jumpTable)
          /\ label + 1 \in Len(g.jumpTable) + 1 .. Len(e.jumpTable)
          /\ Len(to.jumpTable) \in Nat
      BY <1>2, <1>4, <1>11, <1>14, <1>16, GeneratorType DEF Keeps, Fits
    <3>2. to.jumpTable[label + 1] = e.jumpTable[label + 1]
      BY <1>16, <3>1 DEF Keeps
    <3>3. QED
      BY <1>4, <1>14, <2>1, <3>1, <3>2
  <2>4. c.row = label /\ label + 1 \in DOMAIN to.jumpTable
    <3>1. Len(to.jumpTable) \in Nat /\ Len(to.jumpTable) <= c_rowFieldSize
          /\ DOMAIN to.jumpTable = 1 .. Len(to.jumpTable) /\ c_rowFieldSize \in Nat
      BY <1>16, GeneratorType, PlansAssumption DEF Fits
    <3>2. QED
      BY <1>4, <2>3, <3>1
  <2>5. PICK A \in [Nat -> Note] :
          Fine(rows, A, to, low + 1, high) /\ A[low + 1] = n /\ A[high] = n
    BY <1>16, <2>1 DEF Sound
  <2> DEFINE B == [p \in Nat |-> IF p = low THEN n ELSE A[p]]
  <2>6. B \in [Nat -> Note] /\ B[low] = n /\ \A p \in low + 1 .. high : B[p] = A[p]
    BY <2>1, <2>5
  <2> HIDE DEF B
  <2>7. B[low + 1] = n /\ B[high] = n
    BY <2>1, <2>5, <2>6
  <2>8. Right(rows, B, to, low, high, low)
    <3>1. high \in low .. high
      BY <2>1
    <3>2. QED
      BY <1>4, <2>2, <2>3, <2>4, <2>6, <2>7, <3>1 DEF Right
  <2>9. ASSUME NEW p \in low + 1 .. high - 1 PROVE Right(rows, B, to, low, high, p)
    <3>1. Right(rows, A, to, low + 1, high, p) /\ B[p] = A[p] /\ B[p + 1] = A[p + 1]
      BY <2>1, <2>5, <2>6 DEF Fine
    <3>2. \A t \in low + 1 .. high : B[t] = A[t] /\ t \in low .. high
      BY <2>1, <2>6
    <3>3. QED
      BY <3>1, <3>2, Zenon DEF Right
  <2>10. Fine(rows, B, to, low, high)
    <3>1. \A p \in low .. high - 1 : p = low \/ p \in low + 1 .. high - 1
      BY <2>1
    <3>2. QED
      BY <2>8, <2>9, <3>1 DEF Fine
  <2>11. Sound(rows, to, low, high, n, n)
    BY <2>6, <2>7, <2>10, Zenon DEF Sound
  <2>12. QED
    BY <1>14, <2>1, <2>11
<1>17. QED
  BY <1>8, <1>10, <1>12, <1>13, <1>16, Zenon

LEMMA ReadsRow ==
  ASSUME NEW rows, NEW rank \in Rank, NEW row \in RowsAt(rows, rank),
         NEW opcode \in {"LoadRow", "AndRow"}, NEW to, Fits(rows, to),
         NEW n \in Note, n.rank = rank
  PROVE  Follows(rows, RowOp(opcode, row), n, n)
<1>1. /\ row \in RowNode /\ row.id + 1 \in DOMAIN rows
      /\ rows[row.id + 1].rank = rank + row.rankDelta
  BY DEF RowsAt
<1>2. row.id \in Nat /\ row.id < c_rowFieldSize
  <2>1. Len(rows) \in Nat /\ DOMAIN rows = 1 .. Len(rows) /\ Len(rows) <= c_rowFieldSize
        /\ c_rowFieldSize \in Nat
    BY PlansAssumption DEF Fits
  <2>2. QED
    BY <1>1, <2>1 DEF RowNode
<1>3. PICK c : c = RowOp(opcode, row)
  OBVIOUS
<1>4. c.opcode = opcode /\ c.delta = row.rankDelta /\ c.row = row.id
  BY <1>1, <1>2, <1>3, OpType DEF Opcode
<1>5. Follows(rows, c, n, n)
  BY <1>1, <1>4 DEF Follows
<1>6. QED
  BY <1>3, <1>5

LEMMA OneCompiles ==
  ASSUME NEW rows, NEW rank, NEW c \in Instruction, NEW g \in Generator,
         \A to : \A n \in Note : Fits(rows, to) /\ Enters(n, rank) => Follows(rows, c, n, n)
  PROVE  CompilesTo(rows, rank, g, Emit(g, c))
<1>1. PICK h : h = Emit(g, c)
  OBVIOUS
<1>2. Grows(g, h)
  BY <1>1, EmitGrows
<1>3. ASSUME NEW to, Keeps(g, h, to), Fits(rows, to), NEW n \in Note, Enters(n, rank)
      PROVE  Sound(rows, to, Len(g.code), Len(h.code), n, n)
  BY <1>1, <1>3, Single
<1>4. CompilesTo(rows, rank, g, h)
  BY <1>2, <1>3 DEF CompilesTo
<1>5. QED
  BY <1>1, <1>4

LEMMA LoadRowCompiles ==
  ASSUME NEW rows, NEW row \in RowsAt(rows, 0), NEW g \in Generator
  PROVE  CompilesTo(rows, Value, g, Emit(g, RowOp("LoadRow", row)))
<1>1. 0 \in Rank
  BY PlanAssumption DEF Rank
<1>2. RowOp("LoadRow", row) \in Instruction
  BY OpType DEF RowsAt, Opcode
<1>3. \A to : \A n \in Note : Fits(rows, to) /\ Enters(n, Value)
        => Follows(rows, RowOp("LoadRow", row), n, n)
  BY <1>1, ReadsRow DEF Enters
<1>4. QED
  BY <1>2, <1>3, OneCompiles

LEMMA Stacking ==
  ASSUME NEW n \in Note
  PROVE  \E m \in Note :
           /\ m.rank = n.rank /\ m.slots > 0
           /\ \A rows : Follows(rows, Op("Push", 0), n, m)
           /\ \A rows, opcode : opcode \in {"Pop", "AndStack", "OrStack"} =>
                Follows(rows, Op(opcode, 0), m, n)
<1>1. PICK m : m = Noted(n, n.rank, n.k, n.slots + 1)
  OBVIOUS
<1>2. n.slots \in Nat /\ n.slots + 1 \in Nat
  BY NoteType
<1>3. m \in Note /\ n = Noted(n, n.rank, n.k, n.slots)
  BY <1>1, <1>2, NoteType
<1>4. m.rank = n.rank /\ m.slots = n.slots + 1 /\ m.top = n.top /\ m.k = n.k /\ m.main = n.main
  BY <1>1 DEF Noted
<1>5. n = Noted(m, m.rank, m.k, m.slots - 1)
  BY <1>2, <1>3, <1>4 DEF Noted
<1>6. Op("Push", 0).opcode = "Push"
      /\ \A opcode \in {"Pop", "AndStack", "OrStack"} : Op(opcode, 0).opcode = opcode
  BY OpType DEF Opcode
<1>7. ASSUME NEW rows PROVE Follows(rows, Op("Push", 0), n, m)
  BY <1>1, <1>6 DEF Follows
<1>8. ASSUME NEW rows, NEW opcode, opcode \in {"Pop", "AndStack", "OrStack"}
      PROVE  Follows(rows, Op(opcode, 0), m, n)
  <2>1. Op(opcode, 0).opcode \in {"Pop", "AndStack", "OrStack"} /\ m.slots > 0
    BY <1>2, <1>4, <1>6, <1>8
  <2>2. QED
    BY <1>5, <2>1 DEF Follows
<1>9. QED
  BY <1>2, <1>3, <1>4, <1>7, <1>8

LEMMA SimpleOps ==
  \A opcode \in Opcode : Op(opcode, 0) \in Instruction /\ Op(opcode, 0).opcode = opcode
BY OpType

LEMMA GrowsSelf ==
  ASSUME NEW g \in Generator
  PROVE  Grows(g, g)
BY GeneratorType DEF Grows

(* A piece that later pieces follow.                                       *)
LEMMA KeepsChain ==
  ASSUME NEW g, NEW h, NEW e, Grows(g, h), Grows(h, e)
  PROVE  Keeps(g, h, e)
BY KeepsSelf, KeepsOn DEF Grows

(* Push, a value, and what takes it from the stack again.                  *)
LEMMA Pushed ==
  ASSUME NEW rows, NEW rank, NEW Code, NEW child, Child(Code, child, rows, rank),
         NEW g \in Generator, NEW opcode \in {"Pop", "AndStack", "OrStack"},
         NEW h, h = Emit(Code[child][Emit(g, Op("Push", 0))], Op(opcode, 0))
  PROVE  /\ Grows(g, h)
         /\ \A to : Keeps(g, h, to) /\ Fits(rows, to) =>
              \A n \in Note : n.rank = (IF rank = Value THEN 0 ELSE rank) =>
                Sound(rows, to, Len(g.code), Len(h.code), n, n)
<1>1. PICK push : push = Op("Push", 0)
  OBVIOUS
<1>2. PICK pop : pop = Op(opcode, 0)
  OBVIOUS
<1>3. push \in Instruction /\ pop \in Instruction
  BY <1>1, <1>2, SimpleOps DEF Opcode
<1>4. PICK a : a = Emit(g, push)
  OBVIOUS
<1>5. a \in Generator /\ Grows(g, a)
  BY <1>3, <1>4, EmittedOne, EmitGrows
<1>6. PICK b : b = Code[child][a]
  OBVIOUS
<1>7. CompilesTo(rows, rank, a, b) /\ Grows(a, b) /\ b \in Generator
  BY <1>5, <1>6 DEF Child, CompilesTo, Grows
<1>8. h = Emit(b, pop)
  BY <1>1, <1>2, <1>4, <1>6
<1>9. h \in Generator /\ Grows(b, h)
  BY <1>3, <1>7, <1>8, EmittedOne, EmitGrows
<1>10. Grows(g, b) /\ Grows(g, h) /\ Grows(a, h) /\ Grows(g, g) /\ Grows(h, h)
  BY <1>5, <1>7, <1>9, GrowsOn, GrowsSelf
<1>11. Keeps(g, a, h) /\ Keeps(a, b, h) /\ Keeps(b, h, h)
  BY <1>5, <1>7, <1>9, <1>10, KeepsChain
<1>12. ASSUME NEW to, Keeps(g, h, to), Fits(rows, to), NEW n \in Note,
              n.rank = IF rank = Value THEN 0 ELSE rank
       PROVE  Sound(rows, to, Len(g.code), Len(h.code), n, n)
  <2>1. PICK m \in Note : /\ m.rank = n.rank /\ m.slots > 0
                          /\ Follows(rows, push, n, m) /\ Follows(rows, pop, m, n)
    BY <1>1, <1>2, Stacking, Zenon
  <2>2. Enters(m, rank)
    BY <1>12, <2>1 DEF Enters
  <2>3. Sound(rows, to, Len(g.code), Len(a.code), n, m)
    BY <1>3, <1>4, <1>9, <1>10, <1>11, <1>12, <2>1, OnePiece
  <2>4. Sound(rows, to, Len(a.code), Len(b.code), m, m)
    BY <1>5, <1>7, <1>9, <1>11, <1>12, <2>2, Piece
  <2>5. Sound(rows, to, Len(b.code), Len(h.code), m, n)
    BY <1>3, <1>8, <1>9, <1>10, <1>11, <1>12, <2>1, OnePiece
  <2>6. Sound(rows, to, Len(g.code), Len(b.code), n, m)
    BY <1>5, <1>7, <2>3, <2>4, Lengths, Join
  <2>7. QED
    BY <1>9, <1>10, <2>5, <2>6, Lengths, Join
<1>13. QED
  BY <1>10, <1>12

(* Two pieces in a row.                                                    *)
LEMMA Then ==
  ASSUME NEW rows, NEW rank, NEW f, NEW g, NEW h, CompilesTo(rows, rank, f, g), Grows(g, h),
         \A to : Keeps(g, h, to) /\ Fits(rows, to) =>
           \A n \in Note : Enters(n, rank) =>
             Sound(rows, to, Len(g.code), Len(h.code), n, n)
  PROVE  CompilesTo(rows, rank, f, h)
<1>1. Grows(f, g) /\ Grows(f, h) /\ Keeps(f, g, h) /\ Keeps(g, h, h) /\ Grows(f, f)
  BY GrowsOn, GrowsSelf, KeepsChain, KeepsSelf DEF CompilesTo, Grows
<1>2. f \in Generator /\ g \in Generator /\ h \in Generator
  BY <1>1 DEF Grows
<1>3. ASSUME NEW to, Keeps(f, h, to), Fits(rows, to), NEW n \in Note, Enters(n, rank)
      PROVE  Sound(rows, to, Len(f.code), Len(h.code), n, n)
  <2>1. Sound(rows, to, Len(f.code), Len(g.code), n, n)
    BY <1>1, <1>2, <1>3, Piece
  <2>2. to \in Generator
    BY <1>3 DEF Fits
  <2>3. Keeps(g, h, to)
    BY <1>1, <1>2, <1>3, <2>2, KeepsWithin
  <2>4. Sound(rows, to, Len(g.code), Len(h.code), n, n)
    BY <1>3, <2>3
  <2>5. QED
    BY <1>1, <2>1, <2>4, Lengths, Join
<1>4. QED
  BY <1>1, <1>3 DEF CompilesTo

LEMMA OrCompiles ==
  ASSUME NEW rows, NEW rank \in Rank, NEW Code, NEW node, NEW g \in Generator,
         Child(Code, node.left, rows, rank), Child(Code, node.right, rows, rank)
  PROVE  CompilesTo(rows, rank, g, OrCode(Code, node, g))
<1>1. PICK a : a = Emit(Code[node.left][Emit(g, Op("Push", 0))], Op("Pop", 0))
  OBVIOUS
<1>2. rank # Value
  BY DEF Value, Rank
<1>3. CompilesTo(rows, rank, g, a)
  <2>1. /\ Grows(g, a)
        /\ \A to : Keeps(g, a, to) /\ Fits(rows, to) =>
              \A n \in Note : n.rank = (IF rank = Value THEN 0 ELSE rank) =>
                Sound(rows, to, Len(g.code), Len(a.code), n, n)
    BY <1>1, Pushed
  <2>2. QED
    BY <1>2, <2>1 DEF CompilesTo, Enters
<1>4. PICK h : h = Code[node.right][a]
  OBVIOUS
<1>5. a \in Generator
  BY <1>3 DEF CompilesTo, Grows
<1>6. CompilesTo(rows, rank, a, h)
  BY <1>4, <1>5 DEF Child
<1>7. CompilesTo(rows, rank, g, h)
  BY <1>3, <1>6, Then DEF CompilesTo
<1>8. OrCode(Code, node, g) = h
  BY <1>1, <1>4, Zenon DEF OrCode
<1>9. QED
  BY <1>7, <1>8

LEMMA OrTreeCompiles ==
  ASSUME NEW rows, NEW Code, NEW node, NEW g \in Generator,
         Child(Code, node.left, rows, Value), Child(Code, node.right, rows, Value)
  PROVE  CompilesTo(rows, Value, g, OrTreeCode(Code, node, g))
<1>1. PICK a : a = Code[node.left][g]
  OBVIOUS
<1>2. CompilesTo(rows, Value, g, a) /\ a \in Generator
  BY <1>1 DEF Child, CompilesTo, Grows
<1>3. PICK h : h = Emit(Code[node.right][Emit(a, Op("Push", 0))], Op("OrStack", 0))
  OBVIOUS
<1>4. /\ Grows(a, h)
      /\ \A to : Keeps(a, h, to) /\ Fits(rows, to) =>
           \A n \in Note : n.rank = (IF Value = Value THEN 0 ELSE Value) =>
             Sound(rows, to, Len(a.code), Len(h.code), n, n)
  BY <1>2, <1>3, Pushed
<1>5. CompilesTo(rows, Value, g, h)
  BY <1>2, <1>4, Then DEF Enters
<1>6. OrTreeCode(Code, node, g) = h
  BY <1>1, <1>3, Zenon DEF OrTreeCode
<1>7. QED
  BY <1>5, <1>6

LEMMA NotCompiles ==
  ASSUME NEW rows, NEW Code, NEW node, NEW g \in Generator,
         Child(Code, node.child, rows, Value)
  PROVE  CompilesTo(rows, Value, g, Emit(Code[node.child][g], Op("Not", 0)))
<1>1. PICK a : a = Code[node.child][g]
  OBVIOUS
<1>2. CompilesTo(rows, Value, g, a) /\ a \in Generator
  BY <1>1 DEF Child, CompilesTo, Grows
<1>3. PICK c : c = Op("Not", 0)
  OBVIOUS
<1>4. c \in Instruction /\ c.opcode = "Not"
  BY <1>3, SimpleOps DEF Opcode
<1>5. PICK h : h = Emit(a, c)
  OBVIOUS
<1>6. CompilesTo(rows, Value, a, h)
  BY <1>2, <1>4, <1>5, OneCompiles DEF Follows
<1>7. CompilesTo(rows, Value, g, h)
  BY <1>2, <1>6, Then DEF CompilesTo
<1>8. QED
  BY <1>1, <1>3, <1>5, <1>7

(* A piece that is skipped when the accumulator is empty.                  *)
LEMMA Tested ==
  ASSUME NEW rows, NEW rank, NEW g \in Generator, NEW tested, NEW body,
         tested = Emit(AllocateLabel(g), Op("Jz", NextLabel(g))),
         CompilesTo(rows, rank, tested, body), NEW h, h = PlaceLabel(body, NextLabel(g))
  PROVE  CompilesTo(rows, rank, g, h)
<1>1. Grows(tested, body) /\ tested \in Generator /\ body \in Generator
  BY DEF CompilesTo, Grows
<1>2. /\ Grows(g, tested) /\ Grows(g, h) /\ Keeps(tested, body, h)
      /\ \A r, to : \A n \in Note :
           /\ Keeps(g, h, to) /\ Fits(r, to)
           /\ Sound(r, to, Len(tested.code), Len(body.code), n, n)
           => Sound(r, to, Len(g.code), Len(h.code), n, n)
  BY <1>1, Skip, Zenon
<1>3. h \in Generator
  BY <1>2 DEF Grows
<1>4. ASSUME NEW to, Keeps(g, h, to), Fits(rows, to), NEW n \in Note, Enters(n, rank)
      PROVE  Sound(rows, to, Len(g.code), Len(h.code), n, n)
  <2>1. Sound(rows, to, Len(tested.code), Len(body.code), n, n)
    BY <1>2, <1>3, <1>4, Piece
  <2>2. QED
    BY <1>2, <1>4, <2>1
<1>5. QED
  BY <1>2, <1>4 DEF CompilesTo

LEMMA TestedType ==
  ASSUME NEW g \in Generator
  PROVE  Emit(AllocateLabel(g), Op("Jz", NextLabel(g))) \in Generator
BY GeneratorType, Allocated, EmittedOne, OpType DEF NextLabel, Opcode

LEMMA RowCompiles ==
  ASSUME NEW rows, NEW rank \in Rank, NEW Code, NEW node, NEW g \in Generator,
         node.row \in RowsAt(rows, rank), Child(Code, node.child, rows, rank)
  PROVE  CompilesTo(rows, rank, g, RowCode(Code, node, g))
<1> DEFINE opcode == IF node.type = "LoadRowJz" THEN "LoadRow" ELSE "AndRow"
<1>1. PICK c : c = RowOp(opcode, node.row)
  OBVIOUS
<1>2. c \in Instruction
  BY <1>1, OpType DEF RowsAt, Opcode
<1>3. PICK read : read = Emit(g, c)
  OBVIOUS
<1>4. CompilesTo(rows, rank, g, read) /\ read \in Generator
  <2>1. \A to : \A n \in Note : Fits(rows, to) /\ Enters(n, rank) => Follows(rows, c, n, n)
    BY <1>1, ReadsRow DEF Enters, Value, Rank
  <2>2. QED
    BY <1>2, <1>3, <2>1, OneCompiles, EmittedOne
<1>5. PICK tested : tested = Emit(AllocateLabel(read), Op("Jz", NextLabel(read)))
  OBVIOUS
<1>6. tested \in Generator
  BY <1>4, <1>5, TestedType
<1>7. PICK body : body = Code[node.child][tested]
  OBVIOUS
<1>8. CompilesTo(rows, rank, tested, body)
  BY <1>6, <1>7 DEF Child
<1>9. PICK h : h = PlaceLabel(body, NextLabel(read))
  OBVIOUS
<1>10. CompilesTo(rows, rank, read, h)
  BY <1>4, <1>5, <1>8, <1>9, Tested
<1>11. CompilesTo(rows, rank, g, h)
  BY <1>4, <1>10, Then DEF CompilesTo
<1>12. RowCode(Code, node, g) = h
  BY <1>1, <1>3, <1>5, <1>7, <1>9, Zenon DEF RowCode
<1>13. QED
  BY <1>11, <1>12

LEMMA ReportCompiles ==
  ASSUME NEW rows, NEW Code, NEW node, NEW g \in Generator,
         node.child = Null \/ Child(Code, node.child, rows, Value)
  PROVE  CompilesTo(rows, 0, g, ReportCode(Code, node, g))
<1>1. PICK c : c = Op("Report", 0)
  OBVIOUS
<1>2. c \in Instruction /\ c.opcode = "Report"
  BY <1>1, SimpleOps DEF Opcode
<1>3. ASSUME NEW f \in Generator PROVE CompilesTo(rows, 0, f, Emit(f, c))
  BY <1>2, OneCompiles DEF Enters, Follows, Value
<1>4. CASE node.child = Null
  <2>1. ReportCode(Code, node, g) = Emit(g, c)
    BY <1>1, <1>4, Zenon DEF ReportCode
  <2>2. QED
    BY <1>3, <2>1
<1>5. CASE node.child # Null
  <2>1. PICK value : value = Emit(Code[node.child][Emit(g, Op("Push", 0))], Op("AndStack", 0))
    OBVIOUS
  <2>2. /\ Grows(g, value)
        /\ \A to : Keeps(g, value, to) /\ Fits(rows, to) =>
             \A n \in Note : n.rank = (IF Value = Value THEN 0 ELSE Value) =>
               Sound(rows, to, Len(g.code), Len(value.code), n, n)
    BY <1>5, <2>1, Pushed
  <2>3. CompilesTo(rows, 0, g, value) /\ value \in Generator
    BY <2>2 DEF CompilesTo, Enters, Value, Grows
  <2>4. PICK tested : tested = Emit(AllocateLabel(value), Op("Jz", NextLabel(value)))
    OBVIOUS
  <2>5. tested \in Generator
    BY <2>3, <2>4, TestedType
  <2>6. PICK h : h = PlaceLabel(Emit(tested, c), NextLabel(value))
    OBVIOUS
  <2>7. CompilesTo(rows, 0, value, h)
    BY <1>3, <2>3, <2>4, <2>5, <2>6, Tested
  <2>8. CompilesTo(rows, 0, g, h)
    BY <2>3, <2>7, Then DEF CompilesTo
  <2>9. ReportCode(Code, node, g) = h
    BY <1>1, <1>5, <2>1, <2>4, <2>6, Zenon DEF ReportCode
  <2>10. QED
    BY <2>8, <2>9
<1>6. QED
  BY <1>4, <1>5

LEMMA LabelBefore ==
  ASSUME NEW g, NEW c
  PROVE  /\ AllocateLabel(Emit(g, c)) = Emit(AllocateLabel(g), c)
         /\ NextLabel(Emit(g, c)) = NextLabel(g)
BY Zenon DEF AllocateLabel, Emit, EmitAll, NextLabel

LEMMA AndTreeCompiles ==
  ASSUME NEW rows, NEW Code, NEW node, NEW g \in Generator,
         Child(Code, node.left, rows, Value), Child(Code, node.right, rows, Value)
  PROVE  CompilesTo(rows, Value, g, AndTreeCode(Code, node, g))
<1>1. PICK left : left = Code[node.left][g]
  OBVIOUS
<1>2. CompilesTo(rows, Value, g, left) /\ left \in Generator
  BY <1>1 DEF Child, CompilesTo, Grows
<1>3. PICK c : c = Op("UpdateFlags", 0)
  OBVIOUS
<1>4. c \in Instruction /\ c.opcode = "UpdateFlags"
  BY <1>3, SimpleOps DEF Opcode
<1>5. PICK flags : flags = Emit(left, c)
  OBVIOUS
<1>6. CompilesTo(rows, Value, left, flags)
  BY <1>2, <1>4, <1>5, OneCompiles DEF Enters, Follows
<1>7. CompilesTo(rows, Value, g, flags) /\ flags \in Generator
  <2>1. CompilesTo(rows, Value, g, flags)
    BY <1>2, <1>6, Then DEF CompilesTo
  <2>2. QED
    BY <2>1 DEF CompilesTo, Grows
<1>8. PICK tested : tested = Emit(AllocateLabel(flags), Op("Jz", NextLabel(flags)))
  OBVIOUS
<1>9. tested \in Generator
  BY <1>7, <1>8, TestedType
<1>10. PICK body : body = Emit(Code[node.right][Emit(tested, Op("Push", 0))], Op("AndStack", 0))
  OBVIOUS
<1>11. /\ Grows(tested, body)
       /\ \A to : Keeps(tested, body, to) /\ Fits(rows, to) =>
            \A n \in Note : n.rank = (IF Value = Value THEN 0 ELSE Value) =>
              Sound(rows, to, Len(tested.code), Len(body.code), n, n)
  BY <1>9, <1>10, Pushed
<1>12. CompilesTo(rows, Value, tested, body)
  BY <1>11 DEF CompilesTo, Enters
<1>13. PICK h : h = PlaceLabel(body, NextLabel(flags))
  OBVIOUS
<1>14. CompilesTo(rows, Value, flags, h)
  BY <1>7, <1>8, <1>12, <1>13, Tested
<1>15. CompilesTo(rows, Value, g, h)
  BY <1>7, <1>14, Then DEF CompilesTo
<1>16. AndTreeCode(Code, node, g) = h
  <2>1. AllocateLabel(flags) = Emit(AllocateLabel(left), c) /\ NextLabel(flags) = NextLabel(left)
    BY <1>5, LabelBefore
  <2>2. tested = Emit(Emit(AllocateLabel(left), c), Op("Jz", NextLabel(left)))
    BY <1>8, <2>1, Zenon
  <2>3. h = PlaceLabel(body, NextLabel(left))
    BY <1>13, <2>1, Zenon
  <2>4. QED
    BY <1>1, <1>3, <1>10, <2>2, <2>3, Zenon DEF AndTreeCode
<1>17. QED
  BY <1>15, <1>16

(* The calls of a subroutine, for each of the N offsets, a jump over it,   *)
(* and the subroutine.                                                     *)
Placing(to, low, N, start, return, label, push, call, pop, increment, jump, ret) ==
  /\ label + 2 <= Len(to.jumpTable) /\ to.jumpTable[label + 1] = start
  /\ to.jumpTable[label + 2] = return + 1
  /\ push \in Instruction /\ push.opcode = "Push"
  /\ call \in Instruction /\ call.opcode = "Call" /\ call.row = label
  /\ pop \in Instruction /\ pop.opcode = "Pop"
  /\ increment \in Instruction /\ increment.opcode = "IncrementOffset"
  /\ \A i \in 0 .. N - 2 :
       /\ to.code[low + 4 * i + 1] = push /\ to.code[low + 4 * i + 2] = call
       /\ to.code[low + 4 * i + 3] = pop /\ to.code[low + 4 * i + 4] = increment
  /\ to.code[low + 4 * (N - 1) + 1] = call
  /\ jump \in Instruction /\ jump.opcode = "Jmp" /\ jump.row = label + 1
  /\ to.code[start] = jump
  /\ ret \in Instruction /\ ret.opcode = "Return" /\ to.code[return + 1] = ret

LEMMA Calls ==
  ASSUME NEW rows, NEW to \in Generator, NEW low \in Nat, NEW N \in Nat \ {0},
         NEW start \in Nat, start = low + 4 * (N - 1) + 2,
         NEW return \in Nat, start <= return, NEW label \in Nat,
         NEW push, NEW call, NEW pop, NEW increment, NEW jump, NEW ret,
         Placing(to, low, N, start, return, label, push, call, pop, increment, jump, ret),
         NEW n \in Note,
         \A i \in 0 .. N - 1 : Noted(n, n.rank, n.k + i, n.slots) \in Note,
         Sound(rows, to, start, return, Called(n), Called(n))
  PROVE  Sound(rows, to, low, return + 1, n, Noted(n, n.rank, n.k + (N - 1), n.slots))
<1>0. /\ label + 2 <= Len(to.jumpTable) /\ to.jumpTable[label + 1] = start
      /\ to.jumpTable[label + 2] = return + 1
      /\ push \in Instruction /\ push.opcode = "Push"
      /\ call \in Instruction /\ call.opcode = "Call" /\ call.row = label
      /\ pop \in Instruction /\ pop.opcode = "Pop"
      /\ increment \in Instruction /\ increment.opcode = "IncrementOffset"
      /\ \A i \in 0 .. N - 2 :
           /\ to.code[low + 4 * i + 1] = push /\ to.code[low + 4 * i + 2] = call
           /\ to.code[low + 4 * i + 3] = pop /\ to.code[low + 4 * i + 4] = increment
      /\ to.code[low + 4 * (N - 1) + 1] = call
      /\ jump \in Instruction /\ jump.opcode = "Jmp" /\ jump.row = label + 1
      /\ to.code[start] = jump
      /\ ret \in Instruction /\ ret.opcode = "Return" /\ to.code[return + 1] = ret
  BY Zenon DEF Placing
<1>1. PICK A \in [Nat -> Note] :
        Fine(rows, A, to, start, return) /\ A[start] = Called(n) /\ A[return] = Called(n)
  BY DEF Sound
<1>2. n.k \in Nat /\ n.slots \in Nat /\ n = Noted(n, n.rank, n.k, n.slots)
  BY NoteType
<1> DEFINE On(i) == Noted(n, n.rank, n.k + i, n.slots)
           In(i) == Noted(n, n.rank, n.k + i, n.slots + 1)
<1>3. ASSUME NEW i \in 0 .. N - 1
      PROVE  /\ On(i) \in Note /\ In(i) \in Note
             /\ Called(On(i)) = Called(n) /\ Called(In(i)) = Called(n)
             /\ In(i) = Noted(On(i), On(i).rank, On(i).k, On(i).slots + 1)
             /\ On(i) = Noted(In(i), In(i).rank, In(i).k, In(i).slots - 1)
             /\ In(i).slots > 0
  <2>1. On(i) \in Note
    OBVIOUS
  <2>2. In(i) = Noted(On(i), On(i).rank, On(i).k, On(i).slots + 1)
    BY DEF Noted
  <2>3. In(i) \in Note
    <3>1. PICK m \in Note : m = On(i)
      BY <2>1
    <3>2. m.slots + 1 \in Nat
      BY <3>1, NoteType
    <3>3. Noted(m, m.rank, m.k, m.slots + 1) \in Note
      BY <3>2, NoteType
    <3>4. QED
      BY <2>2, <3>1, <3>3
  <2>4. Called(On(i)) = Called(n) /\ Called(In(i)) = Called(n)
    BY DEF Called, Noted
  <2>5. On(i) = Noted(In(i), In(i).rank, In(i).k, In(i).slots - 1) /\ In(i).slots > 0
    BY <1>2 DEF Noted
  <2>6. QED
    BY <2>1, <2>2, <2>3, <2>4, <2>5
<1>4. ASSUME NEW i \in 0 .. N - 2 PROVE On(i + 1) = Noted(On(i), On(i).rank, On(i).k + 1, On(i).slots)
  BY <1>2 DEF Noted
<1>5. On(0) = n
  BY <1>2
<1> HIDE DEF On, In
<1> DEFINE B == [p \in Nat |->
              IF p > return THEN On(N - 1)
              ELSE IF p >= start THEN A[p]
              ELSE IF p = start - 1 THEN On(N - 1)
              ELSE IF p < low THEN n
              ELSE IF (p - low) - 4 * ((p - low) \div 4) \in {1, 2} THEN In((p - low) \div 4)
              ELSE On((p - low) \div 4)]
<1>6. ASSUME NEW p \in low .. start - 2
      PROVE  (p - low) \div 4 \in 0 .. N - 1
  OBVIOUS
<1>7. B \in [Nat -> Note]
  <2>1. ASSUME NEW p \in Nat PROVE B[p] \in Note
    <3>1. CASE p > return
      <4>1. N - 1 \in 0 .. N - 1
        OBVIOUS
      <4>2. B[p] = On(N - 1)
        BY <3>1, Zenon
      <4>3. QED
        BY <1>3, <4>1, <4>2
    <3>2. CASE p \in start .. return
      BY <1>1, <3>2
    <3>3. CASE p = start - 1
      BY <1>3, <3>3
    <3>4. CASE p < low
      <4>1. ~(p > return) /\ ~(p >= start) /\ p # start - 1
        BY <3>4
      <4>2. B[p] = n
        BY <3>4, <4>1
      <4>3. QED
        BY <4>2
    <3>5. CASE p \in low .. start - 2
      <4>1. PICK i \in 0 .. N - 1 : i = (p - low) \div 4
        BY <1>6, <3>5
      <4>2. ~(p > return) /\ ~(p >= start) /\ p # start - 1 /\ ~(p < low)
        BY <3>5
      <4>3. B[p] = IF (p - low) - 4 * i \in {1, 2} THEN In(i) ELSE On(i)
        BY <4>1, <4>2
      <4>4. QED
        BY <1>3, <4>3
    <3>6. QED
      BY <3>1, <3>2, <3>3, <3>4, <3>5
  <2>2. QED
    BY <2>1
<1>8. ASSUME NEW i \in 0 .. N - 2
      PROVE  /\ B[low + 4 * i] = On(i) /\ B[low + 4 * i + 1] = In(i)
             /\ B[low + 4 * i + 2] = In(i) /\ B[low + 4 * i + 3] = On(i)
  <2>1. ASSUME NEW r \in 0 .. 3
        PROVE  B[low + 4 * i + r] = IF r \in {1, 2} THEN In(i) ELSE On(i)
    <3>1. PICK x \in Nat : x = low + 4 * i + r
      OBVIOUS
    <3>2. x >= low /\ x < start - 2 /\ x - low = i * 4 + r
      BY <3>1
    <3>3. (x - low) \div 4 = i
      BY <3>2, Division
    <3>4. ~(x > return) /\ ~(x >= start) /\ x # start - 1 /\ ~(x < low)
          /\ (x - low) - 4 * i = r
      BY <3>2
    <3>5. B[x] = IF r \in {1, 2} THEN In(i) ELSE On(i)
      BY <3>3, <3>4
    <3>6. QED
      BY <3>1, <3>5
  <2>2. low + 4 * i + 0 = low + 4 * i
    OBVIOUS
  <2> HIDE DEF B
  <2>3. QED
    BY <2>1, <2>2
<1>9. B[low + 4 * (N - 1)] = On(N - 1) /\ B[start - 1] = On(N - 1)
  <2>1. PICK x \in Nat : x = low + 4 * (N - 1)
    OBVIOUS
  <2>2. x - low = (N - 1) * 4 + 0 /\ x = start - 2 /\ start - 1 \in Nat
    BY <2>1
  <2>3. (x - low) \div 4 = N - 1 /\ (x - low) - 4 * (N - 1) = 0
    BY <2>2, Division
  <2>4. ~(x > return) /\ ~(x >= start) /\ x # start - 1 /\ ~(x < low)
    BY <2>2
  <2>5. B[x] = On(N - 1)
    BY <2>3, <2>4
  <2>6. ~(start - 1 > return) /\ ~(start - 1 >= start)
    OBVIOUS
  <2>7. B[start - 1] = On(N - 1)
    BY <2>2, <2>6
  <2>8. QED
    BY <2>1, <2>5, <2>7
<1>10. \A p \in start .. return : B[p] = A[p]
  OBVIOUS
<1>11. B[return + 1] = On(N - 1) /\ B[low] = n
  <2>1. low = low + 4 * 0 /\ (N = 1 \/ 0 \in 0 .. N - 2)
    OBVIOUS
  <2>2. CASE N = 1
    BY <1>5, <1>9, <2>2
  <2>3. CASE 0 \in 0 .. N - 2
    <3>1. B[low + 4 * 0] = On(0)
      BY <1>8, <2>3
    <3>2. QED
      BY <1>5, <2>1, <3>1
  <2>4. B[return + 1] = On(N - 1)
    OBVIOUS
  <2>5. QED
    BY <2>1, <2>2, <2>3, <2>4
<1> HIDE DEF B
<1>12. DOMAIN to.jumpTable = 1 .. Len(to.jumpTable) /\ Len(to.jumpTable) \in Nat
  BY GeneratorType
<1> USE <1>0
<1>13. ASSUME NEW i \in 0 .. N - 2
       PROVE  /\ Right(rows, B, to, low, return + 1, low + 4 * i)
              /\ Right(rows, B, to, low, return + 1, low + 4 * i + 1)
              /\ Right(rows, B, to, low, return + 1, low + 4 * i + 2)
              /\ Right(rows, B, to, low, return + 1, low + 4 * i + 3)
  <2>1. i \in 0 .. N - 1 /\ i + 1 \in 0 .. N - 1 /\ low + 4 * i \in Nat
        /\ (low + 4 * i + 1) + 1 = low + 4 * i + 2 /\ (low + 4 * i + 2) + 1 = low + 4 * i + 3
        /\ (low + 4 * i + 3) + 1 = low + 4 * i + 4
    OBVIOUS
  <2>2. /\ B[low + 4 * i] = On(i) /\ B[low + 4 * i + 1] = In(i)
        /\ B[low + 4 * i + 2] = In(i) /\ B[low + 4 * i + 3] = On(i)
    BY <1>8
  <2>3. B[low + 4 * i + 4] = On(i + 1)
    <3>1. CASE i + 1 \in 0 .. N - 2
      <4>1. B[low + 4 * (i + 1)] = On(i + 1) /\ low + 4 * (i + 1) = low + 4 * i + 4
        BY <1>8, <3>1, SMTT(60)
      <4>2. QED
        BY <4>1
    <3>2. CASE i + 1 = N - 1
      <4>1. low + 4 * i + 4 = low + 4 * (N - 1)
        BY <3>2
      <4>2. QED
        BY <1>9, <3>2, <4>1
    <3>3. QED
      BY <3>1, <3>2
  <2>4. Right(rows, B, to, low, return + 1, low + 4 * i)
    <3>1. Follows(rows, push, On(i), In(i))
      BY <1>3, <2>1 DEF Follows
    <3>2. to.code[low + 4 * i + 1] = push /\ push \in Instruction
      BY <2>1
    <3>3. QED
      BY <2>2, <3>1, <3>2, FollowsIsRight, Zenon
  <2>5. Right(rows, B, to, low, return + 1, low + 4 * i + 1)
    <3>1. label + 1 \in DOMAIN to.jumpTable /\ start \in low .. return + 1
      BY <1>12
    <3>2. B[start] = Called(In(i))
      BY <1>1, <1>3, <1>10, <2>1
    <3>3. to.code[(low + 4 * i + 1) + 1] = call
      BY <2>1
    <3>4. B[(low + 4 * i + 1) + 1] = B[low + 4 * i + 1] /\ B[start] = Called(B[low + 4 * i + 1])
      BY <2>1, <2>2, <3>2
    <3>5. call.row + 1 \in DOMAIN to.jumpTable /\ to.jumpTable[call.row + 1] = start
          /\ call.opcode = "Call" /\ call \in Instruction
      BY <3>1
    <3>6. QED
      BY <3>1, <3>3, <3>4, <3>5, CallIsRight, Zenon
  <2>6. Right(rows, B, to, low, return + 1, low + 4 * i + 2)
    <3>1. Follows(rows, pop, In(i), On(i))
      BY <1>3, <2>1 DEF Follows
    <3>2. to.code[(low + 4 * i + 2) + 1] = pop /\ pop \in Instruction
      BY <2>1
    <3>3. B[low + 4 * i + 2] = In(i) /\ B[(low + 4 * i + 2) + 1] = On(i)
      BY <2>1, <2>2, Zenon
    <3>4. QED
      BY <3>1, <3>2, <3>3, FollowsIsRight, Zenon
  <2>7. Right(rows, B, to, low, return + 1, low + 4 * i + 3)
    <3>1. Follows(rows, increment, On(i), On(i + 1))
      BY <1>4 DEF Follows
    <3>2. to.code[(low + 4 * i + 3) + 1] = increment /\ increment \in Instruction
      BY <2>1
    <3>3. B[low + 4 * i + 3] = On(i) /\ B[(low + 4 * i + 3) + 1] = On(i + 1)
      BY <2>1, <2>2, <2>3, Zenon
    <3>4. QED
      BY <3>1, <3>2, <3>3, FollowsIsRight, Zenon
  <2>8. QED
    BY <2>4, <2>5, <2>6, <2>7, Zenon
<1>14. Right(rows, B, to, low, return + 1, start - 2)
  <2>1. start - 2 = low + 4 * (N - 1) /\ (start - 2) + 1 = low + 4 * (N - 1) + 1
        /\ (start - 2) + 1 = start - 1
    OBVIOUS
  <2>2. to.code[(start - 2) + 1] = call
    BY <2>1
  <2>3. B[start - 2] = On(N - 1) /\ B[(start - 2) + 1] = On(N - 1)
    BY <1>9, <2>1
  <2>4. B[start] = Called(On(N - 1))
    <3>1. N - 1 \in 0 .. N - 1 /\ start \in start .. return
      OBVIOUS
    <3>2. QED
      BY <1>1, <1>3, <1>10, <3>1
  <2>5. label + 1 \in DOMAIN to.jumpTable /\ start \in low .. return + 1
    BY <1>12
  <2>6. B[start] = Called(B[start - 2]) /\ B[(start - 2) + 1] = B[start - 2]
    BY <2>3, <2>4, Zenon
  <2>7. call.row + 1 \in DOMAIN to.jumpTable /\ to.jumpTable[call.row + 1] = start
        /\ call.opcode = "Call" /\ call \in Instruction
    BY <2>5
  <2>8. QED
    BY <2>2, <2>5, <2>6, <2>7, CallIsRight, Zenon
<1>15. Right(rows, B, to, low, return + 1, start - 1)
  <2>1. to.code[(start - 1) + 1] = jump /\ (label + 1) + 1 = label + 2
    OBVIOUS
  <2>2. label + 2 \in DOMAIN to.jumpTable /\ return + 1 \in low .. return + 1
    BY <1>12
  <2>3. to.jumpTable[jump.row + 1] = return + 1 /\ jump.row + 1 \in DOMAIN to.jumpTable
    BY <2>1, <2>2
  <2>4. B[return + 1] = B[start - 1]
    BY <1>9, <1>11
  <2>5. QED
    BY <2>1, <2>2, <2>3, <2>4, SMTT(60) DEF Right
<1>16. ASSUME NEW p \in start .. return - 1 PROVE Right(rows, B, to, low, return + 1, p)
  <2>1. Right(rows, A, to, start, return, p) /\ B[p] = A[p] /\ B[p + 1] = A[p + 1]
    BY <1>1, <1>10 DEF Fine
  <2>2. \A t \in start .. return : B[t] = A[t] /\ t \in low .. return + 1
    <3> HIDE <1>0
    <3>1. start >= low /\ \A t \in start .. return : B[t] = A[t]
      BY <1>10
    <3>2. \A t \in start .. return : t \in low .. return + 1
      BY <3>1
    <3>3. QED
      BY <3>1, <3>2
  <2>3. QED
    BY <2>1, <2>2, Zenon DEF Right
<1>17. Right(rows, B, to, low, return + 1, return)
  <2>1. B[return] = Called(n)
    BY <1>1, <1>10
  <2>2. B[return].slots = 0 /\ B[return].rank = B[return].top /\ ~B[return].main
    BY <2>1 DEF Called
  <2>3. QED
    BY <2>2 DEF Right
<1>18. Fine(rows, B, to, low, return + 1)
  <2>1. SUFFICES ASSUME NEW p \in low .. (return + 1) - 1
                 PROVE  Right(rows, B, to, low, return + 1, p)
    BY DEF Fine
  <2>2. CASE p \in low .. start - 3
    <3>1. \E i \in 0 .. N - 2 : \/ p = low + 4 * i \/ p = low + 4 * i + 1
                                \/ p = low + 4 * i + 2 \/ p = low + 4 * i + 3
      <4>1. (p - low) \div 4 \in 0 .. N - 2
        BY <2>2
      <4>2. \/ p = low + 4 * ((p - low) \div 4) \/ p = low + 4 * ((p - low) \div 4) + 1
            \/ p = low + 4 * ((p - low) \div 4) + 2 \/ p = low + 4 * ((p - low) \div 4) + 3
        BY <2>2
      <4>3. QED
        BY <4>1, <4>2
    <3>2. QED
      BY <1>13, <3>1
  <2>3. CASE p = start - 2
    BY <1>14, <2>3
  <2>4. CASE p = start - 1
    BY <1>15, <2>4
  <2>5. CASE p \in start .. return - 1
    BY <1>16, <2>5
  <2>6. CASE p = return
    BY <1>17, <2>6
  <2>7. \/ p \in low .. start - 3 \/ p = start - 2 \/ p = start - 1
        \/ p \in start .. return - 1 \/ p = return
    OBVIOUS
  <2>8. QED
    BY <2>2, <2>3, <2>4, <2>5, <2>6, <2>7
<1>19. Sound(rows, to, low, return + 1, n, On(N - 1))
  BY <1>7, <1>11, <1>18, Zenon DEF Sound
<1>20. QED
  BY <1>19 DEF On

FourTimes(s, n, a, b, c, d) ==
  /\ s \in Seq(Instruction) /\ Len(s) = 4 * n
  /\ \A i \in 0 .. n - 1 : /\ s[4 * i + 1] = a /\ s[4 * i + 2] = b
                           /\ s[4 * i + 3] = c /\ s[4 * i + 4] = d

LEMMA Repeated ==
  ASSUME NEW a \in Instruction, NEW b \in Instruction, NEW c \in Instruction,
         NEW d \in Instruction, NEW n \in Nat, NEW s, s = Repeat(<<a, b, c, d>>, n)
  PROVE  FourTimes(s, n, a, b, c, d)
<1>1. PICK four : four = <<a, b, c, d>>
  OBVIOUS
<1>2. /\ Len(four) = 4 /\ four[1] = a /\ four[2] = b /\ four[3] = c /\ four[4] = d
  BY <1>1
<1>3. s = [i \in 1 .. n * Len(four) |-> four[((i - 1) % Len(four)) + 1]]
  BY <1>1, Zenon DEF Repeat
<1>4. s = [i \in 1 .. 4 * n |-> four[((i - 1) % 4) + 1]]
  <2>1. n * 4 = 4 * n
    OBVIOUS
  <2>2. QED
    BY <1>2, <1>3, <2>1
<1>5. ASSUME NEW i \in 1 .. 4 * n PROVE four[((i - 1) % 4) + 1] \in Instruction
  <2>1. (i - 1) % 4 \in 0 .. 3
    OBVIOUS
  <2>2. QED
    BY <1>2, <2>1
<1>6. s \in Seq(Instruction) /\ Len(s) = 4 * n
  <2>1. 4 * n \in Nat
    OBVIOUS
  <2>2. s \in [1 .. 4 * n -> Instruction]
    BY <1>4, <1>5
  <2>3. QED
    BY <2>1, <2>2
<1>7. ASSUME NEW i \in 0 .. n - 1
      PROVE  /\ s[4 * i + 1] = a /\ s[4 * i + 2] = b
             /\ s[4 * i + 3] = c /\ s[4 * i + 4] = d
  <2>1. ASSUME NEW r \in 0 .. 3 PROVE s[4 * i + r + 1] = four[r + 1]
    <3>1. PICK x \in 1 .. 4 * n : x = 4 * i + r + 1
      OBVIOUS
    <3>2. (x - 1) % 4 = r
      BY <3>1
    <3>3. QED
      BY <1>4, <3>1, <3>2, SMTT(60)
  <2>2. /\ s[4 * i + 0 + 1] = a /\ s[4 * i + 1 + 1] = b
        /\ s[4 * i + 2 + 1] = c /\ s[4 * i + 3 + 1] = d
    BY <1>2, <2>1
  <2>3. /\ 4 * i + 0 + 1 = 4 * i + 1 /\ 4 * i + 1 + 1 = 4 * i + 2
        /\ 4 * i + 2 + 1 = 4 * i + 3 /\ 4 * i + 3 + 1 = 4 * i + 4
    OBVIOUS
  <2>4. QED
    BY <2>2, <2>3
<1>8. QED
  BY <1>6, <1>7 DEF FourTimes

(* The size of a generator: the instructions and the labels that it has.   *)
Sized(g, n, labels) == g \in Generator /\ Len(g.code) = n /\ Len(g.jumpTable) = labels

LEMMA SizedType ==
  ASSUME NEW g \in Generator
  PROVE  \E n \in Nat, labels \in Nat : Sized(g, n, labels)
BY GeneratorType DEF Sized

LEMMA SizedGrows ==
  ASSUME NEW g, NEW n \in Nat, NEW l \in Nat, Sized(g, n, l), NEW h, Grows(g, h)
  PROVE  /\ \E m \in Nat, k \in Nat : Sized(h, m, k) /\ n <= m /\ l <= k
         /\ \A i \in 1 .. n : h.code[i] = g.code[i]
         /\ \A i \in 1 .. l : h.jumpTable[i] = g.jumpTable[i]
<1>1. h \in Generator /\ Len(h.code) \in Nat /\ Len(h.jumpTable) \in Nat
  BY GeneratorType DEF Grows
<1>2. n <= Len(h.code) /\ l <= Len(h.jumpTable)
  BY DEF Sized, Grows
<1>3. Sized(h, Len(h.code), Len(h.jumpTable))
  BY <1>1, Zenon DEF Sized
<1>4. (\A i \in 1 .. n : h.code[i] = g.code[i]) /\ \A i \in 1 .. l : h.jumpTable[i] = g.jumpTable[i]
  BY DEF Sized, Grows
<1>5. QED
  BY <1>1, <1>2, <1>3, <1>4

LEMMA EmitSized ==
  ASSUME NEW g, NEW n \in Nat, NEW l \in Nat, Sized(g, n, l),
         NEW c \in Instruction, NEW h, h = Emit(g, c)
  PROVE  Sized(h, n + 1, l) /\ Grows(g, h) /\ h.code[n + 1] = c
BY EmittedOne, EmitGrows DEF Sized

LEMMA AllocateSized ==
  ASSUME NEW g, NEW n \in Nat, NEW l \in Nat, Sized(g, n, l), NEW h, h = AllocateLabel(g)
  PROVE  Sized(h, n, l + 1) /\ Grows(g, h)
BY Allocated, AllocateGrows DEF Sized

LEMMA PlaceSized ==
  ASSUME NEW g, NEW n \in Nat, NEW l \in Nat, Sized(g, n, l), NEW label \in Nat, label < l,
         NEW h, h = PlaceLabel(g, label)
  PROVE  /\ Sized(h, n, l) /\ h.code = g.code /\ h.jumpTable[label + 1] = n
         /\ \A i \in 1 .. l : i # label + 1 => h.jumpTable[i] = g.jumpTable[i]
BY Placed DEF Sized

(* The four instructions n times, from the place low on.                   *)
FourAt(h, low, n, a, b, c, d) ==
  \A i \in 0 .. n - 1 : /\ h.code[low + 4 * i + 1] = a /\ h.code[low + 4 * i + 2] = b
                        /\ h.code[low + 4 * i + 3] = c /\ h.code[low + 4 * i + 4] = d

LEMMA FourSized ==
  ASSUME NEW g, NEW low \in Nat, NEW l \in Nat, Sized(g, low, l), NEW n \in Nat, NEW calls,
         NEW a, NEW b, NEW c, NEW d, FourTimes(calls, n, a, b, c, d),
         NEW h, h = EmitAll(g, calls)
  PROVE  Sized(h, low + 4 * n, l) /\ Grows(g, h) /\ FourAt(h, low, n, a, b, c, d)
<1>1. calls \in Seq(Instruction) /\ Len(calls) = 4 * n
  BY DEF FourTimes
<1>2. g \in Generator
  BY DEF Sized
<1>3. /\ h \in Generator /\ h.jumpTable = g.jumpTable
      /\ Len(h.code) = Len(g.code) + Len(calls)
      /\ \A i \in 1 .. Len(g.code) : h.code[i] = g.code[i]
      /\ \A i \in 1 .. Len(calls) : h.code[Len(g.code) + i] = calls[i]
  BY <1>1, <1>2, Emitted
<1>4. Grows(g, h) /\ Sized(h, low + 4 * n, l)
  BY <1>1, <1>2, <1>3 DEF Grows, Sized
<1>5. ASSUME NEW j \in 1 .. 4 * n PROVE h.code[low + j] = calls[j]
  BY <1>1, <1>3 DEF Sized
<1>6. ASSUME NEW i \in 0 .. n - 1
      PROVE  /\ h.code[low + 4 * i + 1] = a /\ h.code[low + 4 * i + 2] = b
             /\ h.code[low + 4 * i + 3] = c /\ h.code[low + 4 * i + 4] = d
  <2>1. /\ 4 * i + 1 \in 1 .. 4 * n /\ 4 * i + 2 \in 1 .. 4 * n
        /\ 4 * i + 3 \in 1 .. 4 * n /\ 4 * i + 4 \in 1 .. 4 * n
    OBVIOUS
  <2>2. /\ low + (4 * i + 1) = low + 4 * i + 1 /\ low + (4 * i + 2) = low + 4 * i + 2
        /\ low + (4 * i + 3) = low + 4 * i + 3 /\ low + (4 * i + 4) = low + 4 * i + 4
    OBVIOUS
  <2>3. /\ calls[4 * i + 1] = a /\ calls[4 * i + 2] = b
        /\ calls[4 * i + 3] = c /\ calls[4 * i + 4] = d
    BY DEF FourTimes
  <2>4. /\ h.code[low + (4 * i + 1)] = a /\ h.code[low + (4 * i + 2)] = b
        /\ h.code[low + (4 * i + 3)] = c /\ h.code[low + (4 * i + 4)] = d
    BY <1>5, <2>1, <2>3
  <2>5. QED
    BY <2>2, <2>4
<1>7. FourAt(h, low, n, a, b, c, d)
  BY <1>6 DEF FourAt
<1>8. QED
  BY <1>4, <1>7

(* What the generator s has of the N calls, the jump and the place of the  *)
(* subroutine.                                                             *)
HasCalls(s, N, low, start, label, push, call, pop, increment, jump) ==
  /\ Sized(s, start, label + 2) /\ s.jumpTable[label + 1] = start
  /\ \A i \in 0 .. N - 2 :
       /\ s.code[low + 4 * i + 1] = push /\ s.code[low + 4 * i + 2] = call
       /\ s.code[low + 4 * i + 3] = pop /\ s.code[low + 4 * i + 4] = increment
  /\ s.code[low + 4 * (N - 1) + 1] = call /\ s.code[start] = jump

LEMMA CallsGenerated ==
  ASSUME NEW g, NEW low \in Nat, NEW label \in Nat, Sized(g, low, label),
         NEW N \in Nat \ {0}, NEW push, NEW call \in Instruction,
         NEW pop, NEW increment, NEW jump \in Instruction, NEW calls,
         FourTimes(calls, N - 1, push, call, pop, increment),
         NEW shifted, shifted = AllocateLabel(g),
         NEW b, b = EmitAll(shifted, calls), NEW c, c = Emit(b, call),
         NEW called, called = AllocateLabel(c), NEW e, e = Emit(called, jump),
         NEW s, s = PlaceLabel(e, label),
         NEW start \in Nat, start = low + 4 * (N - 1) + 2
  PROVE  /\ Grows(g, s)
         /\ HasCalls(s, N, low, start, label, push, call, pop, increment, jump)
<1>1. Sized(shifted, low, label + 1) /\ Grows(g, shifted)
  BY AllocateSized
<1>2. N - 1 \in Nat /\ (N - 1) - 1 = N - 2 /\ label + 1 \in Nat /\ (label + 1) + 1 = label + 2
  OBVIOUS
<1>3. PICK high \in Nat : high = low + 4 * (N - 1)
  BY <1>2
<1>4. Sized(b, high, label + 1) /\ Grows(shifted, b)
      /\ FourAt(b, low, N - 1, push, call, pop, increment)
  <2>1. PICK M \in Nat : M = N - 1
    BY <1>2
  <2>2. PICK l \in Nat : l = label + 1
    BY <1>2
  <2>3. Sized(shifted, low, l) /\ FourTimes(calls, M, push, call, pop, increment)
    BY <1>1, <2>1, <2>2
  <2>4. /\ Sized(b, low + 4 * M, l) /\ Grows(shifted, b)
        /\ FourAt(b, low, M, push, call, pop, increment)
    BY <2>3, FourSized, Zenon
  <2>5. QED
    BY <1>3, <2>1, <2>2, <2>4
<1>5. Sized(c, high + 1, label + 1) /\ Grows(b, c) /\ c.code[high + 1] = call
  BY <1>2, <1>4, EmitSized
<1>6. Sized(called, high + 1, label + 2) /\ Grows(c, called)
  BY <1>2, <1>3, <1>5, AllocateSized
<1>7. start = high + 2 /\ (high + 1) + 1 = high + 2 /\ label + 2 \in Nat
  BY <1>3
<1>8. Sized(e, high + 2, label + 2) /\ Grows(called, e) /\ e.code[high + 2] = jump
  <2>1. high + 1 \in Nat /\ Sized(e, (high + 1) + 1, label + 2)
        /\ Grows(called, e) /\ e.code[(high + 1) + 1] = jump
    <3>1. high + 1 \in Nat
      OBVIOUS
    <3>2. QED
      BY <1>6, <1>7, <3>1, EmitSized
  <2>2. QED
    BY <1>7, <2>1
<1>9. Grows(b, e) /\ Grows(c, e) /\ Grows(g, e)
  <2>1. Grows(c, e)
    BY <1>6, <1>8, GrowsOn
  <2>2. Grows(b, e)
    BY <1>5, <2>1, GrowsOn
  <2>3. Grows(shifted, e)
    BY <1>4, <2>2, GrowsOn
  <2>4. QED
    BY <1>1, <2>1, <2>2, <2>3, GrowsOn
<1>10. label < label + 2
  OBVIOUS
<1>11. /\ s.code = e.code /\ Sized(s, high + 2, label + 2)
       /\ s.jumpTable[label + 1] = high + 2
  <2>1. high + 2 \in Nat
    OBVIOUS
  <2>2. QED
    <3>1. PICK L \in Nat, H \in Nat : label + 2 = L /\ high + 2 = H
      BY <1>7, <2>1
    <3>2. Sized(e, H, L) /\ label < L
      BY <1>8, <3>1
    <3>3. s.code = e.code /\ Sized(s, H, L) /\ s.jumpTable[label + 1] = H
      <4>1. e \in Generator /\ Len(e.jumpTable) = L /\ Len(e.code) = H
        BY <3>2 DEF Sized
      <4>2. label \in 0 .. Len(e.jumpTable) - 1
        BY <3>2, <4>1
      <4>3. /\ s \in Generator /\ s.code = e.code
            /\ Len(s.jumpTable) = Len(e.jumpTable) /\ s.jumpTable[label + 1] = Len(e.code)
        BY <4>1, <4>2, Placed
      <4>4. QED
        BY <4>1, <4>3 DEF Sized
    <3>4. QED
      BY <3>1, <3>3
<1>12. Grows(g, s)
  <2>1. label \in Len(g.jumpTable) .. Len(e.jumpTable) - 1
    BY <1>8 DEF Sized
  <2>2. QED
    BY <1>9, <2>1, PlaceGrows
<1>13. \A i \in 1 .. high : s.code[i] = b.code[i]
  <2>1. \A i \in 1 .. high : e.code[i] = b.code[i]
    BY <1>2, <1>4, <1>9, SizedGrows
  <2>2. QED
    BY <1>11, <2>1
<1>14. s.code[high + 1] = call
  <2>1. high + 1 \in 1 .. high + 1 /\ high + 1 \in Nat
    OBVIOUS
  <2>2. QED
    <3>1. e.code[high + 1] = c.code[high + 1]
      BY <1>2, <1>5, <1>9, <2>1, SizedGrows
    <3>2. QED
      BY <1>5, <1>11, <3>1
<1>15. ASSUME NEW i \in 0 .. N - 2
       PROVE  /\ s.code[low + 4 * i + 1] = push /\ s.code[low + 4 * i + 2] = call
              /\ s.code[low + 4 * i + 3] = pop /\ s.code[low + 4 * i + 4] = increment
  <2>1. /\ low + 4 * i + 1 \in 1 .. high /\ low + 4 * i + 2 \in 1 .. high
        /\ low + 4 * i + 3 \in 1 .. high /\ low + 4 * i + 4 \in 1 .. high
    BY <1>3
  <2>2. /\ b.code[low + 4 * i + 1] = push /\ b.code[low + 4 * i + 2] = call
        /\ b.code[low + 4 * i + 3] = pop /\ b.code[low + 4 * i + 4] = increment
    <3>1. i \in 0 .. (N - 1) - 1
      BY <1>2
    <3>2. QED
      BY <1>4, <3>1, Zenon DEF FourAt
  <2>3. QED
    BY <1>13, <2>1, <2>2
<1>16. HasCalls(s, N, low, start, label, push, call, pop, increment, jump)
  BY <1>3, <1>7, <1>8, <1>11, <1>14, <1>15 DEF HasCalls
<1>17. QED
  BY <1>12, <1>16

LEMMA KeepsSized ==
  ASSUME NEW g, NEW n \in Nat, NEW l \in Nat, Sized(g, n, l),
         NEW h, NEW m \in Nat, NEW k \in Nat, Sized(h, m, k), NEW to, Keeps(g, h, to)
  PROVE  /\ \A i \in n + 1 .. m : to.code[i] = h.code[i]
         /\ \A i \in l + 1 .. k : to.jumpTable[i] = h.jumpTable[i]
         /\ k <= Len(to.jumpTable)
BY DEF Sized, Keeps

(* A subroutine that compiles, behind its calls.                           *)
LEMMA CallsCompile ==
  ASSUME NEW rows, NEW rank \in Rank, NEW a, NEW low \in Nat, NEW label \in Nat,
         Sized(a, low, label), NEW N \in Nat \ {0},
         NEW push \in Instruction, push.opcode = "Push",
         NEW call \in Instruction, call.opcode = "Call", label < c_rowFieldSize => call.row = label,
         NEW pop \in Instruction, pop.opcode = "Pop",
         NEW increment \in Instruction, increment.opcode = "IncrementOffset",
         NEW jump \in Instruction, jump.opcode = "Jmp",
         label + 1 < c_rowFieldSize => jump.row = label + 1,
         NEW ret \in Instruction, ret.opcode = "Return",
         NEW start \in Nat, start = low + 4 * (N - 1) + 2,
         NEW s, HasCalls(s, N, low, start, label, push, call, pop, increment, jump),
         Grows(a, s), NEW k, CompilesTo(rows, rank, s, k), NEW r, r = Emit(k, ret),
         NEW e, e = PlaceLabel(r, label + 1)
  PROVE  /\ Grows(a, e)
         /\ \A to : Keeps(a, e, to) /\ Fits(rows, to) =>
              \A n \in Note :
                /\ n.rank = rank
                /\ \A i \in 0 .. N - 1 : Noted(n, n.rank, n.k + i, n.slots) \in Note
                => Sound(rows, to, Len(a.code), Len(e.code), n,
                         Noted(n, n.rank, n.k + (N - 1), n.slots))
<1>3. label + 2 \in Nat /\ (label + 1) + 1 = label + 2 /\ label + 1 \in Nat
  OBVIOUS
<1>4. PICK L \in Nat : L = label + 2
  BY <1>3
<1>5. Sized(s, start, L) /\ Grows(s, k)
  BY <1>4 DEF HasCalls, CompilesTo
<1>6. PICK return \in Nat, kl \in Nat : Sized(k, return, kl) /\ start <= return /\ L <= kl
  BY <1>5, SizedGrows
<1>7. PICK end \in Nat : end = return + 1
  OBVIOUS
<1>8. Sized(r, end, kl) /\ Grows(k, r) /\ r.code[end] = ret
  BY <1>6, <1>7, EmitSized
<1>9. PICK l \in Nat : l = label + 1 /\ l < kl /\ l + 1 = L /\ l >= label
  BY <1>4, <1>6
<1>10. /\ Sized(e, end, kl) /\ e.code = r.code /\ e.jumpTable[L] = end
       /\ \A i \in 1 .. kl : i # L => e.jumpTable[i] = r.jumpTable[i]
  <2>1. e = PlaceLabel(r, l)
    BY <1>9
  <2>2. Sized(e, end, kl) /\ e.code = r.code /\ e.jumpTable[l + 1] = end
        /\ \A i \in 1 .. kl : i # l + 1 => e.jumpTable[i] = r.jumpTable[i]
    BY <1>8, <1>9, <2>1, PlaceSized
  <2>3. QED
    BY <1>9, <2>2
<1>11. Grows(s, r) /\ Grows(a, r) /\ Grows(a, k)
  BY <1>5, <1>8, GrowsOn
<1>12. Grows(a, e) /\ l \in 0 .. Len(r.jumpTable) - 1
  <2>1. l \in Len(a.jumpTable) .. Len(r.jumpTable) - 1
    BY <1>8, <1>9 DEF Sized
  <2>2. e = PlaceLabel(r, l)
    BY <1>9
  <2>3. QED
    BY <1>8, <1>9, <1>11, <2>1, <2>2, PlaceGrows DEF Sized
<1>13. Keeps(s, k, e)
  <2>1. Keeps(s, k, r)
    BY <1>5, <1>8, KeepsChain
  <2>2. l < Len(s.jumpTable)
    BY <1>5, <1>9 DEF Sized
  <2>3. s \in Generator /\ k \in Generator /\ r \in Generator
    BY <1>5, <1>6, <1>8 DEF Sized
  <2>4. e = PlaceLabel(r, l)
    BY <1>9
  <2>5. QED
    BY <1>12, <2>1, <2>2, <2>3, <2>4, KeepsPlaced
<1>14. /\ \A i \in 1 .. start : e.code[i] = s.code[i]
       /\ e.code[end] = ret /\ e.jumpTable[label + 1] = start
  <2>1. /\ \A i \in 1 .. start : r.code[i] = s.code[i]
        /\ \A i \in 1 .. L : r.jumpTable[i] = s.jumpTable[i]
    <3>1. PICK f : f = r
      OBVIOUS
    <3>2. Sized(s, start, L) /\ Grows(s, f)
      BY <1>5, <1>11, <3>1
    <3>3. /\ \A i \in 1 .. start : f.code[i] = s.code[i]
          /\ \A i \in 1 .. L : f.jumpTable[i] = s.jumpTable[i]
      BY <3>2 DEF Sized, Grows
    <3>4. QED
      BY <3>1, <3>3
  <2>2. s.jumpTable[label + 1] = start /\ label + 1 \in 1 .. L /\ label + 1 # L
        /\ label + 1 \in 1 .. kl
    BY <1>4, <1>6 DEF HasCalls
  <2>3. QED
    BY <1>8, <1>10, <2>1, <2>2
<1>15. ASSUME NEW to, Keeps(a, e, to), Fits(rows, to), NEW n \in Note, n.rank = rank,
              \A i \in 0 .. N - 1 : Noted(n, n.rank, n.k + i, n.slots) \in Note
       PROVE  Sound(rows, to, Len(a.code), Len(e.code), n,
                    Noted(n, n.rank, n.k + (N - 1), n.slots))
  <2>1. /\ \A i \in low + 1 .. end : to.code[i] = e.code[i]
        /\ \A i \in label + 1 .. kl : to.jumpTable[i] = e.jumpTable[i]
        /\ kl <= Len(to.jumpTable)
    <3>1. PICK f : f = e
      OBVIOUS
    <3>2. Sized(f, end, kl) /\ Keeps(a, f, to)
      BY <1>10, <1>15, <3>1
    <3>3. /\ \A i \in low + 1 .. end : to.code[i] = f.code[i]
          /\ \A i \in label + 1 .. kl : to.jumpTable[i] = f.jumpTable[i]
          /\ kl <= Len(to.jumpTable)
      BY <3>2, KeepsSized, Zenon
    <3>4. QED
      BY <3>1, <3>3
  <2>2. Sound(rows, to, start, return, Called(n), Called(n))
    <3>1. Called(n) \in Note /\ Enters(Called(n), rank)
      BY <1>15, NoteType DEF Called, Enters, Value, Rank
    <3>2. e \in Generator
      BY <1>10 DEF Sized
    <3>3. Sound(rows, to, Len(s.code), Len(k.code), Called(n), Called(n))
      BY <1>13, <1>15, <3>1, <3>2, Piece
    <3>4. QED
      BY <1>5, <1>6, <3>3 DEF Sized
  <2>3. label + 2 <= Len(to.jumpTable) /\ label + 1 < c_rowFieldSize /\ label < c_rowFieldSize
        /\ Len(to.jumpTable) \in Nat /\ to \in Generator
    <3>1. Len(to.jumpTable) \in Nat /\ Len(to.jumpTable) <= c_rowFieldSize /\ to \in Generator
          /\ c_rowFieldSize \in Nat
      BY <1>15, GeneratorType, PlansAssumption DEF Fits
    <3>2. QED
      BY <1>4, <1>6, <2>1, <3>1, SMTT(60)
  <2>4. to.jumpTable[label + 1] = start /\ to.jumpTable[label + 2] = return + 1
    <3>1. label + 1 \in label + 1 .. kl /\ label + 2 \in label + 1 .. kl
      BY <1>4, <1>6
    <3>2. QED
      BY <1>4, <1>7, <1>10, <1>14, <2>1, <3>1
  <2>5. \A i \in low + 1 .. start : to.code[i] = s.code[i]
    BY <1>6, <1>7, <1>14, <2>1
  <2>6. to.code[return + 1] = ret
    <3>1. return + 1 \in low + 1 .. end
      BY <1>6, <1>7
    <3>2. QED
      BY <1>7, <1>14, <2>1, <3>1
  <2>7. ASSUME NEW i \in 0 .. N - 2
        PROVE  /\ to.code[low + 4 * i + 1] = push /\ to.code[low + 4 * i + 2] = call
               /\ to.code[low + 4 * i + 3] = pop /\ to.code[low + 4 * i + 4] = increment
    <3>1. /\ s.code[low + 4 * i + 1] = push /\ s.code[low + 4 * i + 2] = call
          /\ s.code[low + 4 * i + 3] = pop /\ s.code[low + 4 * i + 4] = increment
      BY Zenon DEF HasCalls
    <3>2. /\ low + 4 * i + 1 \in low + 1 .. start /\ low + 4 * i + 2 \in low + 1 .. start
          /\ low + 4 * i + 3 \in low + 1 .. start /\ low + 4 * i + 4 \in low + 1 .. start
      OBVIOUS
    <3>3. QED
      BY <2>5, <3>1, <3>2
  <2>8. to.code[low + 4 * (N - 1) + 1] = call /\ to.code[start] = jump
    <3>1. low + 4 * (N - 1) + 1 \in low + 1 .. start /\ start \in low + 1 .. start
      OBVIOUS
    <3>2. s.code[low + 4 * (N - 1) + 1] = call /\ s.code[start] = jump
      BY Zenon DEF HasCalls
    <3>3. QED
      BY <2>5, <3>1, <3>2
  <2>9. Sound(rows, to, low, return + 1, n, Noted(n, n.rank, n.k + (N - 1), n.slots))
    <3>1. call.row = label /\ jump.row = label + 1
      BY <2>3
    <3>2. Placing(to, low, N, start, return, label, push, call, pop, increment, jump, ret)
      BY <2>3, <2>4, <2>6, <2>7, <2>8, <3>1, Zenon DEF Placing
    <3>3. QED
      BY <1>6, <1>15, <2>2, <2>3, <3>2, Calls, Zenon
  <2>10. Len(a.code) = low /\ Len(e.code) = return + 1
    BY <1>7, <1>10 DEF Sized
  <2>11. QED
    BY <2>9, <2>10
<1>16. QED
  BY <1>12, <1>15

(* Shifting the offset to the left, counting on from there, and shifting   *)
(* back, wherever the count is.                                            *)
LEMMA Shifts ==
  ASSUME NEW n \in Note, NEW delta \in Nat, delta <= n.rank, NEW N \in Nat \ {0}, TwoTo[delta] = N,
         NEW left, left.opcode = "LeftShiftOffset", left.row = delta,
         NEW back, back.opcode = "RightShiftOffset", back.row = delta
  PROVE  \E m \in Note :
           /\ m.rank = n.rank - delta
           /\ \A i \in 0 .. N - 1 : Noted(m, m.rank, m.k + i, m.slots) \in Note
           /\ \A rows : Follows(rows, left, n, m)
           /\ \A rows : Follows(rows, back, Noted(m, m.rank, m.k + (N - 1), m.slots), n)
<1>1. /\ n.rank \in Nat /\ n.top \in Nat /\ n.k \in Nat /\ n.slots \in Nat /\ n.rank <= n.top
      /\ n = Noted(n, n.rank, n.k, n.slots) /\ n.top - n.rank \in Nat /\ n.k < TwoTo[n.top - n.rank]
      /\ n.top <= c_maxRankValue /\ n.main \in BOOLEAN
  BY NoteType
<1>2. c_maxRankValue \in Nat
  BY PlanAssumption
<1>3. PICK rank \in Nat : rank = n.rank - delta
  BY <1>1
<1>4. rank \in Rank /\ n.top \in Rank /\ rank <= n.top
  BY <1>1, <1>2, <1>3 DEF Rank
<1>5. PICK T \in Nat \ {0} : T = TwoTo[n.top - n.rank]
  BY <1>1, TwoToType
<1>6. TwoTo[n.top - rank] = T * N
  <2>1. PICK d \in Nat : d = n.top - n.rank
    BY <1>1
  <2>2. n.top - rank = d + delta
    BY <1>1, <1>3, <2>1
  <2>3. TwoTo[d + delta] = TwoTo[d] * TwoTo[delta]
    BY TwoToSum
  <2>4. QED
    BY <1>5, <2>1, <2>2, <2>3
<1>7. PICK x \in Nat : x = n.k
  BY <1>1
<1>8. PICK y \in Nat : y = x * N
  BY Products
<1>9. ASSUME NEW i \in 0 .. N - 1 PROVE y + i \in Nat /\ y + i < T * N
  <2>1. x \in 0 * T .. (0 + 1) * T - 1
    BY <1>1, <1>5, <1>7
  <2>2. x * N + i \in 0 * (T * N) .. (0 + 1) * (T * N) - 1
    BY <2>1, Nested
  <2>3. QED
    BY <1>8, <2>2
<1>10. PICK m : m = Noted(n, rank, y, n.slots)
  OBVIOUS
<1>11. m.rank = rank /\ m.top = n.top /\ m.k = y /\ m.slots = n.slots /\ m.main = n.main
  BY <1>10 DEF Noted
<1>12. ASSUME NEW i \in 0 .. N - 1 PROVE Noted(m, m.rank, m.k + i, m.slots) \in Note
  <2>1. PICK z \in Nat : z = y + i /\ z < T * N
    BY <1>9
  <2>2. PICK l : l = Noted(m, rank, z, n.slots)
    OBVIOUS
  <2>3. l = [rank |-> rank, top |-> n.top, k |-> z, slots |-> n.slots, main |-> n.main]
    BY <1>11, <2>2 DEF Noted
  <2>4. l.rank <= l.top /\ l.k < TwoTo[l.top - l.rank]
    BY <1>4, <1>6, <2>1, <2>3
  <2>5. l \in Note
    BY <1>1, <1>4, <2>1, <2>3, <2>4 DEF Note
  <2>6. QED
    BY <1>11, <2>1, <2>2, <2>5
<1>13. m \in Note
  <2>1. Noted(m, m.rank, m.k + 0, m.slots) \in Note
    BY <1>12
  <2>2. m.k + 0 = y
    BY <1>11
  <2>3. m = Noted(m, m.rank, y, m.slots)
    BY <1>10, <1>11 DEF Noted
  <2>4. QED
    BY <2>1, <2>2, <2>3
<1>14. ASSUME NEW rows PROVE Follows(rows, left, n, m)
  <2>1. left.row \in 0 .. n.rank
    BY <1>1
  <2>2. m = Noted(n, n.rank - left.row, n.k * TwoTo[left.row], n.slots)
    BY <1>3, <1>7, <1>8, <1>10
  <2>3. QED
    BY <2>1, <2>2 DEF Follows
<1>15. ASSUME NEW rows
       PROVE  Follows(rows, back, Noted(m, m.rank, m.k + (N - 1), m.slots), n)
  <2>1. PICK l : l = Noted(m, m.rank, m.k + (N - 1), m.slots)
    OBVIOUS
  <2>2. l.rank = rank /\ l.top = n.top /\ l.k = y + (N - 1) /\ l.slots = n.slots /\ l.main = n.main
    BY <1>11, <2>1 DEF Noted
  <2>3. back.row \in 0 .. l.top - l.rank /\ l.rank + back.row = n.rank
    BY <1>1, <1>3, <2>2
  <2>4. N - 1 \in 0 .. N - 1 /\ (x * N + (N - 1)) \div N = x
    <3>1. N - 1 \in 0 .. N - 1
      OBVIOUS
    <3>2. QED
      BY <3>1, Division
  <2>5. l.k \div TwoTo[back.row] = n.k
    BY <1>7, <1>8, <2>2, <2>4
  <2>6. n = Noted(l, n.rank, n.k, n.slots)
    BY <1>1, <2>2 DEF Noted
  <2>7. n = Noted(l, l.rank + back.row, l.k \div TwoTo[back.row], l.slots)
    BY <2>2, <2>3, <2>5, <2>6
  <2>8. Follows(rows, back, l, n)
    BY <2>3, <2>7 DEF Follows
  <2>9. QED
    BY <2>1, <2>8
<1>16. QED
  BY <1>3, <1>11, <1>12, <1>13, <1>14, <1>15

LEMMA RankDownCompiles ==
  ASSUME NEW rows, NEW rank \in Rank, NEW Code, NEW node, NEW g \in Generator,
         node.delta \in 1 .. rank, Child(Code, node.child, rows, rank - node.delta)
  PROVE  CompilesTo(rows, rank, g, RankDownCode(Code, node, g))
<1>1. PICK delta \in Nat : delta = node.delta
  BY DEF Rank
<1>2. rank \in Nat /\ rank <= c_maxRankValue /\ delta >= 1 /\ delta <= rank
      /\ c_maxRankValue \in Nat /\ rank - delta \in Rank
  BY <1>1, PlanAssumption DEF Rank
<1>3. PICK N \in Nat \ {0} : N = TwoTo[delta]
  BY TwoToType
<1>4. PICK here \in Nat, label \in Nat : Sized(g, here, label)
  BY SizedType
<1>5. PICK low \in Nat : low = here + 1
  OBVIOUS
<1>6. PICK start \in Nat : start = low + 4 * (N - 1) + 2
  OBVIOUS
<1>7. PICK left : left = Op("LeftShiftOffset", delta)
  OBVIOUS
<1>8. PICK push : push = Op("Push", 0)
  OBVIOUS
<1>9. PICK call : call = Op("Call", label)
  OBVIOUS
<1>10. PICK pop : pop = Op("Pop", 0)
  OBVIOUS
<1>11. PICK increment : increment = Op("IncrementOffset", 0)
  OBVIOUS
<1>12. PICK jump : jump = Op("Jmp", label + 1)
  OBVIOUS
<1>13. PICK ret : ret = Op("Return", 0)
  OBVIOUS
<1>14. PICK back : back = Op("RightShiftOffset", delta)
  OBVIOUS
<1>15. /\ left \in Instruction /\ left.opcode = "LeftShiftOffset"
       /\ push \in Instruction /\ push.opcode = "Push"
       /\ call \in Instruction /\ call.opcode = "Call"
       /\ pop \in Instruction /\ pop.opcode = "Pop"
       /\ increment \in Instruction /\ increment.opcode = "IncrementOffset"
       /\ jump \in Instruction /\ jump.opcode = "Jmp"
       /\ ret \in Instruction /\ ret.opcode = "Return"
       /\ back \in Instruction /\ back.opcode = "RightShiftOffset"
  BY <1>7, <1>8, <1>9, <1>10, <1>11, <1>12, <1>13, <1>14, OpType DEF Opcode
<1>16. /\ label < c_rowFieldSize => call.row = label
       /\ label + 1 < c_rowFieldSize => jump.row = label + 1
       /\ delta < c_rowFieldSize => left.row = delta /\ back.row = delta
  <2>1. label + 1 \in Nat /\ {"Call", "Jmp", "LeftShiftOffset", "RightShiftOffset"} \subseteq Opcode
    BY DEF Opcode
  <2>2. QED
    BY <1>7, <1>9, <1>12, <1>14, <2>1, OpType
<1>17. PICK a : a = Emit(g, left)
  OBVIOUS
<1>18. Sized(a, low, label) /\ Grows(g, a)
  BY <1>4, <1>5, <1>15, <1>17, EmitSized
<1>19. PICK calls : calls = Repeat(<<push, call, pop, increment>>, N - 1)
  OBVIOUS
<1>20. FourTimes(calls, N - 1, push, call, pop, increment)
  <2>1. N - 1 \in Nat
    OBVIOUS
  <2>2. QED
    BY <1>15, <1>19, <2>1, Repeated
<1>21. PICK shifted : shifted = AllocateLabel(a)
  OBVIOUS
<1>22. PICK b : b = EmitAll(shifted, calls)
  OBVIOUS
<1>23. PICK c : c = Emit(b, call)
  OBVIOUS
<1>24. PICK called : called = AllocateLabel(c)
  OBVIOUS
<1>25. PICK d : d = Emit(called, jump)
  OBVIOUS
<1>26. PICK s : s = PlaceLabel(d, label)
  OBVIOUS
<1>27. /\ Grows(a, s)
       /\ HasCalls(s, N, low, start, label, push, call, pop, increment, jump)
  BY <1>6, <1>15, <1>18, <1>20, <1>21, <1>22, <1>23, <1>24, <1>25, <1>26, CallsGenerated, Zenon
<1>28. NextLabel(g) = label /\ NextLabel(shifted) = label + 1
  <2>1. Sized(shifted, low, label + 1)
    BY <1>18, <1>21, AllocateSized
  <2>2. QED
    BY <1>4, <2>1, Zenon DEF NextLabel, Sized
<1>29. RankDownCalls(node, g) = s
  BY <1>1, <1>3, <1>7, <1>8, <1>9, <1>10, <1>11, <1>12, <1>17, <1>19, <1>21, <1>22, <1>23,
     <1>24, <1>25, <1>26, <1>28, Zenon DEF RankDownCalls
<1>30. PICK k : k = Code[node.child][s]
  OBVIOUS
<1>31. CompilesTo(rows, rank - delta, s, k)
  BY <1>1, <1>27, <1>30 DEF Child, Grows
<1>32. PICK r : r = Emit(k, ret)
  OBVIOUS
<1>33. PICK e : e = PlaceLabel(r, label + 1)
  OBVIOUS
<1>34. PICK h : h = Emit(e, back)
  OBVIOUS
<1>35. RankDownCode(Code, node, g) = h
  BY <1>1, <1>13, <1>14, <1>28, <1>29, <1>30, <1>32, <1>33, <1>34, Zenon DEF RankDownCode
<1>36. /\ Grows(a, e)
       /\ \A to : Keeps(a, e, to) /\ Fits(rows, to) =>
            \A n \in Note :
              /\ n.rank = rank - delta
              /\ \A i \in 0 .. N - 1 : Noted(n, n.rank, n.k + i, n.slots) \in Note
              => Sound(rows, to, Len(a.code), Len(e.code), n,
                       Noted(n, n.rank, n.k + (N - 1), n.slots))
  BY <1>2, <1>6, <1>15, <1>16, <1>18, <1>27, <1>31, <1>32, <1>33, CallsCompile, ZenonT(60)
<1>37. Grows(e, h) /\ Grows(g, e) /\ Grows(g, h) /\ Grows(a, h) /\ Grows(g, g) /\ Grows(h, h)
  <2>1. Grows(e, h) /\ h \in Generator /\ g \in Generator
    BY <1>15, <1>34, <1>36, EmitGrows, EmittedOne, ZenonT(60) DEF Grows
  <2>2. QED
    BY <1>18, <1>36, <2>1, GrowsOn, GrowsSelf
<1>38. Keeps(g, a, h) /\ Keeps(a, e, h) /\ Keeps(e, h, h)
  BY <1>18, <1>36, <1>37, KeepsChain
<1>39. g \in Generator /\ a \in Generator /\ e \in Generator /\ h \in Generator
  BY <1>37, <1>36 DEF Grows
<1>40. ASSUME NEW to, Keeps(g, h, to), Fits(rows, to), NEW n \in Note, Enters(n, rank)
       PROVE  Sound(rows, to, Len(g.code), Len(h.code), n, n)
  <2>1. n.rank = rank
    BY <1>2, <1>40 DEF Enters, Value
  <2>2. left.row = delta /\ back.row = delta
    <3>1. c_maxRankValue < c_rowFieldSize /\ c_rowFieldSize \in Nat
      BY <1>40, PlansAssumption DEF Fits
    <3>2. QED
      BY <1>2, <1>16, <3>1
  <2>3. PICK m \in Note :
          /\ m.rank = n.rank - delta
          /\ \A i \in 0 .. N - 1 : Noted(m, m.rank, m.k + i, m.slots) \in Note
          /\ \A f : Follows(f, left, n, m)
          /\ \A f : Follows(f, back, Noted(m, m.rank, m.k + (N - 1), m.slots), n)
    <3>1. delta <= n.rank /\ TwoTo[delta] = N
      BY <1>2, <1>3, <2>1
    <3>2. QED
      BY <1>15, <2>2, <3>1, Shifts, Zenon
  <2>4. PICK l : l = Noted(m, m.rank, m.k + (N - 1), m.slots)
    OBVIOUS
  <2>5. l \in Note
    <3>1. N - 1 \in 0 .. N - 1
      OBVIOUS
    <3>2. QED
      BY <2>3, <2>4, <3>1
  <2>6. Sound(rows, to, Len(g.code), Len(a.code), n, m)
    BY <1>15, <1>17, <1>37, <1>38, <1>39, <1>40, <2>3, OnePiece
  <2>7. Sound(rows, to, Len(a.code), Len(e.code), m, l)
    <3>1. to \in Generator
      BY <1>40 DEF Fits
    <3>2. Keeps(a, e, to)
      BY <1>18, <1>38, <1>39, <1>40, <3>1, KeepsWithin
    <3>3. m.rank = rank - delta
      BY <2>1, <2>3
    <3>4. QED
      BY <1>36, <1>40, <2>3, <2>4, <3>2, <3>3
  <2>8. Sound(rows, to, Len(e.code), Len(h.code), l, n)
    <3>1. Follows(rows, back, l, n)
      BY <2>3, <2>4
    <3>2. QED
      BY <1>15, <1>34, <1>37, <1>38, <1>39, <1>40, <2>5, <3>1, OnePiece
  <2>9. Sound(rows, to, Len(g.code), Len(e.code), n, l)
    BY <1>18, <1>36, <2>6, <2>7, Lengths, Join
  <2>10. QED
    BY <1>37, <2>8, <2>9, Lengths, Join
<1>41. CompilesTo(rows, rank, g, h)
  BY <1>37, <1>40 DEF CompilesTo
<1>42. QED
  BY <1>35, <1>41

-----------------------------------------------------------------------------
(* Every sensible tree compiles to code that its notes are right for.      *)
LEMMA CodeOfNode ==
  ASSUME NEW Code, NEW node, NEW g
  PROVE  /\ node.type = "LoadRow" => NodeCode(Code, node, g) = Emit(g, RowOp("LoadRow", node.row))
         /\ node.type \in {"LoadRowJz", "AndRowJz"} => NodeCode(Code, node, g) = RowCode(Code, node, g)
         /\ node.type = "Or" => NodeCode(Code, node, g) = OrCode(Code, node, g)
         /\ node.type = "RankDown" => NodeCode(Code, node, g) = RankDownCode(Code, node, g)
         /\ node.type = "Report" => NodeCode(Code, node, g) = ReportCode(Code, node, g)
         /\ node.type = "AndTree" => NodeCode(Code, node, g) = AndTreeCode(Code, node, g)
         /\ node.type = "OrTree" => NodeCode(Code, node, g) = OrTreeCode(Code, node, g)
         /\ node.type = "Not" => NodeCode(Code, node, g) = Emit(Code[node.child][g], Op("Not", 0))
BY DEF NodeCode

LEMMA NodeCompiles ==
  ASSUME NEW rows, NEW Trees, NEW Code,
         \A rank \in Rank \cup {Value} : \A child \in Trees[rank] : Child(Code, child, rows, rank),
         NEW rank \in Rank \cup {Value}, NEW node, MakesSense(node, rank, rows, Trees),
         NEW g \in Generator
  PROVE  CompilesTo(rows, rank, g, NodeCode(Code, node, g))
<1>1. Value \in Rank \cup {Value} /\ Value \notin Rank
  BY DEF Value, Rank
<1>2. CASE rank = Value
  <2>1. \/ node.type = "LoadRow" /\ node.row \in RowsAt(rows, 0)
        \/ /\ node.type \in {"AndTree", "OrTree"}
           /\ node.left \in Trees[Value] /\ node.right \in Trees[Value]
        \/ node.type = "Not" /\ node.child \in Trees[Value]
    BY <1>2, Zenon DEF MakesSense
  <2>2. CASE node.type = "LoadRow" /\ node.row \in RowsAt(rows, 0)
    BY <1>2, <2>2, LoadRowCompiles, CodeOfNode
  <2>3. CASE /\ node.type \in {"AndTree", "OrTree"}
             /\ node.left \in Trees[Value] /\ node.right \in Trees[Value]
    <3>1. Child(Code, node.left, rows, Value) /\ Child(Code, node.right, rows, Value)
      BY <1>1, <2>3
    <3>2. CASE node.type = "AndTree"
      BY <1>2, <3>1, <3>2, AndTreeCompiles, CodeOfNode
    <3>3. CASE node.type = "OrTree"
      BY <1>2, <3>1, <3>3, OrTreeCompiles, CodeOfNode
    <3>4. QED
      BY <2>3, <3>2, <3>3
  <2>4. CASE node.type = "Not" /\ node.child \in Trees[Value]
    <3>1. Child(Code, node.child, rows, Value)
      BY <1>1, <2>4
    <3>2. QED
      BY <1>2, <2>4, <3>1, NotCompiles, CodeOfNode
  <2>5. QED
    BY <2>1, <2>2, <2>3, <2>4
<1>3. CASE rank \in Rank
  <2>1. \/ /\ node.type \in {"LoadRowJz", "AndRowJz"}
           /\ node.row \in RowsAt(rows, rank) /\ node.child \in Trees[rank]
        \/ /\ node.type = "Or" /\ node.left \in Trees[rank] /\ node.right \in Trees[rank]
        \/ /\ node.type = "RankDown" /\ node.delta \in 1 .. rank
           /\ node.child \in Trees[rank - node.delta]
        \/ /\ node.type = "Report" /\ rank = 0 /\ node.child \in {Null} \cup Trees[Value]
    <3>1. rank # Value
      BY <1>1, <1>3
    <3>2. QED
      BY <3>1, Zenon DEF MakesSense
  <2>2. CASE /\ node.type \in {"LoadRowJz", "AndRowJz"}
             /\ node.row \in RowsAt(rows, rank) /\ node.child \in Trees[rank]
    <3>1. Child(Code, node.child, rows, rank)
      BY <2>2
    <3>2. QED
      BY <1>3, <2>2, <3>1, RowCompiles, CodeOfNode
  <2>3. CASE /\ node.type = "Or" /\ node.left \in Trees[rank] /\ node.right \in Trees[rank]
    <3>1. Child(Code, node.left, rows, rank) /\ Child(Code, node.right, rows, rank)
      BY <2>3
    <3>2. QED
      BY <1>3, <2>3, <3>1, OrCompiles, CodeOfNode
  <2>4. CASE /\ node.type = "RankDown" /\ node.delta \in 1 .. rank
             /\ node.child \in Trees[rank - node.delta]
    <3>1. rank - node.delta \in Rank
      BY <1>3, <2>4, PlanAssumption DEF Rank
    <3>2. Child(Code, node.child, rows, rank - node.delta)
      BY <2>4, <3>1
    <3>3. QED
      BY <1>3, <2>4, <3>2, RankDownCompiles, CodeOfNode
  <2>5. CASE node.type = "Report" /\ rank = 0 /\ node.child \in {Null} \cup Trees[Value]
    <3>1. node.child = Null \/ Child(Code, node.child, rows, Value)
      BY <1>1, <2>5
    <3>2. CompilesTo(rows, 0, g, ReportCode(Code, node, g))
      BY <3>1, ReportCompiles
    <3>3. QED
      BY <2>5, <3>2, CodeOfNode
  <2>6. QED
    BY <2>1, <2>2, <2>3, <2>4, <2>5
<1>4. QED
  BY <1>2, <1>3

AllCompile(n) ==
  \A q \in DOMAIN Plans : \A rank \in Rank \cup {Value} :
    \A node \in SensibleTrees[n][q][rank] : Child(Compile[n], node, Plans[q].rows, rank)

(* Every compile tree that makes sense, of any height, compiles wherever   *)
(* it stands to code that takes from the stack only what it has put there, *)
(* calls and jumps inside itself, and leaves the offset and the stacks as  *)
(* it found them (CompileNode::Compile of every node).                     *)
THEOREM TreesCompile == \A n \in Nat : AllCompile(n)
<1> DEFINE S == {n \in Nat : AllCompile(n)}
<1>1. 0 \in S
  <2>1. SensibleTrees[0] = NothingSensible
    BY SensibleTreesDef
  <2>2. QED
    BY <2>1 DEF AllCompile, NothingSensible
<1>2. ASSUME NEW n \in Nat, n \in S PROVE n + 1 \in S
  <2>1. AllCompile(n) /\ n + 1 \in Nat /\ n + 1 # 0 /\ (n + 1) - 1 = n
    BY <1>2
  <2>2. PICK m \in Nat : m = n + 1
    BY <2>1
  <2>3. SensibleTrees[m] = Sensible(SensibleTrees[n], m) /\ Compile[m] = Codes(Compile[n], m)
    BY <2>1, <2>2, SensibleTreesDef, CompileDef
  <2>4. ASSUME NEW q \in DOMAIN Plans, NEW rank \in Rank \cup {Value},
               NEW node \in SensibleTrees[m][q][rank]
        PROVE  Child(Compile[m], node, Plans[q].rows, rank)
    <3>1. node \in CompileNode[m] /\ MakesSense(node, rank, Plans[q].rows, SensibleTrees[n][q])
      BY <2>3 DEF Sensible
    <3>2. \A r \in Rank \cup {Value} : \A child \in SensibleTrees[n][q][r] :
            Child(Compile[n], child, Plans[q].rows, r)
      BY <2>1 DEF AllCompile
    <3>3. ASSUME NEW g \in Generator
          PROVE  CompilesTo(Plans[q].rows, rank, g, Compile[m][node][g])
      <4>1. Compile[m][node][g] = NodeCode(Compile[n], node, g)
        BY <2>3, <3>1 DEF Codes
      <4>2. CompilesTo(Plans[q].rows, rank, g, NodeCode(Compile[n], node, g))
        BY <3>1, <3>2, NodeCompiles, Zenon
      <4>3. QED
        BY <4>1, <4>2
    <3>4. QED
      BY <3>3 DEF Child
  <2>5. AllCompile(m)
    BY <2>4 DEF AllCompile
  <2>6. QED
    BY <2>1, <2>2, <2>5
<1>3. QED
  <2> HIDE DEF S
  <2>1. \A n \in Nat : n \in S
    BY <1>1, <1>2, Induction
  <2>2. QED
    BY <2>1 DEF S

-----------------------------------------------------------------------------
(* The whole code of a query has right notes: the main code starts and     *)
(* ends at the rank of the plan, with nothing on the stack.                *)
Main(rank) == [rank |-> rank, top |-> rank, k |-> 0, slots |-> 0, main |-> TRUE]
EndOf(q) == Len(Seal(q).code) - 1
Annotates(q, A) ==
  /\ A \in [Nat -> Note] /\ Fine(Plans[q].rows, A, Seal(q), 0, EndOf(q))
  /\ A[0] = Main(Plans[q].initialRank) /\ A[EndOf(q)] = Main(Plans[q].initialRank)
NotesOf(q) == CHOOSE A : Annotates(q, A)

(* The code that ByteCodeGenerator::Seal leaves for a query has right      *)
(* notes from its start to its End, and every label in it is placed.       *)
THEOREM SealSound ==
  ASSUME NEW q \in DOMAIN Plans, OperandsFit(q)
  PROVE  /\ Seal(q) \in Generator /\ EndOf(q) \in Nat
         /\ Seal(q).code[EndOf(q) + 1] \in Instruction
         /\ Seal(q).code[EndOf(q) + 1].opcode = "End"
         /\ Annotates(q, NotesOf(q))
<1>1. PICK g : g = [code |-> << >>, jumpTable |-> << >>]
  OBVIOUS
<1>2. g \in Generator /\ Len(g.code) = 0 /\ Len(g.jumpTable) = 0
  BY <1>1 DEF Generator
<1>3. PICK rank \in Rank : rank = Plans[q].initialRank
  BY PlansAssumption
<1>4. PICK rows \in Seq(PlanRow) : rows = Plans[q].rows
  BY PlansAssumption
<1>5. PICK tree \in SensibleTrees[TreeHeight][q][rank] : tree = Plans[q].compileTree
  BY <1>3, PlansAssumption
<1>6. PICK h : h = Compile[TreeHeight][tree][g]
  OBVIOUS
<1>7. CompilesTo(rows, rank, g, h) /\ Grows(g, h) /\ h \in Generator
  <2>1. AllCompile(TreeHeight)
    BY TreesCompile, PlansAssumption
  <2>2. Child(Compile[TreeHeight], tree, rows, rank)
    BY <1>3, <1>4, <2>1 DEF AllCompile
  <2>3. QED
    BY <1>2, <1>6, <2>2 DEF Child, CompilesTo, Grows
<1>8. PICK end : end = Op("End", 0)
  OBVIOUS
<1>9. end \in Instruction /\ end.opcode = "End"
  BY <1>8, SimpleOps DEF Opcode
<1>10. PICK to : to = Emit(h, end)
  OBVIOUS
<1>11. Seal(q) = to
  BY <1>1, <1>5, <1>6, <1>8, <1>10, Zenon DEF Seal
<1>12. PICK n \in Nat, l \in Nat : Sized(h, n, l)
  BY <1>7, SizedType
<1>13. Sized(to, n + 1, l) /\ Grows(h, to) /\ to.code[n + 1] = end
  BY <1>9, <1>10, <1>12, EmitSized
<1>14. EndOf(q) = n /\ to \in Generator
  BY <1>11, <1>13 DEF EndOf, Sized
<1>15. Keeps(g, h, to)
  BY <1>7, <1>13, KeepsChain
<1>16. Fits(rows, to)
  BY <1>4, <1>11, <1>14 DEF Fits, OperandsFit
<1>17. Main(rank) \in Note /\ Enters(Main(rank), rank)
  <2>1. rank \in Nat /\ rank - rank = 0 /\ TwoTo[0] = 1 /\ rank # Value
    BY TwoToDef, PlanAssumption DEF Rank, Value
  <2>2. QED
    BY <2>1 DEF Main, Note, Enters
<1>18. Sound(rows, to, Len(g.code), Len(h.code), Main(rank), Main(rank))
  BY <1>7, <1>15, <1>16, <1>17 DEF CompilesTo
<1>19. Sound(rows, to, 0, n, Main(rank), Main(rank))
  BY <1>2, <1>12, <1>18 DEF Sized
<1>20. \E A : Annotates(q, A)
  BY <1>3, <1>4, <1>11, <1>14, <1>19 DEF Sound, Annotates
<1>21. Annotates(q, NotesOf(q))
  BY <1>20, Zenon DEF NotesOf
<1>22. QED
  BY <1>9, <1>11, <1>12, <1>13, <1>14, <1>21

-----------------------------------------------------------------------------
(* The levels of the interpreter: the main code, and a frame for every     *)
(* subroutine that has been called.  A frame has the note of its place,    *)
(* the height of the value stack and the offset when it was entered.       *)
Frame == [note : Note, base : Nat, entry : Nat]
Height(f) == f.base + f.note.slots
OffsetOf(f) == f.entry * TwoTo[f.note.top - f.note.rank] + f.note.k
Top(fs) == fs[Len(fs)]

(* The offset is one of the iteration i of a plan of rank R.               *)
Inside(R, i, f) ==
  /\ f.note.top <= R
  /\ f.entry \in i * TwoTo[R - f.note.top] .. (i + 1) * TwoTo[R - f.note.top] - 1

Links(f, g) ==
  g.base = Height(f) /\ g.entry = OffsetOf(f) /\ g.note.top = f.note.rank /\ ~g.note.main

Frames(A, R, i, calls, p, fs) ==
  /\ fs \in Seq(Frame) /\ Len(fs) = Len(calls) + 1
  /\ fs[1].base = 0 /\ fs[1].entry = i /\ fs[1].note.main /\ fs[1].note.top = R
  /\ \A j \in 1 .. Len(calls) : fs[j].note = A[calls[j]] /\ Links(fs[j], fs[j + 1])
  /\ Top(fs).note = A[p]
  /\ \A j \in 1 .. Len(fs) : Inside(R, i, fs[j])

(* The registers of the interpreter are those of its topmost frame.        *)
Registers(A, R, i, last, p, values, calls, off) ==
  /\ p \in 0 .. last /\ calls \in Seq(0 .. last) /\ values \in Seq(SUBSET Bit)
  /\ \E fs : /\ Frames(A, R, i, calls, p, fs)
             /\ off = OffsetOf(Top(fs)) /\ Len(values) = Height(Top(fs))

(* The topmost frame, at a place with the note n.                          *)
Framed(n, R, i, off, height, f) ==
  f \in Frame /\ f.note = n /\ Inside(R, i, f) /\ off = OffsetOf(f) /\ height = Height(f)

Moved(f, m) == [note |-> m, base |-> f.base, entry |-> f.entry]

LEMMA TopFrame ==
  ASSUME NEW A, NEW R, NEW i, NEW last, NEW p, NEW values, NEW calls, NEW off,
         Registers(A, R, i, last, p, values, calls, off)
  PROVE  \E f : Framed(A[p], R, i, off, Len(values), f)
<1>1. PICK fs : /\ Frames(A, R, i, calls, p, fs)
                /\ off = OffsetOf(Top(fs)) /\ Len(values) = Height(Top(fs))
  BY Zenon DEF Registers
<1>2. fs \in Seq(Frame) /\ Len(fs) = Len(calls) + 1 /\ calls \in Seq(0 .. last)
  BY <1>1, Zenon DEF Frames, Registers
<1>3. Len(fs) \in 1 .. Len(fs) /\ fs[Len(fs)] \in Frame
  <2>1. Len(calls) \in Nat /\ Len(fs) \in Nat
    BY <1>2
  <2>2. Len(fs) \in 1 .. Len(fs)
    BY <1>2, <2>1
  <2>3. QED
    BY <1>2, <2>2
<1>4. Top(fs) \in Frame /\ Top(fs).note = A[p] /\ Inside(R, i, Top(fs))
  BY <1>1, <1>3, Zenon DEF Frames, Top
<1>5. QED
  BY <1>1, <1>4, Zenon DEF Framed

(* A step within a level.                                                  *)
LEMMA MoveTop ==
  ASSUME NEW A, NEW R, NEW i, NEW last, NEW p, NEW values, NEW calls, NEW off,
         Registers(A, R, i, last, p, values, calls, off), A \in [Nat -> Note],
         NEW p2 \in 0 .. last, last \in Nat, A[p2].top = A[p].top, A[p2].main = A[p].main,
         NEW values2 \in Seq(SUBSET Bit), NEW off2,
         \A f : Framed(A[p], R, i, off, Len(values), f) =>
                  off2 = OffsetOf(Moved(f, A[p2])) /\ Len(values2) = Height(Moved(f, A[p2]))
  PROVE  Registers(A, R, i, last, p2, values2, calls, off2)
<1>1. PICK fs : /\ Frames(A, R, i, calls, p, fs)
                /\ off = OffsetOf(Top(fs)) /\ Len(values) = Height(Top(fs))
  BY Zenon DEF Registers
<1>2. fs \in Seq(Frame) /\ Len(fs) = Len(calls) + 1 /\ calls \in Seq(0 .. last)
  BY <1>1, Zenon DEF Frames, Registers
<1>3. PICK n \in Nat \ {0} : n = Len(fs)
  BY <1>2
<1>4. /\ fs[1].base = 0 /\ fs[1].entry = i /\ fs[1].note.main /\ fs[1].note.top = R
      /\ \A j \in 1 .. n - 1 : fs[j].note = A[calls[j]] /\ Links(fs[j], fs[j + 1])
      /\ fs[n].note = A[p] /\ \A j \in 1 .. n : fs[j] \in Frame /\ Inside(R, i, fs[j])
  <2>1. Len(calls) = n - 1 /\ \A j \in 1 .. n : fs[j] \in Frame
    BY <1>2, <1>3
  <2>2. QED
    BY <1>1, <1>3, <2>1 DEF Frames, Top
<1>5. PICK f : f = fs[n] /\ f \in Frame /\ Inside(R, i, f) /\ f.note = A[p]
               /\ Framed(A[p], R, i, off, Len(values), f)
  <2>1. n \in 1 .. n
    OBVIOUS
  <2>2. fs[n] = Top(fs)
    BY <1>3, Zenon DEF Top
  <2>3. QED
    BY <1>1, <1>4, <2>1, <2>2, Zenon DEF Framed
<1>6. PICK m \in Note : m = A[p2] /\ m.top = f.note.top /\ m.main = f.note.main
  BY <1>5
<1>7. PICK g : g = Moved(f, m)
  OBVIOUS
<1>8. g \in Frame /\ g.note = m /\ g.base = f.base /\ g.entry = f.entry
  BY <1>5, <1>7 DEF Frame, Moved
<1>9. PICK gs : gs = [fs EXCEPT ![n] = g]
  OBVIOUS
<1>10. gs \in Seq(Frame) /\ Len(gs) = n /\ gs[n] = g /\ \A j \in 1 .. n - 1 : gs[j] = fs[j]
  BY <1>2, <1>3, <1>8, <1>9
<1>11. Inside(R, i, g)
  BY <1>5, <1>6, <1>8 DEF Inside
<1>12. \A j \in 1 .. n : Inside(R, i, gs[j])
  <2>1. \A j \in 1 .. n : j = n \/ j \in 1 .. n - 1
    OBVIOUS
  <2>2. QED
    BY <1>4, <1>10, <1>11, <2>1
<1>13. gs[1].base = 0 /\ gs[1].entry = i /\ gs[1].note.main /\ gs[1].note.top = R
  <2>1. CASE n = 1
    BY <1>4, <1>5, <1>6, <1>8, <1>10, <2>1
  <2>2. CASE n # 1
    <3>1. 1 \in 1 .. n - 1
      BY <2>2
    <3>2. QED
      BY <1>4, <1>10, <3>1
  <2>3. QED
    BY <2>1, <2>2
<1>14. ASSUME NEW j \in 1 .. n - 1
       PROVE  gs[j].note = A[calls[j]] /\ Links(gs[j], gs[j + 1])
  <2>1. gs[j] = fs[j] /\ fs[j].note = A[calls[j]] /\ Links(fs[j], fs[j + 1])
    BY <1>4, <1>10
  <2>2. CASE j + 1 = n
    <3>1. gs[j + 1] = g /\ fs[j + 1] = f
      BY <1>5, <1>10, <2>2
    <3>2. QED
      BY <1>6, <1>8, <2>1, <3>1 DEF Links
  <2>3. CASE j + 1 # n
    <3>1. j + 1 \in 1 .. n - 1
      BY <2>3
    <3>2. QED
      BY <1>10, <2>1, <3>1
  <2>4. QED
    BY <2>2, <2>3
<1>15. Len(calls) = n - 1
  BY <1>2, <1>3
<1>16. Frames(A, R, i, calls, p2, gs)
  <2>1. Len(gs) = Len(calls) + 1 /\ Top(gs).note = A[p2]
    BY <1>2, <1>3, <1>6, <1>8, <1>10 DEF Top
  <2>2. QED
    BY <1>10, <1>12, <1>13, <1>14, <1>15, <2>1, Zenon DEF Frames
<1>17. Top(gs) = g /\ off2 = OffsetOf(g) /\ Len(values2) = Height(g)
  BY <1>5, <1>6, <1>7, <1>10 DEF Top
<1>18. QED
  BY <1>2, <1>16, <1>17, Zenon DEF Registers

(* The offset of a frame is one of the iteration, at its rank.             *)
LEMMA OffsetInside ==
  ASSUME NEW R \in Nat, NEW i \in Nat, NEW f \in Frame, Inside(R, i, f)
  PROVE  /\ OffsetOf(f) \in Nat /\ f.note.rank <= R /\ f.note.rank \in Nat
         /\ OffsetOf(f) \in i * TwoTo[R - f.note.rank] .. (i + 1) * TwoTo[R - f.note.rank] - 1
<1>1. PICK n \in Note : n = f.note
  BY DEF Frame
<1>2. /\ n.rank \in Nat /\ n.top \in Nat /\ n.k \in Nat /\ n.rank <= n.top
      /\ n.top - n.rank \in Nat /\ n.k < TwoTo[n.top - n.rank]
  BY NoteType
<1>3. n.top <= R /\ f.entry \in i * TwoTo[R - n.top] .. (i + 1) * TwoTo[R - n.top] - 1
  BY <1>1 DEF Inside
<1>4. PICK a \in Nat, b \in Nat : a = R - n.top /\ b = n.top - n.rank
  BY <1>2, <1>3
<1>5. PICK M \in Nat \ {0}, N \in Nat \ {0} : M = TwoTo[a] /\ N = TwoTo[b]
  BY TwoToType
<1>6. R - n.rank = a + b /\ TwoTo[R - n.rank] = M * N
  <2>1. R - n.rank = a + b
    BY <1>2, <1>4
  <2>2. QED
    BY <1>5, <2>1, TwoToSum
<1>7. PICK x \in i * M .. (i + 1) * M - 1 : x = f.entry
  BY <1>3, <1>4, <1>5
<1>8. PICK k \in 0 .. N - 1 : k = n.k
  BY <1>2, <1>4, <1>5
<1>9. x * N + k \in Nat /\ x * N + k \in i * (M * N) .. (i + 1) * (M * N) - 1
  BY Nested
<1>10. OffsetOf(f) = x * N + k
  BY <1>1, <1>4, <1>5, <1>7, <1>8 DEF OffsetOf
<1>11. QED
  BY <1>1, <1>2, <1>3, <1>6, <1>9, <1>10

LEMMA CallTop ==
  ASSUME NEW A \in [Nat -> Note], NEW R \in Nat, NEW i \in Nat, NEW last \in Nat,
         NEW p \in Nat, NEW values, NEW calls, NEW off,
         Registers(A, R, i, last, p, values, calls, off),
         NEW q \in 0 .. last, q = p + 1, A[q] = A[p],
         NEW p2 \in 0 .. last, A[p2] = Called(A[p])
  PROVE  Registers(A, R, i, last, p2, values, Append(calls, q), off)
<1>1. PICK fs : /\ Frames(A, R, i, calls, p, fs)
                /\ off = OffsetOf(Top(fs)) /\ Len(values) = Height(Top(fs))
  BY Zenon DEF Registers
<1>2. fs \in Seq(Frame) /\ Len(fs) = Len(calls) + 1 /\ calls \in Seq(0 .. last)
      /\ values \in Seq(SUBSET Bit)
  BY <1>1, Zenon DEF Frames, Registers
<1>3. PICK n \in Nat \ {0} : n = Len(fs)
  BY <1>2
<1>4. /\ fs[1].base = 0 /\ fs[1].entry = i /\ fs[1].note.main /\ fs[1].note.top = R
      /\ \A j \in 1 .. n - 1 : fs[j].note = A[calls[j]] /\ Links(fs[j], fs[j + 1])
      /\ fs[n].note = A[p] /\ \A j \in 1 .. n : fs[j] \in Frame /\ Inside(R, i, fs[j])
  <2>1. Len(calls) = n - 1 /\ \A j \in 1 .. n : fs[j] \in Frame
    BY <1>2, <1>3
  <2>2. QED
    BY <1>1, <1>3, <2>1 DEF Frames, Top
<1>5. PICK f \in Frame : f = fs[n] /\ Inside(R, i, f) /\ f.note = A[p]
                         /\ off = OffsetOf(f) /\ Len(values) = Height(f)
  <2>1. n \in 1 .. n /\ fs[n] = Top(fs)
    BY <1>3 DEF Top
  <2>2. QED
    BY <1>1, <1>4, <2>1
<1>6. PICK m \in Note : m = f.note
  BY <1>5 DEF Frame
<1>7. PICK g : g = [note |-> Called(m), base |-> Len(values), entry |-> off]
  OBVIOUS
<1>8. /\ off \in Nat /\ m.rank <= R
      /\ off \in i * TwoTo[R - m.rank] .. (i + 1) * TwoTo[R - m.rank] - 1
  BY <1>5, <1>6, OffsetInside
<1>9. g \in Frame /\ g.note = Called(m) /\ g.base = Len(values) /\ g.entry = off
  BY <1>2, <1>7, <1>8, NoteType DEF Frame
<1>10. /\ g.note.rank = m.rank /\ g.note.top = m.rank /\ g.note.k = 0 /\ g.note.slots = 0
       /\ ~g.note.main
  BY <1>9 DEF Called
<1>11. Inside(R, i, g) /\ Links(f, g)
  BY <1>5, <1>6, <1>8, <1>9, <1>10 DEF Inside, Links
<1>12. PICK gs : gs = Append(fs, g)
  OBVIOUS
<1>13. gs \in Seq(Frame) /\ Len(gs) = n + 1 /\ gs[n + 1] = g /\ \A j \in 1 .. n : gs[j] = fs[j]
  BY <1>2, <1>3, <1>9, <1>12
<1>14. PICK later : later = Append(calls, q)
  OBVIOUS
<1>15. later \in Seq(0 .. last) /\ Len(later) = n /\ later[n] = q
       /\ \A j \in 1 .. n - 1 : later[j] = calls[j]
  BY <1>2, <1>3, <1>14
<1>16. \A j \in 1 .. n + 1 : Inside(R, i, gs[j])
  <2>1. \A j \in 1 .. n + 1 : j = n + 1 \/ j \in 1 .. n
    OBVIOUS
  <2>2. QED
    BY <1>4, <1>11, <1>13, <2>1
<1>17. ASSUME NEW j \in 1 .. n PROVE gs[j].note = A[later[j]] /\ Links(gs[j], gs[j + 1])
  <2>1. CASE j = n
    BY <1>5, <1>6, <1>11, <1>13, <1>15, <2>1
  <2>2. CASE j # n
    <3>1. j \in 1 .. n - 1 /\ j + 1 \in 1 .. n
      BY <2>2
    <3>2. QED
      BY <1>4, <1>13, <1>15, <3>1
  <2>3. QED
    BY <2>1, <2>2
<1>18. gs[1].base = 0 /\ gs[1].entry = i /\ gs[1].note.main /\ gs[1].note.top = R
  <2>1. 1 \in 1 .. n
    OBVIOUS
  <2>2. QED
    BY <1>4, <1>13, <2>1
<1>19. Frames(A, R, i, later, p2, gs)
  <2>1. Len(gs) = Len(later) + 1 /\ Top(gs).note = A[p2]
    BY <1>5, <1>6, <1>9, <1>13, <1>15 DEF Top
  <2>2. QED
    BY <1>13, <1>15, <1>16, <1>17, <1>18, <2>1, Zenon DEF Frames
<1>20. Top(gs) = g
  BY <1>13 DEF Top
<1>21. off = OffsetOf(g) /\ Len(values) = Height(g)
  <2>1. m.rank \in Nat /\ TwoTo[0] = 1 /\ m.rank - m.rank = 0 /\ Len(values) \in Nat
    BY <1>2, NoteType, TwoToDef, SMTT(60)
  <2>2. QED
    BY <1>8, <1>9, <1>10, <2>1 DEF OffsetOf, Height
<1>22. QED
  BY <1>2, <1>14, <1>15, <1>19, <1>20, <1>21, Zenon DEF Registers

LEMMA ReturnTop ==
  ASSUME NEW A \in [Nat -> Note], NEW R \in Nat, NEW i \in Nat, NEW last \in Nat,
         NEW p \in Nat, NEW values, NEW calls, NEW off,
         Registers(A, R, i, last, p, values, calls, off),
         A[p].slots = 0, A[p].rank = A[p].top, ~A[p].main
  PROVE  /\ calls # << >>
         /\ Registers(A, R, i, last, Last(calls), values, Front(calls), off)
<1>1. PICK fs : /\ Frames(A, R, i, calls, p, fs)
                /\ off = OffsetOf(Top(fs)) /\ Len(values) = Height(Top(fs))
  BY Zenon DEF Registers
<1>2. fs \in Seq(Frame) /\ Len(fs) = Len(calls) + 1 /\ calls \in Seq(0 .. last)
      /\ values \in Seq(SUBSET Bit)
  BY <1>1, Zenon DEF Frames, Registers
<1>3. PICK n \in Nat \ {0} : n = Len(fs)
  BY <1>2
<1>4. /\ fs[1].base = 0 /\ fs[1].entry = i /\ fs[1].note.main /\ fs[1].note.top = R
      /\ \A j \in 1 .. n - 1 : fs[j].note = A[calls[j]] /\ Links(fs[j], fs[j + 1])
      /\ fs[n].note = A[p] /\ \A j \in 1 .. n : fs[j] \in Frame /\ Inside(R, i, fs[j])
  <2>1. Len(calls) = n - 1 /\ \A j \in 1 .. n : fs[j] \in Frame
    BY <1>2, <1>3
  <2>2. QED
    BY <1>1, <1>3, <2>1 DEF Frames, Top
<1>5. PICK m \in Nat \ {0} : n = m + 1
  <2>1. n # 1
    BY <1>4
  <2>2. n - 1 \in Nat \ {0} /\ n = (n - 1) + 1
    BY <2>1
  <2>3. QED
    BY <2>2
<1>6. Len(calls) = m /\ n - 1 = m
  BY <1>2, <1>3, <1>5
<1>7. calls # << >>
  BY <1>2, <1>6
<1>8. PICK f \in Frame : f = fs[n] /\ f.note = A[p] /\ off = OffsetOf(f) /\ Len(values) = Height(f)
  <2>1. n \in 1 .. n /\ fs[n] = Top(fs)
    BY <1>3 DEF Top
  <2>2. QED
    BY <1>1, <1>4, <2>1
<1>9. PICK h \in Frame : h = fs[m] /\ h.note = A[calls[m]] /\ Links(h, f)
  <2>1. m \in 1 .. n - 1 /\ m \in 1 .. n /\ m + 1 = n
    BY <1>5
  <2>2. QED
    BY <1>4, <1>8, <2>1
<1>10. off = OffsetOf(h) /\ Len(values) = Height(h)
  <2>1. PICK x \in Note : x = f.note
    BY <1>8
  <2>2. x.rank \in Nat /\ x.k \in Nat /\ x.k < TwoTo[x.top - x.rank] /\ x.slots = 0 /\ x.rank = x.top
    BY <1>8, <2>1, NoteType
  <2>3. x.top - x.rank = 0 /\ TwoTo[0] = 1
    BY <2>2, TwoToDef
  <2>4. f.entry \in Nat /\ f.base \in Nat
    BY DEF Frame
  <2>5. off = f.entry /\ Len(values) = f.base
    BY <1>8, <2>1, <2>2, <2>3, <2>4, SMTT(60) DEF OffsetOf, Height
  <2>6. QED
    BY <1>9, <2>5 DEF Links
<1>11. PICK gs : gs = Front(fs)
  OBVIOUS
<1>12. gs \in Seq(Frame) /\ Len(gs) = m /\ \A j \in 1 .. m : gs[j] = fs[j]
  BY <1>2, <1>3, <1>5, <1>11 DEF Front
<1>13. PICK rest : rest = Front(calls)
  OBVIOUS
<1>14. rest \in Seq(0 .. last) /\ Len(rest) = m - 1 /\ \A j \in 1 .. m - 1 : rest[j] = calls[j]
  BY <1>2, <1>6, <1>13 DEF Front
<1>15. Last(calls) = calls[m] /\ calls[m] \in 0 .. last
  <2>1. m \in 1 .. Len(calls)
    BY <1>6
  <2>2. QED
    BY <1>2, <1>6, <2>1 DEF Last
<1>16. ASSUME NEW j \in 1 .. m - 1 PROVE gs[j].note = A[rest[j]] /\ Links(gs[j], gs[j + 1])
  <2>1. j \in 1 .. n - 1 /\ j \in 1 .. m /\ j + 1 \in 1 .. m
    BY <1>6
  <2>2. QED
    BY <1>4, <1>12, <1>14, <2>1, ZenonT(60)
<1>17. gs[1].base = 0 /\ gs[1].entry = i /\ gs[1].note.main /\ gs[1].note.top = R
  <2>1. 1 \in 1 .. m
    OBVIOUS
  <2>2. QED
    BY <1>4, <1>12, <2>1
<1>18. \A j \in 1 .. m : Inside(R, i, gs[j])
  <2>1. \A j \in 1 .. m : j \in 1 .. n
    BY <1>5
  <2>2. QED
    BY <1>4, <1>12, <2>1
<1>19. Top(gs) = h
  BY <1>9, <1>12 DEF Top
<1>20. Frames(A, R, i, rest, Last(calls), gs)
  <2>1. Len(gs) = Len(rest) + 1 /\ Top(gs).note = A[Last(calls)]
    BY <1>9, <1>12, <1>14, <1>15, <1>19
  <2>2. QED
    BY <1>12, <1>14, <1>16, <1>17, <1>18, <2>1, Zenon DEF Frames
<1>21. Registers(A, R, i, last, Last(calls), values, rest, off)
  BY <1>2, <1>10, <1>14, <1>15, <1>19, <1>20, Zenon DEF Registers
<1>22. QED
  BY <1>7, <1>13, <1>21

LEMMA StartTop ==
  ASSUME NEW A \in [Nat -> Note], NEW R \in Nat, NEW i \in Nat, NEW last \in Nat,
         A[0] = Main(R), NEW values, values = << >>, NEW calls, calls = << >>
  PROVE  Registers(A, R, i, last, 0, values, calls, i)
<1>1. PICK f : f = [note |-> A[0], base |-> 0, entry |-> i]
  OBVIOUS
<1>2. /\ f \in Frame /\ f.note.rank = R /\ f.note.top = R /\ f.note.k = 0 /\ f.note.slots = 0
      /\ f.note.main /\ f.base = 0 /\ f.entry = i /\ f.note = A[0]
  <2>1. A[0] \in Note
    OBVIOUS
  <2>2. /\ A[0].rank = R /\ A[0].top = R /\ A[0].k = 0 /\ A[0].slots = 0 /\ A[0].main
    BY DEF Main
  <2>3. f.note = A[0] /\ f.base = 0 /\ f.entry = i
    BY <1>1
  <2>4. f \in Frame
    BY <1>1, <2>1 DEF Frame
  <2>5. QED
    BY <2>2, <2>3, <2>4
<1>3. R - R = 0 /\ TwoTo[0] = 1
  BY TwoToDef
<1>4. Inside(R, i, f) /\ OffsetOf(f) = i /\ Height(f) = 0
  BY <1>2, <1>3 DEF Inside, OffsetOf, Height
<1>5. PICK fs : fs = <<f>>
  OBVIOUS
<1>6. fs \in Seq(Frame) /\ Len(fs) = 1 /\ fs[1] = f
  BY <1>2, <1>5
<1>7. Top(fs) = f /\ Len(calls) = 0 /\ Len(values) = 0
  BY <1>6 DEF Top
<1>8. Frames(A, R, i, calls, 0, fs)
  <2>1. \A j \in 1 .. Len(fs) : j = 1
    BY <1>6
  <2>2. \A j \in 1 .. Len(calls) : FALSE
    BY <1>7
  <2>3. Len(fs) = Len(calls) + 1
    BY <1>6, <1>7
  <2>4. QED
    BY <1>2, <1>4, <1>6, <1>7, <2>1, <2>2, <2>3, Zenon DEF Frames
<1>9. 0 \in 0 .. last /\ calls \in Seq(0 .. last) /\ values \in Seq(SUBSET Bit)
  OBVIOUS
<1>10. QED
  BY <1>4, <1>7, <1>8, <1>9 DEF Registers

LEMMA EndTop ==
  ASSUME NEW A \in [Nat -> Note], NEW R \in Nat, NEW i \in Nat, NEW last \in Nat,
         NEW p \in Nat, NEW values, NEW calls, NEW off,
         Registers(A, R, i, last, p, values, calls, off), A[p] = Main(R)
  PROVE  calls = << >> /\ values = << >> /\ off = i
<1>1. PICK fs : /\ Frames(A, R, i, calls, p, fs)
                /\ off = OffsetOf(Top(fs)) /\ Len(values) = Height(Top(fs))
  BY Zenon DEF Registers
<1>2. fs \in Seq(Frame) /\ Len(fs) = Len(calls) + 1 /\ calls \in Seq(0 .. last)
      /\ values \in Seq(SUBSET Bit)
  BY <1>1, Zenon DEF Frames, Registers
<1>3. PICK m \in Nat : m = Len(calls) /\ Len(fs) = m + 1
  BY <1>2
<1>4. Top(fs) = fs[m + 1] /\ Top(fs).note = Main(R)
  BY <1>1, <1>3 DEF Frames, Top
<1>5. m = 0
  <2>1. SUFFICES ASSUME m # 0 PROVE FALSE
    OBVIOUS
  <2>2. m \in 1 .. Len(calls)
    BY <1>3, <2>1
  <2>3. ~fs[m + 1].note.main
    BY <1>1, <2>2, Zenon DEF Frames, Links
  <2>4. QED
    BY <1>4, <2>3 DEF Main
<1>6. calls = << >>
  <2>1. calls \in Seq(0 .. last) /\ Len(calls) = 0
    BY <1>2, <1>3, <1>5
  <2>2. QED
    BY <2>1, EmptySeq
<1>7. PICK f : f = fs[1] /\ f.base = 0 /\ f.entry = i /\ f.note = Main(R) /\ Top(fs) = f
  <2>1. m + 1 = 1
    BY <1>5
  <2>2. fs[1].base = 0 /\ fs[1].entry = i
    BY <1>1, Zenon DEF Frames
  <2>3. QED
    BY <1>4, <2>1, <2>2
<1>8. R - R = 0 /\ TwoTo[0] = 1
  BY TwoToDef
<1>9. off = i /\ Len(values) = 0
  BY <1>1, <1>7, <1>8 DEF OffsetOf, Height, Main
<1>10. QED
  BY <1>2, <1>6, <1>9

-----------------------------------------------------------------------------
(* The rows that are read, in quadwords.                                   *)
LEMMA Monotone ==
  ASSUME NEW x \in Nat, NEW y \in Nat, x <= y, NEW a \in Nat
  PROVE  x * a <= y * a
<1>1. PICK z \in Nat : z = y - x
  OBVIOUS
<1>2. y = x + z /\ (x + z) * a = x * a + z * a
  BY <1>1
<1>3. x * a \in Nat /\ z * a \in Nat
  BY Products
<1>4. QED
  BY <1>2, <1>3

LEMMA Cancel ==
  ASSUME NEW x \in Nat, NEW y \in Nat, NEW b \in Nat \ {0}, x * b = y * b
  PROVE  x = y
<1>1. (x * b + 0) \div b = x /\ (y * b + 0) \div b = y
  BY Division
<1>2. x * b + 0 = y * b + 0
  OBVIOUS
<1>3. QED
  BY <1>1, <1>2

LEMMA Ranks ==
  /\ c_maxRankValue \in Nat /\ QuadwordsPerRow \in Nat \ {0}
  /\ \A r \in Rank : r \in Nat /\ r <= c_maxRankValue
BY PlanAssumption, MatcherAssumption DEF Rank

(* A row of every rank has whole quadwords.                                *)
LEMMA Splits ==
  ASSUME NEW r \in Rank
  PROVE  \E x \in Nat \ {0} : QuadwordsPerRow = x * TwoTo[r] /\ QuadwordsPerRow \div TwoTo[r] = x
<1>1. r \in Nat /\ c_maxRankValue - r \in Nat /\ c_maxRankValue \in Nat
  BY Ranks
<1>2. PICK a \in Nat : a = c_maxRankValue - r /\ c_maxRankValue = a + r
  BY <1>1
<1>3. PICK M \in Nat \ {0}, N \in Nat \ {0}, L \in Nat \ {0} :
        M = TwoTo[a] /\ N = TwoTo[r] /\ L = TwoTo[c_maxRankValue] /\ L = M * N
  <2>1. TwoTo[a + r] = TwoTo[a] * TwoTo[r]
    BY <1>1, TwoToSum
  <2>2. TwoTo[c_maxRankValue] = TwoTo[a] * TwoTo[r]
    BY <1>2, <2>1, Zenon
  <2>3. TwoTo[a] \in Nat \ {0} /\ TwoTo[r] \in Nat \ {0} /\ TwoTo[c_maxRankValue] \in Nat \ {0}
    BY <1>1, TwoToType
  <2>4. QED
    BY <2>2, <2>3
<1>4. PICK Q \in Nat \ {0} : Q = QuadwordsPerRow
  BY Ranks
<1>5. Q % L = 0
  BY <1>3, <1>4, MatcherAssumption
<1>6. PICK z \in Nat : Q = z * L
  BY <1>5
<1>7. z # 0
  BY <1>6
<1>8. PICK x \in Nat : x = z * M
  BY Products
<1>9. Q = x * N
  BY <1>3, <1>6, <1>8
<1>10. x # 0
  BY <1>9
<1>11. (x * N + 0) \div N = x /\ x * N + 0 = Q
  BY <1>9, Division
<1>12. QED
  BY <1>3, <1>4, <1>9, <1>10, <1>11

LEMMA RowsFit ==
  ASSUME NEW R \in Rank, NEW rank \in Nat, rank <= R, NEW delta \in Nat, rank + delta \in Rank,
         NEW low \in Rank, low <= rank + delta,
         NEW i \in 0 .. QuadwordsPerRow \div TwoTo[R] - 1, NEW off \in Nat,
         off < (i + 1) * TwoTo[R - rank]
  PROVE  off \div TwoTo[delta] \in Quadwords(low)
<1>1. R \in Nat /\ low \in Nat
  BY Ranks
<1>2. PICK Q \in Nat : Q = QuadwordsPerRow
  BY Ranks
<1>3. PICK d \in Nat, s \in Nat : d = R - rank /\ R = d + rank /\ s = rank + delta - low
                                  /\ rank + delta = s + low
  BY <1>1
<1>4. PICK a \in Nat \ {0}, b \in Nat \ {0}, D \in Nat \ {0}, P \in Nat \ {0}, e \in Nat \ {0} :
        a = TwoTo[d] /\ b = TwoTo[rank] /\ D = TwoTo[delta] /\ P = TwoTo[s] /\ e = TwoTo[low]
  BY <1>1, TwoToType
<1>5. TwoTo[R] = a * b /\ TwoTo[rank + delta] = b * D /\ TwoTo[rank + delta] = P * e
  BY <1>1, <1>3, <1>4, TwoToSum, ZenonT(60)
<1>6. PICK Y \in Nat, W \in Nat, V \in Nat :
        /\ Q = Y * (a * b) /\ QuadwordsPerRow \div TwoTo[R] = Y
        /\ Q = W * (b * D) /\ Q = W * (P * e)
        /\ Q = V * e /\ QuadwordsPerRow \div TwoTo[low] = V
  BY <1>2, <1>4, <1>5, Splits
<1>7. Y * a = W * D
  <2>1. PICK x \in Nat, y \in Nat : x = Y * a /\ y = W * D
    BY Products
  <2>2. x * b = y * b
    BY <1>6, <2>1
  <2>3. QED
    BY <2>1, <2>2, Cancel
<1>8. W <= V
  <2>1. PICK x \in Nat : x = W * P
    BY Products
  <2>2. x * e = V * e
    BY <1>6, <2>1
  <2>3. x = V
    BY <2>2, Cancel
  <2>4. QED
    BY <2>1, <2>3, Products
<1>9. off < W * D
  <2>1. i + 1 \in Nat /\ i + 1 <= Y
    BY <1>6
  <2>2. (i + 1) * a <= Y * a
    BY <2>1, Monotone
  <2>3. PICK x \in Nat, y \in Nat : x = (i + 1) * a /\ y = Y * a
    BY <2>1, Products
  <2>4. off < x /\ x <= y /\ y = W * D
    BY <1>3, <1>4, <1>7, <2>2, <2>3
  <2>5. QED
    BY <2>4
<1>10. PICK k \in Nat, j \in 0 .. D - 1 : k = off \div D /\ off = k * D + j
  BY DivisionBounds
<1>11. k < W
  <2>1. SUFFICES ASSUME W <= k PROVE FALSE
    OBVIOUS
  <2>2. W * D <= k * D
    BY <2>1, Monotone
  <2>3. PICK x \in Nat, y \in Nat : x = W * D /\ y = k * D
    BY Products
  <2>4. QED
    BY <1>9, <1>10, <2>2, <2>3
<1>12. k \in 0 .. V - 1
  BY <1>8, <1>11
<1>13. QED
  BY <1>4, <1>6, <1>10, <1>12 DEF Quadwords

-----------------------------------------------------------------------------
(* What an instruction does to the offset and to the height of the stack.  *)
Effect(c, height, off, height2, off2) ==
  /\ off2 = IF c.opcode = "LeftShiftOffset" THEN off * TwoTo[c.row]
            ELSE IF c.opcode = "RightShiftOffset" THEN off \div TwoTo[c.row]
            ELSE IF c.opcode = "IncrementOffset" THEN off + 1 ELSE off
  /\ height2 = IF c.opcode = "Push" THEN height + 1
               ELSE IF c.opcode \in {"Pop", "AndStack", "OrStack"} THEN height - 1 ELSE height

(* It is what the notes say, seen from the topmost frame.                  *)
LEMMA EffectOnFrame ==
  ASSUME NEW rows, NEW c \in Instruction, NEW n \in Note, NEW m \in Note, Follows(rows, c, n, m),
         NEW R, NEW i, NEW height, NEW off, NEW height2, NEW off2,
         Effect(c, height, off, height2, off2), NEW f, Framed(n, R, i, off, height, f)
  PROVE  /\ m.top = n.top /\ m.main = n.main
         /\ off2 = OffsetOf(Moved(f, m)) /\ height2 = Height(Moved(f, m))
<1>1. /\ n.rank \in Nat /\ n.top \in Nat /\ n.k \in Nat /\ n.slots \in Nat /\ n.rank <= n.top
      /\ n.top - n.rank \in Nat
  BY NoteType
<1>2. /\ f.note = n /\ f.base \in Nat /\ f.entry \in Nat
  BY DEF Framed, Frame
<1>3. PICK d \in Nat, e \in Nat, b \in Nat : d = n.top - n.rank /\ e = f.entry /\ b = f.base
  BY <1>1, <1>2
<1>4. off = e * TwoTo[d] + n.k /\ height = b + n.slots
  BY <1>2, <1>3, Zenon DEF Framed, OffsetOf, Height
<1>5. PICK g : g = Moved(f, m)
  OBVIOUS
<1>6. g.note = m /\ g.base = b /\ g.entry = e
  BY <1>3, <1>5 DEF Moved
<1>7. OffsetOf(g) = e * TwoTo[m.top - m.rank] + m.k /\ Height(g) = b + m.slots
  BY <1>6 DEF OffsetOf, Height
<1> DEFINE Goal == /\ m.top = n.top /\ m.main = n.main
                   /\ off2 = e * TwoTo[m.top - m.rank] + m.k /\ height2 = b + m.slots
<1> SUFFICES Goal
  BY <1>5, <1>7, Zenon
<1> HIDE DEF Goal
<1>8. CASE m = n /\ c.opcode \in {"LoadRow", "AndRow", "UpdateFlags", "Not", "Report"}
  <2>1. off2 = off /\ height2 = height
    BY <1>8 DEF Effect
  <2>2. QED
    BY <1>3, <1>4, <1>8, <2>1, Zenon DEF Goal
<1>9. CASE /\ c.opcode = "LeftShiftOffset" /\ c.row \in 0 .. n.rank
           /\ m = Noted(n, n.rank - c.row, n.k * TwoTo[c.row], n.slots)
  <2>1. PICK s \in Nat : s = c.row /\ s <= n.rank
    BY <1>1, <1>9
  <2>2. /\ m.rank = n.rank - s /\ m.top = n.top /\ m.main = n.main /\ m.slots = n.slots
        /\ m.k = n.k * TwoTo[s]
    BY <1>9, <2>1 DEF Noted
  <2>3. off2 = off * TwoTo[s] /\ height2 = height
    BY <1>9, <2>1 DEF Effect
  <2>4. m.top - m.rank = d + s
    BY <1>1, <1>3, <2>1, <2>2
  <2>5. TwoTo[m.top - m.rank] = TwoTo[d] * TwoTo[s]
    BY <2>4, TwoToSum
  <2>6. PICK D \in Nat \ {0}, S \in Nat \ {0}, k \in Nat : D = TwoTo[d] /\ S = TwoTo[s] /\ k = n.k
    BY <1>1, TwoToType
  <2>7. (e * D + k) * S = e * (D * S) + k * S
    OBVIOUS
  <2>8. QED
    BY <1>4, <2>2, <2>3, <2>5, <2>6, <2>7, Zenon DEF Goal
<1>10. CASE /\ c.opcode = "RightShiftOffset" /\ c.row \in 0 .. n.top - n.rank
            /\ m = Noted(n, n.rank + c.row, n.k \div TwoTo[c.row], n.slots)
  <2>1. PICK s \in Nat, r \in Nat : s = c.row /\ d = r + s
    <3>1. PICK s \in Nat : s = c.row /\ s <= d
      BY <1>3, <1>10
    <3>2. PICK r \in Nat : r = d - s
      BY <3>1
    <3>3. d = r + s
      BY <3>2
    <3>4. QED
      BY <3>1, <3>3
  <2>2. /\ m.rank = n.rank + s /\ m.top = n.top /\ m.main = n.main /\ m.slots = n.slots
        /\ m.k = n.k \div TwoTo[s]
    BY <1>10, <2>1 DEF Noted
  <2>3. off2 = off \div TwoTo[s] /\ height2 = height
    BY <1>10, <2>1 DEF Effect
  <2>4. m.top - m.rank = r
    BY <1>1, <1>3, <2>1, <2>2
  <2>5. TwoTo[d] = TwoTo[r] * TwoTo[s]
    BY <2>1, TwoToSum
  <2>6. PICK M \in Nat \ {0}, S \in Nat \ {0}, k \in Nat : M = TwoTo[r] /\ S = TwoTo[s] /\ k = n.k
    BY <1>1, TwoToType
  <2>7. PICK x \in Nat, j \in 0 .. S - 1 : x = k \div S /\ k = x * S + j
    BY DivisionBounds
  <2>8. PICK y \in Nat : y = e * M
    BY Products
  <2>9. off = (y + x) * S + j
    <3>1. e * (M * S) = y * S
      BY <2>8
    <3>2. (y + x) * S = y * S + x * S
      OBVIOUS
    <3>3. off = e * (M * S) + (x * S + j)
      BY <1>4, <2>5, <2>6, <2>7
    <3>4. PICK u \in Nat, v \in Nat : u = y * S /\ v = x * S
      BY Products
    <3>5. QED
      BY <3>1, <3>2, <3>3, <3>4
  <2>10. ((y + x) * S + j) \div S = y + x
    <3>1. y + x \in Nat
      OBVIOUS
    <3>2. QED
      BY <3>1, Division
  <2>11. off2 = y + x
    BY <2>3, <2>6, <2>9, <2>10
  <2>12. QED
    BY <1>4, <2>2, <2>3, <2>4, <2>6, <2>7, <2>8, <2>11, Zenon DEF Goal
<1>11. CASE c.opcode = "IncrementOffset" /\ m = Noted(n, n.rank, n.k + 1, n.slots)
  <2>1. /\ m.rank = n.rank /\ m.top = n.top /\ m.main = n.main /\ m.slots = n.slots
        /\ m.k = n.k + 1
    BY <1>11 DEF Noted
  <2>2. off2 = off + 1 /\ height2 = height
    BY <1>11 DEF Effect
  <2>3. PICK x \in Nat : x = e * TwoTo[d]
    BY TwoToType, Products
  <2>4. off2 = x + (n.k + 1)
    BY <1>1, <1>4, <2>2, <2>3
  <2>5. QED
    BY <1>3, <1>4, <2>1, <2>2, <2>3, <2>4, Zenon DEF Goal
<1>12. CASE c.opcode = "Push" /\ m = Noted(n, n.rank, n.k, n.slots + 1)
  <2>1. /\ m.rank = n.rank /\ m.top = n.top /\ m.main = n.main /\ m.slots = n.slots + 1
        /\ m.k = n.k
    BY <1>12 DEF Noted
  <2>2. off2 = off /\ height2 = height + 1
    BY <1>12 DEF Effect
  <2>3. height2 = b + m.slots
    BY <1>1, <1>4, <2>1, <2>2
  <2>4. QED
    BY <1>3, <1>4, <2>1, <2>2, <2>3, Zenon DEF Goal
<1>13. CASE /\ c.opcode \in {"Pop", "AndStack", "OrStack"} /\ n.slots > 0
            /\ m = Noted(n, n.rank, n.k, n.slots - 1)
  <2>1. /\ m.rank = n.rank /\ m.top = n.top /\ m.main = n.main /\ m.slots = n.slots - 1
        /\ m.k = n.k
    BY <1>13 DEF Noted
  <2>2. off2 = off /\ height2 = height - 1
    BY <1>13 DEF Effect
  <2>3. height2 = b + m.slots
    BY <1>1, <1>4, <2>1, <2>2
  <2>4. QED
    BY <1>3, <1>4, <2>1, <2>2, <2>3, Zenon DEF Goal
<1>14. \/ m = n /\ c.opcode \in {"LoadRow", "AndRow", "UpdateFlags", "Not", "Report"}
       \/ /\ c.opcode = "LeftShiftOffset" /\ c.row \in 0 .. n.rank
          /\ m = Noted(n, n.rank - c.row, n.k * TwoTo[c.row], n.slots)
       \/ /\ c.opcode = "RightShiftOffset" /\ c.row \in 0 .. n.top - n.rank
          /\ m = Noted(n, n.rank + c.row, n.k \div TwoTo[c.row], n.slots)
       \/ c.opcode = "IncrementOffset" /\ m = Noted(n, n.rank, n.k + 1, n.slots)
       \/ c.opcode = "Push" /\ m = Noted(n, n.rank, n.k, n.slots + 1)
       \/ /\ c.opcode \in {"Pop", "AndStack", "OrStack"} /\ n.slots > 0
          /\ m = Noted(n, n.rank, n.k, n.slots - 1)
  BY Zenon DEF Follows
<1>15. QED
  BY <1>8, <1>9, <1>10, <1>11, <1>12, <1>13, <1>14, Zenon

LEMMA StepTop ==
  ASSUME NEW A \in [Nat -> Note], NEW R, NEW i, NEW last \in Nat, NEW p \in Nat,
         NEW values, NEW calls, NEW off, Registers(A, R, i, last, p, values, calls, off),
         NEW p2 \in 0 .. last, NEW rows, NEW c \in Instruction, Follows(rows, c, A[p], A[p2]),
         NEW values2 \in Seq(SUBSET Bit), NEW off2,
         Effect(c, Len(values), off, Len(values2), off2)
  PROVE  Registers(A, R, i, last, p2, values2, calls, off2)
<1>1. A[p] \in Note /\ A[p2] \in Note
  OBVIOUS
<1>2. PICK n \in Note, m \in Note : n = A[p] /\ m = A[p2]
  BY <1>1
<1>3. ASSUME NEW f, Framed(n, R, i, off, Len(values), f)
      PROVE  /\ m.top = n.top /\ m.main = n.main
             /\ off2 = OffsetOf(Moved(f, m)) /\ Len(values2) = Height(Moved(f, m))
  <2>1. Follows(rows, c, n, m)
    BY <1>2
  <2>2. PICK x, y : x = Len(values) /\ y = Len(values2)
    OBVIOUS
  <2>3. Effect(c, x, off, y, off2) /\ Framed(n, R, i, off, x, f)
    BY <1>3, <2>2
  <2>4. /\ m.top = n.top /\ m.main = n.main
        /\ off2 = OffsetOf(Moved(f, m)) /\ y = Height(Moved(f, m))
    BY <1>2, <2>1, <2>3, EffectOnFrame
  <2>5. QED
    BY <2>2, <2>4
<1>4. PICK f : Framed(n, R, i, off, Len(values), f)
  BY <1>2, TopFrame, Zenon
<1>5. m.top = n.top /\ m.main = n.main
  BY <1>3, <1>4
<1>6. QED
  BY <1>2, <1>3, <1>5, MoveTop, Zenon

-----------------------------------------------------------------------------
(* The instruction c at the place p of the code of a query, by the notes.  *)
AtPlace(q, A, last, p, c, target) ==
  \/ p = last /\ c.opcode = "End" /\ A[p] = Main(Plans[q].initialRank)
  \/ p + 1 \in 0 .. last /\ Follows(Plans[q].rows, c, A[p], A[p + 1])
  \/ /\ p + 1 \in 0 .. last /\ c.opcode \in {"Jmp", "Jz", "Call"} /\ target \in 0 .. last
     /\ c.opcode = "Jmp" => A[target] = A[p]
     /\ c.opcode = "Jz" => A[target] = A[p] /\ A[p + 1] = A[p]
     /\ c.opcode = "Call" => A[target] = Called(A[p]) /\ A[p + 1] = A[p]
  \/ c.opcode = "Return" /\ A[p].slots = 0 /\ A[p].rank = A[p].top /\ ~A[p].main

LEMMA PlaceRight ==
  ASSUME NEW q \in DOMAIN Plans, OperandsFit(q), NEW p \in 0 .. EndOf(q),
         NEW c, c = Seal(q).code[p + 1], NEW target, target = Seal(q).jumpTable[c.row + 1]
  PROVE  /\ NotesOf(q) \in [Nat -> Note] /\ EndOf(q) \in Nat
         /\ NotesOf(q)[0] = Main(Plans[q].initialRank)
         /\ p + 1 \in DOMAIN Seal(q).code /\ c \in Instruction
         /\ AtPlace(q, NotesOf(q), EndOf(q), p, c, target)
<1>1. PICK to \in Generator : to = Seal(q)
  BY SealSound
<1>2. PICK last \in Nat : last = EndOf(q)
  BY SealSound
<1>3. PICK A : A = NotesOf(q)
  OBVIOUS
<1>4. PICK rows, R : rows = Plans[q].rows /\ R = Plans[q].initialRank
  OBVIOUS
<1>5. /\ A \in [Nat -> Note] /\ Fine(rows, A, to, 0, last)
      /\ A[0] = Main(R) /\ A[last] = Main(R)
  BY <1>1, <1>2, <1>3, <1>4, SealSound, Zenon DEF Annotates
<1>6. p \in Nat /\ p <= last /\ p \in 0 .. last
  BY <1>2
<1>7. p + 1 \in DOMAIN Seal(q).code
  <2>1. Len(to.code) = last + 1
    BY <1>1, <1>2, GeneratorType DEF EndOf
  <2>2. p + 1 \in 1 .. Len(to.code) /\ DOMAIN to.code = 1 .. Len(to.code)
    BY <1>6, <2>1, GeneratorType
  <2>3. QED
    BY <1>1, <2>2
<1>8. CASE p = last
  <2>1. c \in Instruction /\ c.opcode = "End"
    BY <1>2, <1>8, SealSound
  <2>2. AtPlace(q, A, last, p, c, target)
    BY <1>4, <1>5, <1>8, <2>1, Zenon DEF AtPlace
  <2>3. QED
    BY <1>2, <1>3, <1>4, <1>5, <1>7, <2>1, <2>2
<1>9. CASE p # last
  <2>1. p \in 0 .. last - 1 /\ p + 1 \in 0 .. last
    BY <1>6, <1>9
  <2>2. Right(rows, A, to, 0, last, p)
    BY <1>5, <2>1 DEF Fine
  <2>3. c = to.code[p + 1] /\ target = to.jumpTable[c.row + 1]
    BY <1>1
  <2>4. /\ c \in Instruction
        /\ \/ Follows(rows, c, A[p], A[p + 1])
           \/ /\ c.opcode \in {"Jmp", "Jz", "Call"}
              /\ c.row + 1 \in DOMAIN to.jumpTable /\ target \in 0 .. last
              /\ c.opcode = "Jmp" => A[target] = A[p]
              /\ c.opcode = "Jz" => A[target] = A[p] /\ A[p + 1] = A[p]
              /\ c.opcode = "Call" => A[target] = Called(A[p]) /\ A[p + 1] = A[p]
           \/ c.opcode = "Return" /\ A[p].slots = 0 /\ A[p].rank = A[p].top /\ ~A[p].main
    BY <2>2, <2>3, Zenon DEF Right
  <2>5. AtPlace(q, A, last, p, c, target)
    BY <1>4, <2>1, <2>4, Zenon DEF AtPlace
  <2>6. QED
    BY <1>2, <1>3, <1>4, <1>5, <1>7, <2>4, <2>5
<1>10. QED
  BY <1>8, <1>9

-----------------------------------------------------------------------------
(* The inductive invariant of the machine: while the query runs, the       *)
(* registers are those of a stack of frames that fits the notes.           *)
Located(q, s, k, i) ==
  /\ s \in Shard /\ k \in Slices(s)
  /\ i \in 0 .. QuadwordsPerRow \div TwoTo[Plans[q].initialRank] - 1

MachineInv ==
  /\ query \in DOMAIN Plans /\ plan = Plans[query] /\ program = Seal(query)
  /\ pc \in {"idle", "run", "done"} /\ accumulator \in SUBSET Bit
  /\ pc = "idle" => valueStack = << >> /\ callStack = << >>
  /\ pc = "run" =>
       /\ Located(query, shard, slice, iteration)
       /\ Registers(NotesOf(query), Plans[query].initialRank, iteration, EndOf(query), ip,
                    valueStack, callStack, offset)

LEMMA MachineFacts ==
  ASSUME MachineInv, OperandsFit(query), pc = "run", NEW A, NEW R, NEW last,
         A = NotesOf(query), R = Plans[query].initialRank, last = EndOf(query)
  PROVE  /\ A \in [Nat -> Note] /\ A[0] = Main(R) /\ R \in Rank /\ R \in Nat /\ last \in Nat
         /\ iteration \in Nat /\ ip \in Nat /\ ip \in 0 .. last
         /\ ip + 1 \in DOMAIN program.code /\ instruction \in Instruction
         /\ AtPlace(query, A, last, ip, instruction, Target)
         /\ Registers(A, R, iteration, last, ip, valueStack, callStack, offset)
         /\ valueStack \in Seq(SUBSET Bit)
<1>1. query \in DOMAIN Plans /\ program = Seal(query) /\ Located(query, shard, slice, iteration)
      /\ Registers(A, R, iteration, last, ip, valueStack, callStack, offset)
  BY Zenon DEF MachineInv
<1>2. ip \in 0 .. last /\ valueStack \in Seq(SUBSET Bit)
  BY <1>1, Zenon DEF Registers
<1>3. R \in Rank /\ R \in Nat
  BY <1>1, PlansAssumption, Ranks
<1>4. iteration \in Nat
  BY <1>1, <1>3 DEF Located
<1>5. PICK c, target : /\ c = Seal(query).code[ip + 1]
                       /\ target = Seal(query).jumpTable[c.row + 1]
  OBVIOUS
<1>6. instruction = c /\ Target = target
  BY <1>1, <1>5, Zenon DEF instruction, Target
<1>7. /\ A \in [Nat -> Note] /\ last \in Nat /\ A[0] = Main(R)
      /\ ip + 1 \in DOMAIN Seal(query).code /\ c \in Instruction
      /\ AtPlace(query, A, last, ip, c, target)
  BY <1>1, <1>2, <1>5, PlaceRight, Zenon
<1>8. ip \in Nat
  BY <1>2, <1>7
<1>9. QED
  BY <1>1, <1>2, <1>3, <1>4, <1>6, <1>7, <1>8, Zenon

-----------------------------------------------------------------------------
(* What the notes say of an instruction, by its opcode.                    *)
LEMMA ByOpcode ==
  ASSUME NEW q, NEW A, NEW last, NEW p, NEW c, NEW target, AtPlace(q, A, last, p, c, target)
  PROVE  /\ c.opcode \in {"LoadRow", "AndRow", "LeftShiftOffset", "RightShiftOffset",
                          "IncrementOffset", "Push", "Pop", "AndStack", "OrStack", "UpdateFlags",
                          "Not", "Report"}
              => p + 1 \in 0 .. last /\ Follows(Plans[q].rows, c, A[p], A[p + 1])
         /\ c.opcode \in {"Jmp", "Jz", "Call"} =>
              /\ p + 1 \in 0 .. last /\ target \in 0 .. last
              /\ c.opcode \in {"Jmp", "Jz"} => A[target] = A[p]
              /\ c.opcode = "Jz" => A[p + 1] = A[p]
              /\ c.opcode = "Call" => A[target] = Called(A[p]) /\ A[p + 1] = A[p]
         /\ c.opcode = "Return" => A[p].slots = 0 /\ A[p].rank = A[p].top /\ ~A[p].main
         /\ c.opcode = "End" => A[p] = Main(Plans[q].initialRank)
BY DEF AtPlace, Follows

LEMMA NotesOfOpcode ==
  ASSUME NEW rows, NEW c, NEW n, NEW m, Follows(rows, c, n, m)
  PROVE  /\ c.opcode \in {"LoadRow", "AndRow"} =>
              c.row + 1 \in DOMAIN rows /\ rows[c.row + 1].rank = n.rank + c.delta
         /\ c.opcode \in {"Pop", "AndStack", "OrStack", "UpdateFlags"} => n.slots > 0
         /\ c.opcode = "Report" => n.rank = 0
BY DEF Follows

(* The offset, at the rank of the place.                                   *)
LEMMA TopOffset ==
  ASSUME NEW A \in [Nat -> Note], NEW R \in Nat, NEW i \in Nat, NEW last, NEW p \in Nat,
         NEW values, NEW calls, NEW off, Registers(A, R, i, last, p, values, calls, off)
  PROVE  /\ off \in Nat /\ A[p].rank \in Nat /\ A[p].rank <= R
         /\ off \in i * TwoTo[R - A[p].rank] .. (i + 1) * TwoTo[R - A[p].rank] - 1
         /\ A[p].slots > 0 => Len(values) > 0
<1>1. PICK f : Framed(A[p], R, i, off, Len(values), f)
  BY TopFrame, Zenon
<1>2. f \in Frame /\ f.note = A[p] /\ Inside(R, i, f) /\ off = OffsetOf(f) /\ Len(values) = Height(f)
  BY <1>1 DEF Framed
<1>3. A[p].slots > 0 => Len(values) > 0
  <2>1. f.base \in Nat /\ A[p].slots \in Nat
    BY <1>2, NoteType DEF Frame
  <2>2. QED
    BY <1>2, <2>1 DEF Height
<1>4. /\ OffsetOf(f) \in Nat /\ f.note.rank <= R /\ f.note.rank \in Nat
      /\ OffsetOf(f) \in i * TwoTo[R - f.note.rank] .. (i + 1) * TwoTo[R - f.note.rank] - 1
  BY <1>2, OffsetInside
<1>5. QED
  BY <1>2, <1>3, <1>4

LEMMA PhysicalRank ==
  ASSUME NEW row \in PlanRow, NEW s \in Shard
  PROVE  row.rank \in Rank /\ row.physical[s][1] \in Rank /\ row.physical[s][1] <= row.rank
<1>1. row.rank \in Rank /\ row.physical[s] \in RowId /\ row.physical[s][1] <= row.rank
  BY DEF PlanRow
<1>2. ASSUME NEW r \in RowId PROVE r[1] \in Rank
  <2>1. CASE r \in {DocumentActiveRow, MatchAllRow}
    BY <2>1, Ranks DEF DocumentActiveRow, MatchAllRow, Rank
  <2>2. CASE r \in UNION {ToSet(TermRows[z][t]) : z \in Shard, t \in Term}
    <3>1. PICK z \in Shard, t \in Term : r \in ToSet(TermRows[z][t])
      BY <2>2
    <3>2. r \in Rank \X Nat
      BY <3>1, PlanAssumption DEF ToSet
    <3>3. QED
      BY <3>2
  <2>3. QED
    BY <2>1, <2>2 DEF RowId
<1>3. QED
  BY <1>1, <1>2

LEMMA InvSound ==
  ASSUME MachineInv, OperandsFit(query)
  PROVE  MachineSound
<1>1. SUFFICES ASSUME pc = "run" PROVE MachineSound
  BY DEF MachineSound
<1>2. PICK A, R, last : A = NotesOf(query) /\ R = Plans[query].initialRank /\ last = EndOf(query)
  OBVIOUS
<1>3. /\ A \in [Nat -> Note] /\ A[0] = Main(R) /\ R \in Rank /\ R \in Nat /\ last \in Nat
      /\ iteration \in Nat /\ ip \in Nat /\ ip \in 0 .. last
      /\ ip + 1 \in DOMAIN program.code /\ instruction \in Instruction
      /\ AtPlace(query, A, last, ip, instruction, Target)
      /\ Registers(A, R, iteration, last, ip, valueStack, callStack, offset)
      /\ valueStack \in Seq(SUBSET Bit)
  BY <1>1, <1>2, MachineFacts, Zenon
<1>4. query \in DOMAIN Plans /\ plan = Plans[query] /\ Located(query, shard, slice, iteration)
  BY <1>1, Zenon DEF MachineInv
<1>5. PICK c : c = instruction
  OBVIOUS
<1>6. PICK n \in Note : n = A[ip]
  BY <1>3
<1>7. /\ offset \in Nat /\ n.rank \in Nat /\ n.rank <= R
      /\ offset \in iteration * TwoTo[R - n.rank] .. (iteration + 1) * TwoTo[R - n.rank] - 1
      /\ n.slots > 0 => Len(valueStack) > 0
  BY <1>3, <1>6, TopOffset
<1>8. c.opcode \in {"LoadRow", "AndRow", "Pop", "AndStack", "OrStack", "UpdateFlags", "Report"}
      => Follows(Plans[query].rows, c, n, A[ip + 1])
  BY <1>3, <1>5, <1>6, ByOpcode
<1>9. ASSUME c.opcode \in {"LoadRow", "AndRow"}
      PROVE  /\ c.row + 1 \in DOMAIN plan.rows
             /\ RowOffset \in Quadwords(PhysicalRow[1])
  <2>1. /\ c.row + 1 \in DOMAIN Plans[query].rows
        /\ Plans[query].rows[c.row + 1].rank = n.rank + c.delta
    BY <1>8, <1>9, NotesOfOpcode
  <2>2. PICK row \in PlanRow : row = Plans[query].rows[c.row + 1]
    BY <1>4, <2>1, PlansAssumption
  <2>3. PICK low : low = row.physical[shard][1]
    OBVIOUS
  <2>4. row.rank \in Rank /\ low \in Rank /\ low <= row.rank
    BY <1>4, <2>3, PhysicalRank DEF Located
  <2>5. PICK delta \in Nat : delta = c.delta
    BY <1>3, <1>5, Ranks DEF Instruction
  <2>6. n.rank + delta \in Rank /\ low <= n.rank + delta
    BY <2>1, <2>2, <2>4, <2>5
  <2>7. iteration \in 0 .. QuadwordsPerRow \div TwoTo[R] - 1
    BY <1>2, <1>4 DEF Located
  <2>8. offset < (iteration + 1) * TwoTo[R - n.rank]
    <3>1. PICK T \in Nat : T = TwoTo[R - n.rank]
      BY <1>3, <1>7, TwoToType
    <3>2. iteration + 1 \in Nat
      BY <1>3
    <3>3. PICK x \in Nat, y \in Nat : x = (iteration + 1) * T /\ y = iteration * T
      BY <1>3, <3>2, Products
    <3>4. offset \in y .. x - 1
      BY <1>7, <3>1, <3>3
    <3>5. QED
      BY <1>7, <3>1, <3>3, <3>4
  <2>9. offset \div TwoTo[delta] \in Quadwords(low)
    BY <1>3, <1>7, <2>4, <2>6, <2>7, <2>8, RowsFit
  <2>10. RowOffset = offset \div TwoTo[delta] /\ PhysicalRow[1] = low
    BY <1>4, <1>5, <2>2, <2>3, <2>5, Zenon DEF RowOffset, PhysicalRow
  <2>11. QED
    BY <1>4, <2>1, <2>9, <2>10
<1>10. ASSUME c.opcode \in {"Pop", "AndStack", "OrStack", "UpdateFlags"}
       PROVE  valueStack # << >>
  <2>1. Len(valueStack) > 0
    BY <1>7, <1>8, <1>10, NotesOfOpcode
  <2>2. QED
    BY <2>1
<1>11. ASSUME c.opcode = "Return" PROVE callStack # << >>
  <2>1. A[ip].slots = 0 /\ A[ip].rank = A[ip].top /\ ~A[ip].main
    BY <1>3, <1>5, <1>11, ByOpcode
  <2>2. QED
    BY <1>3, <2>1, ReturnTop
<1>12. ASSUME c.opcode = "Report" PROVE offset - Base \in 0 .. TwoTo[plan.initialRank] - 1
  <2>1. n.rank = 0
    BY <1>8, <1>12, NotesOfOpcode
  <2>2. PICK T \in Nat : T = TwoTo[R]
    BY <1>3, TwoToType
  <2>3. R - 0 = R
    BY <1>3
  <2>4. offset \in iteration * T .. (iteration + 1) * T - 1
    BY <1>7, <2>1, <2>2, <2>3
  <2>5. PICK b \in Nat : b = iteration * T
    BY <1>3, Products
  <2>6. (iteration + 1) * T = b + T
    BY <1>3, <2>5
  <2>7. offset - b \in 0 .. T - 1
    BY <1>7, <2>4, <2>5, <2>6
  <2>8. Base = b /\ TwoTo[plan.initialRank] = T
    BY <1>2, <1>4, <2>2, <2>5, Zenon DEF Base
  <2>9. QED
    BY <2>7, <2>8
<1>13. ASSUME c.opcode = "End"
       PROVE  valueStack = << >> /\ callStack = << >> /\ offset = iteration
  <2>1. A[ip] = Main(R)
    BY <1>2, <1>3, <1>5, <1>13, ByOpcode
  <2>2. QED
    BY <1>3, <2>1, EndTop
<1>14. QED
  BY <1>3, <1>5, <1>9, <1>10, <1>11, <1>12, <1>13, Zenon DEF MachineSound

-----------------------------------------------------------------------------
(* The invariant is inductive.                                             *)
LEMMA InvInit ==
  ASSUME Init
  PROVE  MachineInv
BY DEF Init, MachineInv

LEMMA KeepRunning ==
  ASSUME MachineInv, NEW opcodes, Step(opcodes), accumulator' \in SUBSET Bit,
         Registers(NotesOf(query), Plans[query].initialRank, iteration, EndOf(query), ip',
                   valueStack', callStack', offset')
  PROVE  MachineInv'
<1>1. /\ pc = "run" /\ pc' = "run" /\ query' = query /\ plan' = plan /\ program' = program
      /\ shard' = shard /\ slice' = slice /\ iteration' = iteration
  BY DEF Step, Others, position
<1>2. query \in DOMAIN Plans /\ plan = Plans[query] /\ program = Seal(query)
      /\ Located(query, shard, slice, iteration)
  BY <1>1, Zenon DEF MachineInv
<1>3. Located(query', shard', slice', iteration')
  BY <1>1, <1>2, Zenon
<1>4. Registers(NotesOf(query'), Plans[query'].initialRank, iteration', EndOf(query'), ip',
                valueStack', callStack', offset')
  BY <1>1, Zenon
<1>5. QED
  BY <1>1, <1>2, <1>3, <1>4, Zenon DEF MachineInv

LEMMA AdvanceInv ==
  ASSUME MachineInv, OperandsFit(query), NEW opcodes, Step(opcodes), Advance,
         opcodes \subseteq {"LoadRow", "AndRow", "LeftShiftOffset", "RightShiftOffset",
                            "IncrementOffset", "Push", "Pop", "AndStack", "OrStack",
                            "UpdateFlags", "Not", "Report"},
         callStack' = callStack, accumulator' \in SUBSET Bit, valueStack' \in Seq(SUBSET Bit),
         Effect(instruction, Len(valueStack), offset, Len(valueStack'), offset')
  PROVE  MachineInv'
<1>1. pc = "run" /\ instruction.opcode \in opcodes /\ ip' = ip + 1
  BY DEF Step, Advance
<1>2. PICK A, R, last : A = NotesOf(query) /\ R = Plans[query].initialRank /\ last = EndOf(query)
  OBVIOUS
<1>3. /\ A \in [Nat -> Note] /\ last \in Nat /\ iteration \in Nat /\ ip \in Nat /\ ip \in 0 .. last
      /\ instruction \in Instruction /\ AtPlace(query, A, last, ip, instruction, Target)
      /\ Registers(A, R, iteration, last, ip, valueStack, callStack, offset)
  BY <1>1, <1>2, MachineFacts, Zenon
<1>4. PICK c, p2 : c = instruction /\ p2 = ip + 1
  OBVIOUS
<1>5. p2 \in 0 .. last /\ Follows(Plans[query].rows, c, A[ip], A[p2])
  BY <1>1, <1>3, <1>4, ByOpcode
<1>6. PICK values, off : values = valueStack' /\ off = offset'
  OBVIOUS
<1>7. Registers(A, R, iteration, last, p2, values, callStack, off)
  BY <1>3, <1>4, <1>5, <1>6, StepTop, Zenon
<1>8. Registers(NotesOf(query), Plans[query].initialRank, iteration, EndOf(query), ip',
                valueStack', callStack', offset')
  BY <1>1, <1>2, <1>4, <1>6, <1>7, Zenon
<1>9. QED
  BY <1>8, KeepRunning, Zenon

LEMMA ReadRowInv ==
  ASSUME MachineInv, OperandsFit(query), ReadRow
  PROVE  MachineInv'
<1>1. /\ Step({"LoadRow", "AndRow"}) /\ Advance /\ callStack' = callStack
      /\ valueStack' = valueStack /\ offset' = offset
      /\ instruction.opcode \in {"LoadRow", "AndRow"} /\ pc = "run"
  BY DEF ReadRow, Step
<1>2. valueStack' \in Seq(SUBSET Bit)
  BY <1>1, Zenon DEF MachineInv, Registers
<1>3. accumulator' \in SUBSET Bit
  <2>1. Quadword \in SUBSET Bit
    BY DEF Quadword
  <2>2. accumulator \in SUBSET Bit
    BY DEF MachineInv
  <2>3. accumulator' = Quadword \/ accumulator' = accumulator \cap Quadword
    BY DEF ReadRow
  <2>4. QED
    BY <2>1, <2>2, <2>3
<1>4. Effect(instruction, Len(valueStack), offset, Len(valueStack'), offset')
  BY <1>1 DEF Effect
<1>5. {"LoadRow", "AndRow"} \subseteq
        {"LoadRow", "AndRow", "LeftShiftOffset", "RightShiftOffset", "IncrementOffset", "Push",
         "Pop", "AndStack", "OrStack", "UpdateFlags", "Not", "Report"}
  OBVIOUS
<1>6. QED
  BY <1>1, <1>2, <1>3, <1>4, <1>5, AdvanceInv, Zenon

LEMMA MoveOffsetInv ==
  ASSUME MachineInv, OperandsFit(query), MoveOffset
  PROVE  MachineInv'
<1>1. /\ Step({"LeftShiftOffset", "RightShiftOffset", "IncrementOffset"}) /\ Advance
      /\ callStack' = callStack /\ valueStack' = valueStack /\ accumulator' = accumulator
      /\ instruction.opcode \in {"LeftShiftOffset", "RightShiftOffset", "IncrementOffset"}
      /\ pc = "run"
      /\ offset' = CASE instruction.opcode = "LeftShiftOffset" -> offset * TwoTo[instruction.row]
                     [] instruction.opcode = "RightShiftOffset" -> offset \div TwoTo[instruction.row]
                     [] instruction.opcode = "IncrementOffset" -> offset + 1
  BY Zenon DEF MoveOffset, Step
<1>2. valueStack' \in Seq(SUBSET Bit) /\ accumulator' \in SUBSET Bit
  BY <1>1, Zenon DEF MachineInv, Registers
<1>3. Effect(instruction, Len(valueStack), offset, Len(valueStack'), offset')
  BY <1>1 DEF Effect
<1>4. {"LeftShiftOffset", "RightShiftOffset", "IncrementOffset"} \subseteq
        {"LoadRow", "AndRow", "LeftShiftOffset", "RightShiftOffset", "IncrementOffset", "Push",
         "Pop", "AndStack", "OrStack", "UpdateFlags", "Not", "Report"}
  OBVIOUS
<1>5. QED
  BY <1>1, <1>2, <1>3, <1>4, AdvanceInv, Zenon

LEMMA PushInv ==
  ASSUME MachineInv, OperandsFit(query), Push
  PROVE  MachineInv'
<1>1. /\ Step({"Push"}) /\ Advance /\ callStack' = callStack /\ accumulator' = accumulator
      /\ valueStack' = Append(valueStack, accumulator) /\ offset' = offset
      /\ instruction.opcode = "Push" /\ pc = "run"
  BY DEF Push, Step
<1>2. valueStack \in Seq(SUBSET Bit) /\ accumulator \in SUBSET Bit /\ accumulator' \in SUBSET Bit
  BY <1>1, Zenon DEF MachineInv, Registers
<1>3. valueStack' \in Seq(SUBSET Bit) /\ Len(valueStack') = Len(valueStack) + 1
  BY <1>1, <1>2
<1>4. Effect(instruction, Len(valueStack), offset, Len(valueStack'), offset')
  BY <1>1, <1>3 DEF Effect
<1>5. {"Push"} \subseteq
        {"LoadRow", "AndRow", "LeftShiftOffset", "RightShiftOffset", "IncrementOffset", "Push",
         "Pop", "AndStack", "OrStack", "UpdateFlags", "Not", "Report"}
  OBVIOUS
<1>6. QED
  BY <1>1, <1>2, <1>3, <1>4, <1>5, AdvanceInv, Zenon

LEMMA PopInv ==
  ASSUME MachineInv, OperandsFit(query), Pop
  PROVE  MachineInv'
<1>1. /\ Step({"Pop", "AndStack", "OrStack"}) /\ Advance /\ callStack' = callStack
      /\ valueStack' = Front(valueStack) /\ offset' = offset
      /\ instruction.opcode \in {"Pop", "AndStack", "OrStack"} /\ pc = "run"
  BY DEF Pop, Step
<1>2. valueStack \in Seq(SUBSET Bit) /\ accumulator \in SUBSET Bit
  BY <1>1, Zenon DEF MachineInv, Registers
<1>3. valueStack # << >>
  BY <1>1, InvSound DEF MachineSound
<1>4. PICK values : values = valueStack
  OBVIOUS
<1>5. Len(values) \in Nat \ {0} /\ values \in Seq(SUBSET Bit)
  BY <1>2, <1>3, <1>4, EmptySeq
<1>6. Front(values) \in Seq(SUBSET Bit) /\ Len(Front(values)) = Len(values) - 1
      /\ Last(values) \in SUBSET Bit
  <2>1. PICK S : S = SUBSET Bit
    OBVIOUS
  <2>2. PICK m \in Nat : Len(values) = m + 1 /\ values \in Seq(S)
    <3>1. Len(values) - 1 \in Nat /\ Len(values) = (Len(values) - 1) + 1
      BY <1>5
    <3>2. QED
      BY <1>5, <2>1, <3>1
  <2>3. SubSeq(values, 1, m) \in Seq(S) /\ Len(SubSeq(values, 1, m)) = m /\ values[m + 1] \in S
    BY <2>2
  <2>4. Front(values) = SubSeq(values, 1, m) /\ Last(values) = values[m + 1] /\ Len(values) - 1 = m
    BY <2>2 DEF Front, Last
  <2>5. QED
    BY <2>1, <2>3, <2>4
<1>7. accumulator' \in SUBSET Bit
  <2>1. \/ accumulator' = Last(values) \/ accumulator' = accumulator \cap Last(values)
        \/ accumulator' = accumulator \cup Last(values)
    BY <1>1, <1>4 DEF Pop
  <2>2. QED
    BY <1>2, <1>6, <2>1
<1>8. valueStack' \in Seq(SUBSET Bit) /\ Len(valueStack') = Len(valueStack) - 1
  BY <1>1, <1>4, <1>6
<1>9. Effect(instruction, Len(valueStack), offset, Len(valueStack'), offset')
  BY <1>1, <1>8 DEF Effect
<1>10. {"Pop", "AndStack", "OrStack"} \subseteq
        {"LoadRow", "AndRow", "LeftShiftOffset", "RightShiftOffset", "IncrementOffset", "Push",
         "Pop", "AndStack", "OrStack", "UpdateFlags", "Not", "Report"}
  OBVIOUS
<1>11. QED
  BY <1>1, <1>7, <1>8, <1>9, <1>10, AdvanceInv, Zenon

LEMMA PlainInv ==
  ASSUME MachineInv, OperandsFit(query), UpdateFlags \/ LogicalNot \/ AddResult
  PROVE  MachineInv'
<1>1. /\ Step({"UpdateFlags", "Not", "Report"}) /\ Advance /\ callStack' = callStack
      /\ valueStack' = valueStack /\ offset' = offset
      /\ instruction.opcode \in {"UpdateFlags", "Not", "Report"} /\ pc = "run"
  BY DEF UpdateFlags, LogicalNot, AddResult, Step
<1>2. valueStack' \in Seq(SUBSET Bit) /\ accumulator \in SUBSET Bit
  BY <1>1, Zenon DEF MachineInv, Registers
<1>3. accumulator' \in SUBSET Bit
  <2>1. accumulator' = accumulator \/ accumulator' = {0} \/ accumulator' = {}
    BY DEF UpdateFlags, LogicalNot, AddResult
  <2>2. 0 \in Bit
    BY MatcherAssumption DEF Bit
  <2>3. QED
    BY <1>2, <2>1, <2>2
<1>4. Effect(instruction, Len(valueStack), offset, Len(valueStack'), offset')
  BY <1>1 DEF Effect
<1>5. {"UpdateFlags", "Not", "Report"} \subseteq
        {"LoadRow", "AndRow", "LeftShiftOffset", "RightShiftOffset", "IncrementOffset", "Push",
         "Pop", "AndStack", "OrStack", "UpdateFlags", "Not", "Report"}
  OBVIOUS
<1>6. QED
  BY <1>1, <1>2, <1>3, <1>4, <1>5, AdvanceInv, Zenon

LEMMA JumpInv ==
  ASSUME MachineInv, OperandsFit(query), Jump
  PROVE  MachineInv'
<1>1. /\ Step({"Jmp", "Jz", "Call"}) /\ instruction.opcode \in {"Jmp", "Jz", "Call"} /\ pc = "run"
      /\ ip' = IF instruction.opcode = "Jz" /\ accumulator # {} THEN ip + 1 ELSE Target
      /\ callStack' = IF instruction.opcode = "Call" THEN Append(callStack, ip + 1) ELSE callStack
      /\ accumulator' = accumulator /\ valueStack' = valueStack /\ offset' = offset
  BY Zenon DEF Jump, Step
<1>2. PICK A, R, last : A = NotesOf(query) /\ R = Plans[query].initialRank /\ last = EndOf(query)
  OBVIOUS
<1>3. /\ A \in [Nat -> Note] /\ R \in Nat /\ last \in Nat /\ iteration \in Nat
      /\ ip \in Nat /\ ip \in 0 .. last
      /\ instruction \in Instruction /\ AtPlace(query, A, last, ip, instruction, Target)
      /\ Registers(A, R, iteration, last, ip, valueStack, callStack, offset)
      /\ valueStack \in Seq(SUBSET Bit)
  BY <1>1, <1>2, MachineFacts, Zenon
<1>4. PICK c, target, next : c = instruction /\ target = Target /\ next = ip + 1
  OBVIOUS
<1>5. /\ next \in 0 .. last /\ target \in 0 .. last
      /\ c.opcode \in {"Jmp", "Jz"} => A[target] = A[ip]
      /\ c.opcode = "Jz" => A[next] = A[ip]
      /\ c.opcode = "Call" => A[target] = Called(A[ip]) /\ A[next] = A[ip]
  <2>1. AtPlace(query, A, last, ip, c, target) /\ c.opcode \in {"Jmp", "Jz", "Call"}
    BY <1>1, <1>3, <1>4
  <2>2. /\ ip + 1 \in 0 .. last /\ target \in 0 .. last
        /\ c.opcode \in {"Jmp", "Jz"} => A[target] = A[ip]
        /\ c.opcode = "Jz" => A[ip + 1] = A[ip]
        /\ c.opcode = "Call" => A[target] = Called(A[ip]) /\ A[ip + 1] = A[ip]
    BY <2>1, ByOpcode
  <2>3. QED
    BY <1>4, <2>2
<1>6. ASSUME NEW p2 \in 0 .. last, A[p2] = A[ip]
      PROVE  Registers(A, R, iteration, last, p2, valueStack, callStack, offset)
  <2>1. ASSUME NEW f, Framed(A[ip], R, iteration, offset, Len(valueStack), f)
        PROVE  /\ offset = OffsetOf(Moved(f, A[p2])) /\ Len(valueStack) = Height(Moved(f, A[p2]))
    <3>1. f.note = A[p2] /\ offset = OffsetOf(f) /\ Len(valueStack) = Height(f)
      BY <1>6, <2>1, Zenon DEF Framed
    <3>2. Moved(f, A[p2]).note = f.note /\ Moved(f, A[p2]).base = f.base
          /\ Moved(f, A[p2]).entry = f.entry
      BY <3>1 DEF Moved
    <3>3. OffsetOf(Moved(f, A[p2])) = OffsetOf(f) /\ Height(Moved(f, A[p2])) = Height(f)
      BY <3>2, Zenon DEF OffsetOf, Height
    <3>4. QED
      BY <3>1, <3>3
  <2>2. A[p2].top = A[ip].top /\ A[p2].main = A[ip].main
    BY <1>6
  <2>3. QED
    BY <1>3, <1>6, <2>1, <2>2, MoveTop, Zenon
<1>7. Registers(A, R, iteration, last, ip', valueStack, callStack', offset)
  <2>1. CASE c.opcode = "Call"
    <3>1. Registers(A, R, iteration, last, target, valueStack, Append(callStack, next), offset)
      BY <1>3, <1>4, <1>5, <2>1, CallTop, Zenon
    <3>2. ip' = target /\ callStack' = Append(callStack, next)
      BY <1>1, <1>4, <2>1
    <3>3. QED
      BY <3>1, <3>2, Zenon
  <2>2. CASE c.opcode # "Call"
    <3>1. callStack' = callStack
      BY <1>1, <1>4, <2>2
    <3>2. ip' \in 0 .. last /\ A[ip'] = A[ip]
      BY <1>1, <1>4, <1>5, <2>2
    <3>3. PICK p2 : p2 = ip'
      OBVIOUS
    <3>4. Registers(A, R, iteration, last, p2, valueStack, callStack, offset)
      BY <1>6, <3>2, <3>3
    <3>5. QED
      BY <3>1, <3>3, <3>4, Zenon
  <2>3. QED
    BY <2>1, <2>2
<1>8. Registers(NotesOf(query), Plans[query].initialRank, iteration, EndOf(query), ip',
                valueStack', callStack', offset')
  BY <1>1, <1>2, <1>7, Zenon
<1>9. accumulator' \in SUBSET Bit
  BY <1>1, Zenon DEF MachineInv
<1>10. QED
  BY <1>1, <1>8, <1>9, KeepRunning, Zenon

LEMMA ReturnInv ==
  ASSUME MachineInv, OperandsFit(query), Return
  PROVE  MachineInv'
<1>1. /\ Step({"Return"}) /\ instruction.opcode = "Return" /\ pc = "run"
      /\ ip' = Last(callStack) /\ callStack' = Front(callStack)
      /\ accumulator' = accumulator /\ valueStack' = valueStack /\ offset' = offset
  BY DEF Return, Step
<1>2. PICK A, R, last : A = NotesOf(query) /\ R = Plans[query].initialRank /\ last = EndOf(query)
  OBVIOUS
<1>3. /\ A \in [Nat -> Note] /\ R \in Nat /\ last \in Nat /\ iteration \in Nat
      /\ ip \in Nat /\ ip \in 0 .. last
      /\ AtPlace(query, A, last, ip, instruction, Target)
      /\ Registers(A, R, iteration, last, ip, valueStack, callStack, offset)
  BY <1>1, <1>2, MachineFacts, Zenon
<1>4. A[ip].slots = 0 /\ A[ip].rank = A[ip].top /\ ~A[ip].main
  BY <1>1, <1>3, ByOpcode, Zenon
<1>5. Registers(A, R, iteration, last, Last(callStack), valueStack, Front(callStack), offset)
  BY <1>3, <1>4, ReturnTop, Zenon
<1>6. Registers(NotesOf(query), Plans[query].initialRank, iteration, EndOf(query), ip',
                valueStack', callStack', offset')
  BY <1>1, <1>2, <1>5, Zenon
<1>7. accumulator' \in SUBSET Bit
  BY <1>1, Zenon DEF MachineInv
<1>8. QED
  BY <1>1, <1>6, <1>7, KeepRunning, Zenon

(* The next slice with documents is one of the index.                      *)
LEMMA LeastOf ==
  ASSUME NEW S \in SUBSET Nat, S # {}
  PROVE  Min(S) \in S /\ \A y \in S : Min(S) <= y
<1>1. PICK x \in S : \A y \in S : <<y, x>> \notin OpToRel(<, Nat)
  BY NatLessThanWellFounded, WFMin
<1>2. \A y \in S : x <= y
  <2>1. SUFFICES ASSUME NEW y \in S, y < x PROVE FALSE
    OBVIOUS
  <2>2. <<y, x>> \in OpToRel(<, Nat)
    BY <2>1 DEF OpToRel
  <2>3. QED
    BY <1>1, <2>2
<1>3. \E z \in S : \A y \in S : z =< y
  BY <1>2
<1>4. QED
  BY <1>3, Zenon DEF Min

LEMMA NextShard ==
  ASSUME NEW s, FirstShard(s) # {}
  PROVE  LET t == Min(FirstShard(s)) IN t \in Shard /\ t > s /\ 1 \in Slices(t)
<1>1. FirstShard(s) \in SUBSET Nat
  BY PlanAssumption DEF FirstShard, Shard
<1>2. PICK t : t = Min(FirstShard(s))
  OBVIOUS
<1>3. t \in FirstShard(s)
  BY <1>1, <1>2, LeastOf
<1>4. t \in Shard /\ t > s /\ SliceCount[t] > 0
  BY <1>3 DEF FirstShard
<1>5. SliceCount[t] \in Nat
  BY <1>4, MatcherAssumption
<1>6. 1 \in Slices(t)
  BY <1>4, <1>5 DEF Slices
<1>7. QED
  BY <1>2, <1>4, <1>6

(* A new iteration starts with empty stacks.                               *)
LEMMA StartInv ==
  ASSUME MachineInv, OperandsFit(query), query' = query, plan' = plan, program' = program,
         pc' = "run", valueStack' = << >>, callStack' = << >>,
         NEW s, NEW k, NEW i, StartIteration(s, k, i), Located(query, s, k, i)
  PROVE  MachineInv'
<1>1. /\ shard' = s /\ slice' = k /\ iteration' = i /\ ip' = 0 /\ accumulator' = {} /\ offset' = i
  BY DEF StartIteration
<1>2. query \in DOMAIN Plans /\ plan = Plans[query] /\ program = Seal(query)
  BY Zenon DEF MachineInv
<1>3. PICK A, R, last : A = NotesOf(query) /\ R = Plans[query].initialRank /\ last = EndOf(query)
  OBVIOUS
<1>4. R \in Nat /\ last \in Nat /\ A \in [Nat -> Note] /\ A[0] = Main(R)
  BY <1>2, <1>3, SealSound, PlansAssumption, Ranks, Zenon DEF Annotates
<1>5. i \in Nat
  BY DEF Located
<1>6. Registers(A, R, i, last, 0, << >>, << >>, i)
  BY <1>4, <1>5, StartTop
<1>7. Registers(NotesOf(query'), Plans[query'].initialRank, iteration', EndOf(query'), ip',
                valueStack', callStack', offset')
  BY <1>1, <1>3, <1>6, Zenon
<1>8. Located(query', shard', slice', iteration') /\ accumulator' \in SUBSET Bit
  BY <1>1
<1>9. QED
  BY <1>2, <1>7, <1>8, Zenon DEF MachineInv

LEMMA IterationsType ==
  ASSUME NEW R \in Rank
  PROVE  0 \in 0 .. QuadwordsPerRow \div TwoTo[R] - 1 /\ QuadwordsPerRow \div TwoTo[R] \in Nat
<1>1. PICK x \in Nat \ {0} : QuadwordsPerRow \div TwoTo[R] = x
  BY Splits
<1>2. QED
  BY <1>1

LEMMA BeginInv ==
  ASSUME MachineInv, OperandsFit(query), Begin
  PROVE  MachineInv'
<1>1. PICK t : t = Min(FirstShard(0))
  OBVIOUS
<1>2. /\ pc = "idle" /\ FirstShard(0) # {} /\ pc' = "run" /\ StartIteration(t, 1, 0)
      /\ query' = query /\ plan' = plan /\ program' = program
      /\ valueStack' = valueStack /\ callStack' = callStack
  BY <1>1, Zenon DEF Begin
<1>3. valueStack' = << >> /\ callStack' = << >> /\ query \in DOMAIN Plans
  BY <1>2, Zenon DEF MachineInv
<1>4. Located(query, t, 1, 0)
  <2>1. t \in Shard /\ 1 \in Slices(t)
    BY <1>1, <1>2, NextShard
  <2>2. Plans[query].initialRank \in Rank
    BY <1>3, PlansAssumption
  <2>3. QED
    BY <2>1, <2>2, IterationsType DEF Located
<1>5. QED
  BY <1>2, <1>3, <1>4, StartInv, Zenon

LEMMA FinishInv ==
  ASSUME MachineInv, OperandsFit(query), FinishIteration
  PROVE  MachineInv'
<1>1. pc = "run" /\ instruction.opcode = "End"
      /\ query' = query /\ plan' = plan /\ program' = program
  BY DEF FinishIteration, Others
<1>2. valueStack = << >> /\ callStack = << >>
  BY <1>1, InvSound DEF MachineSound
<1>3. query \in DOMAIN Plans /\ plan = Plans[query] /\ program = Seal(query)
      /\ Located(query, shard, slice, iteration) /\ accumulator \in SUBSET Bit
  BY <1>1, Zenon DEF MachineInv
<1>4. PICK R \in Rank : R = Plans[query].initialRank
  BY <1>3, PlansAssumption
<1>5. PICK x \in Nat : x = QuadwordsPerRow \div TwoTo[R] /\ 0 \in 0 .. x - 1
  BY IterationsType
<1>6. Iterations = x
  BY <1>3, <1>4, <1>5 DEF Iterations
<1>7. shard \in Shard /\ slice \in Slices(shard) /\ iteration \in 0 .. x - 1
  BY <1>3, <1>4, <1>5 DEF Located
<1>8. \A s \in Shard : \A k \in Slices(s) : \A i \in 0 .. x - 1 : Located(query, s, k, i)
  BY <1>4, <1>5 DEF Located
<1>9. CASE /\ iteration + 1 < Iterations /\ StartIteration(shard, slice, iteration + 1)
           /\ pc' = pc /\ valueStack' = valueStack /\ callStack' = callStack
  <2>1. iteration + 1 \in 0 .. x - 1
    BY <1>6, <1>7, <1>9
  <2>2. Located(query, shard, slice, iteration + 1)
    BY <1>7, <1>8, <2>1
  <2>3. QED
    BY <1>1, <1>2, <1>9, <2>2, StartInv, Zenon
<1>10. CASE /\ slice + 1 \in Slices(shard) /\ StartIteration(shard, slice + 1, 0)
            /\ pc' = pc /\ valueStack' = valueStack /\ callStack' = callStack
  <2>1. Located(query, shard, slice + 1, 0)
    BY <1>5, <1>7, <1>8, <1>10
  <2>2. QED
    BY <1>1, <1>2, <1>10, <2>1, StartInv, Zenon
<1>11. CASE /\ FirstShard(shard) # {} /\ StartIteration(Min(FirstShard(shard)), 1, 0)
            /\ pc' = pc /\ valueStack' = << >> /\ callStack' = << >>
  <2>1. PICK t : t = Min(FirstShard(shard))
    OBVIOUS
  <2>2. t \in Shard /\ 1 \in Slices(t)
    BY <1>11, <2>1, NextShard
  <2>3. Located(query, t, 1, 0)
    BY <1>5, <1>8, <2>2
  <2>4. QED
    BY <1>1, <1>11, <2>1, <2>3, StartInv, Zenon
<1>12. CASE /\ pc' = "done" /\ accumulator' = accumulator
  BY <1>1, <1>3, <1>12 DEF MachineInv
<1>13. \/ /\ iteration + 1 < Iterations /\ StartIteration(shard, slice, iteration + 1)
          /\ pc' = pc /\ valueStack' = valueStack /\ callStack' = callStack
       \/ /\ slice + 1 \in Slices(shard) /\ StartIteration(shard, slice + 1, 0)
          /\ pc' = pc /\ valueStack' = valueStack /\ callStack' = callStack
       \/ /\ FirstShard(shard) # {} /\ StartIteration(Min(FirstShard(shard)), 1, 0)
          /\ pc' = pc /\ valueStack' = << >> /\ callStack' = << >>
       \/ pc' = "done" /\ accumulator' = accumulator
  <2>1. iteration + 1 < Iterations \/ iteration + 1 >= Iterations
    BY <1>6, <1>7
  <2>2. QED
    BY <2>1, Zenon DEF FinishIteration
<1>14. QED
  BY <1>9, <1>10, <1>11, <1>12, <1>13

(* Nothing that another thread does touches the interpreter.               *)
LEMMA OthersInv ==
  ASSUME MachineInv, UNCHANGED engine
  PROVE  MachineInv'
<1>1. /\ query' = query /\ plan' = plan /\ program' = program /\ pc' = pc
      /\ shard' = shard /\ slice' = slice /\ iteration' = iteration /\ ip' = ip
      /\ accumulator' = accumulator /\ offset' = offset
      /\ valueStack' = valueStack /\ callStack' = callStack
  BY DEF engine, position, machine
<1>2. QED
  BY <1>1, Zenon DEF MachineInv

(* The hypothesis about the plans: the labels of a query and its rows fit  *)
(* the operand of an instruction, which the code cuts off (CHECK_LE in     *)
(* ByteCodeInterpreter::Instruction is commented out).                     *)
Fit == \A q \in DOMAIN Plans : OperandsFit(q)

LEMMA InvNext ==
  ASSUME Fit, MachineInv, [Next]_vars
  PROVE  MachineInv'
<1>1. OperandsFit(query)
  BY DEF Fit, MachineInv
<1>2. CASE Begin
  BY <1>1, <1>2, BeginInv
<1>3. CASE ReadRow
  BY <1>1, <1>3, ReadRowInv
<1>4. CASE MoveOffset
  BY <1>1, <1>4, MoveOffsetInv
<1>5. CASE Push
  BY <1>1, <1>5, PushInv
<1>6. CASE Pop
  BY <1>1, <1>6, PopInv
<1>7. CASE UpdateFlags \/ LogicalNot \/ AddResult
  BY <1>1, <1>7, PlainInv
<1>8. CASE Jump
  BY <1>1, <1>8, JumpInv
<1>9. CASE Return
  BY <1>1, <1>9, ReturnInv
<1>10. CASE FinishIteration
  BY <1>1, <1>10, FinishInv
<1>11. CASE AddPosting
  BY <1>11, OthersInv DEF AddPosting, SetBit, Write
<1>12. CASE Activate
  BY <1>12, OthersInv DEF Activate, Write
<1>13. CASE \E c \in DeletableColumns : Expire(c)
  BY <1>13, OthersInv DEF Expire, Write
<1>14. CASE UNCHANGED vars
  BY <1>14, OthersInv DEF vars
<1>15. QED
  BY <1>2, <1>3, <1>4, <1>5, <1>6, <1>7, <1>8, <1>9, <1>10, <1>11, <1>12, <1>13, <1>14
     DEF Next, Interpret

-----------------------------------------------------------------------------
(* The columns of an iteration in the order of their documents: as many    *)
(* documents lie below a column as its place in the sequence says.         *)
Distinct(columns) ==
  /\ IsFiniteSet(columns)
  /\ \A c \in columns : DocIndex(c) \in Nat
  /\ \A c, d \in columns : DocIndex(c) = DocIndex(d) => c = d

Below(columns, c) == {d \in columns : DocIndex(d) < DocIndex(c)}

LEMMA BelowCounts ==
  ASSUME NEW columns, Distinct(columns)
  PROVE  /\ \A c \in columns : Cardinality(Below(columns, c)) \in 0 .. Cardinality(columns) - 1
         /\ \A c, d \in columns :
              DocIndex(c) < DocIndex(d) <=>
                Cardinality(Below(columns, c)) < Cardinality(Below(columns, d))
<1>1. IsFiniteSet(columns) /\ \A c \in columns : DocIndex(c) \in Nat
  BY DEF Distinct
<1>2. \A c \in columns : Below(columns, c) \in SUBSET columns /\ c \notin Below(columns, c)
  BY <1>1 DEF Below
<1>3. \A c \in columns : IsFiniteSet(Below(columns, c)) /\ Cardinality(Below(columns, c)) \in Nat
  BY <1>1, <1>2, FS_Subset, FS_CardinalityType
<1>4. Cardinality(columns) \in Nat
  BY <1>1, FS_CardinalityType
<1>5. \A c \in columns : Cardinality(Below(columns, c)) < Cardinality(columns)
  <2>1. SUFFICES ASSUME NEW c \in columns
                 PROVE  Cardinality(Below(columns, c)) < Cardinality(columns)
    OBVIOUS
  <2>2. Cardinality(Below(columns, c)) <= Cardinality(columns)
        /\ Cardinality(Below(columns, c)) # Cardinality(columns)
    BY <1>1, <1>2, FS_Subset
  <2>3. QED
    BY <1>3, <1>4, <2>2
<1>6. ASSUME NEW c \in columns, NEW d \in columns, DocIndex(c) <= DocIndex(d)
      PROVE  Cardinality(Below(columns, c)) <= Cardinality(Below(columns, d))
  <2>1. Below(columns, c) \in SUBSET Below(columns, d)
    BY <1>1, <1>6 DEF Below
  <2>2. QED
    BY <1>3, <2>1, FS_Subset
<1>7. ASSUME NEW c \in columns, NEW d \in columns, DocIndex(c) < DocIndex(d)
      PROVE  Cardinality(Below(columns, c)) < Cardinality(Below(columns, d))
  <2>1. Below(columns, c) \in SUBSET Below(columns, d)
    BY <1>1, <1>7 DEF Below
  <2>2. c \in Below(columns, d) /\ c \notin Below(columns, c)
    BY <1>2, <1>7 DEF Below
  <2>3. Cardinality(Below(columns, c)) <= Cardinality(Below(columns, d))
        /\ Cardinality(Below(columns, c)) # Cardinality(Below(columns, d))
    BY <1>3, <2>1, <2>2, FS_Subset
  <2>4. QED
    BY <1>3, <2>3
<1>8. \A c \in columns : Cardinality(Below(columns, c)) \in 0 .. Cardinality(columns) - 1
  BY <1>3, <1>4, <1>5
<1>9. ASSUME NEW c \in columns, NEW d \in columns
      PROVE  DocIndex(c) < DocIndex(d) <=>
                Cardinality(Below(columns, c)) < Cardinality(Below(columns, d))
  <2>1. CASE DocIndex(c) < DocIndex(d)
    BY <1>7, <2>1
  <2>2. CASE DocIndex(d) <= DocIndex(c)
    <3>1. Cardinality(Below(columns, d)) <= Cardinality(Below(columns, c))
      BY <1>6, <2>2
    <3>2. QED
      BY <1>1, <1>3, <2>2, <3>1
  <2>3. QED
    BY <1>1, <2>1, <2>2
<1>10. QED
  BY <1>8, <1>9

LEMMA OrderedAscends ==
  ASSUME NEW columns, Distinct(columns)
  PROVE  /\ Cardinality(columns) \in Nat
         /\ Ordered(columns) \in [1 .. Cardinality(columns) -> columns]
         /\ \A i \in 1 .. Cardinality(columns) - 1 :
              DocIndex(Ordered(columns)[i]) < DocIndex(Ordered(columns)[i + 1])
<1>1. PICK n \in Nat : n = Cardinality(columns)
  BY FS_CardinalityType DEF Distinct
<1>2. /\ \A c \in columns : Cardinality(Below(columns, c)) \in 0 .. n - 1
      /\ \A c, d \in columns :
           DocIndex(c) < DocIndex(d) <=>
             Cardinality(Below(columns, c)) < Cardinality(Below(columns, d))
      /\ \A c \in columns : DocIndex(c) \in Nat
      /\ \A c, d \in columns : DocIndex(c) = DocIndex(d) => c = d
  BY <1>1, BelowCounts DEF Distinct
<1>3. PICK f \in [columns -> 0 .. n - 1] :
        \A c \in columns : f[c] = Cardinality(Below(columns, c))
  <2> DEFINE g == [c \in columns |-> Cardinality(Below(columns, c))]
  <2>1. g \in [columns -> 0 .. n - 1]
    BY <1>2
  <2>2. \A c \in columns : g[c] = Cardinality(Below(columns, c))
    OBVIOUS
  <2>3. QED
    BY <2>1, <2>2
<1>4. \A c, d \in columns : f[c] = f[d] => c = d
  BY <1>2, <1>3
<1>5. f \in Injection(columns, 0 .. n - 1)
  BY <1>4 DEF Injection, IsInjective
<1>6. IsFiniteSet(0 .. n - 1) /\ Cardinality(0 .. n - 1) = n
  BY FS_Interval
<1>7. f \in Surjection(columns, 0 .. n - 1)
  BY <1>1, <1>5, <1>6, FS_Injection
<1>8. ASSUME NEW i \in 1 .. n
      PROVE  \E c \in columns : Cardinality(Below(columns, c)) = i - 1
  <2>1. i - 1 \in 0 .. n - 1
    OBVIOUS
  <2>2. QED
    BY <1>3, <1>7, <2>1 DEF Surjection
<1>9. PICK o : o = Ordered(columns)
  OBVIOUS
<1>10. o = [i \in 1 .. n |-> CHOOSE c \in columns : Cardinality(Below(columns, c)) = i - 1]
  BY <1>1, <1>9, Zenon DEF Ordered, Below
<1>11. \A i \in 1 .. n : o[i] \in columns /\ Cardinality(Below(columns, o[i])) = i - 1
  BY <1>8, <1>10
<1>12. o \in [1 .. n -> columns]
  BY <1>10, <1>11
<1>13. ASSUME NEW i \in 1 .. n - 1
       PROVE  DocIndex(o[i]) < DocIndex(o[i + 1])
  <2>1. i \in 1 .. n /\ i + 1 \in 1 .. n
    OBVIOUS
  <2>2. /\ o[i] \in columns /\ o[i + 1] \in columns
        /\ Cardinality(Below(columns, o[i])) = i - 1
        /\ Cardinality(Below(columns, o[i + 1])) = (i + 1) - 1
    BY <1>11, <2>1
  <2>3. QED
    BY <1>2, <2>2
<1>14. QED
  BY <1>1, <1>9, <1>12, <1>13

-----------------------------------------------------------------------------
(* Where the columns of an iteration lie in the order of the documents.    *)
LEMMA DocIndexOf ==
  ASSUME NEW c, c[3] \in Nat, c[4] \in Bit
  PROVE  /\ DocIndex(c) \in Nat
         /\ DocIndex(c) \div c_bitsPerQuadword = c[3]
         /\ DocIndex(c) = c[3] * c_bitsPerQuadword + c[4]
<1>1. PICK w \in Nat \ {0} : w = c_bitsPerQuadword
  BY MatcherAssumption
<1>2. PICK q \in Nat, b \in 0 .. w - 1 : q = c[3] /\ b = c[4]
  BY <1>1 DEF Bit
<1>3. (q * w + b) \div w = q
  BY Division
<1>4. q * w \in Nat
  BY Products
<1>5. DocIndex(c) = q * w + b
  BY <1>1, <1>2 DEF DocIndex
<1>6. QED
  BY <1>1, <1>2, <1>3, <1>4, <1>5

(* The documents of the quadwords from low up to, and not including, high. *)
Documents(low, high) == low * c_bitsPerQuadword .. high * c_bitsPerQuadword - 1

LEMMA DocumentsOf ==
  ASSUME NEW low \in Nat, NEW high \in Nat, NEW c, c[3] \in low .. high - 1, c[4] \in Bit
  PROVE  DocIndex(c) \in Documents(low, high)
<1>1. PICK w \in Nat \ {0} : w = c_bitsPerQuadword
  BY MatcherAssumption
<1>2. PICK q \in Nat, b \in 0 .. w - 1 : q = c[3] /\ b = c[4] /\ low <= q /\ q + 1 <= high
  BY <1>1 DEF Bit
<1>3. low * w <= q * w /\ (q + 1) * w <= high * w /\ (q + 1) * w = q * w + w
  BY <1>2, Monotone
<1>4. PICK x \in Nat, y \in Nat, z \in Nat : x = low * w /\ y = q * w /\ z = high * w
  BY Products
<1>5. x <= y /\ y + w <= z
  BY <1>3, <1>4
<1>6. y + b \in x .. z - 1
  BY <1>5
<1>7. DocIndex(c) = y + b
  BY <1>1, <1>2, <1>4 DEF DocIndex
<1>8. QED
  BY <1>1, <1>4, <1>6, <1>7 DEF Documents

Places(dedupe, s, k, base) == {<<s, k, base + d[1], d[2]>> : d \in dedupe}

LEMMA PlacesDistinct ==
  ASSUME NEW base \in Nat, NEW N \in Nat, NEW s, NEW k,
         NEW dedupe \in SUBSET ((0 .. N - 1) \X Bit),
         NEW columns, columns = Places(dedupe, s, k, base)
  PROVE  /\ Distinct(columns)
         /\ \A c \in columns : /\ c[1] = s /\ c[2] = k /\ c[3] \in base .. base + N - 1
                               /\ c[4] \in Bit /\ c = <<s, k, c[3], c[4]>>
                               /\ DocIndex(c) \in Documents(base, base + N)
<1>1. \A c \in columns : /\ c[1] = s /\ c[2] = k /\ c[3] \in base .. base + N - 1
                         /\ c[4] \in Bit /\ c = <<s, k, c[3], c[4]>>
  <2>1. SUFFICES ASSUME NEW d \in dedupe, NEW c, c = <<s, k, base + d[1], d[2]>>
                 PROVE  /\ c[1] = s /\ c[2] = k /\ c[3] \in base .. base + N - 1
                        /\ c[4] \in Bit /\ c = <<s, k, c[3], c[4]>>
    BY DEF Places
  <2>2. d[1] \in 0 .. N - 1 /\ d[2] \in Bit
    OBVIOUS
  <2>3. QED
    BY <2>1, <2>2
<1>2. IsFiniteSet(columns)
  <2>1. IsFiniteSet(0 .. N - 1) /\ IsFiniteSet(Bit)
    <3>1. 0 \in Int /\ N - 1 \in Int /\ c_bitsPerQuadword - 1 \in Int
      BY MatcherAssumption
    <3>2. QED
      BY <3>1, FS_Interval, Zenon DEF Bit
  <2>2. IsFiniteSet((0 .. N - 1) \X Bit)
    BY <2>1, FS_Product
  <2>3. IsFiniteSet(dedupe)
    BY <2>2, FS_Subset
  <2>4. [d \in dedupe |-> <<s, k, base + d[1], d[2]>>] \in Surjection(dedupe, columns)
    BY DEF Surjection, Places
  <2>5. QED
    BY <2>3, <2>4, FS_Surjection
<1>3. \A c \in columns : /\ DocIndex(c) \in Nat /\ DocIndex(c) \in Documents(base, base + N)
                         /\ DocIndex(c) \div c_bitsPerQuadword = c[3]
                         /\ DocIndex(c) = c[3] * c_bitsPerQuadword + c[4]
  <2>1. SUFFICES ASSUME NEW c \in columns
                 PROVE  /\ DocIndex(c) \in Nat /\ DocIndex(c) \in Documents(base, base + N)
                        /\ DocIndex(c) \div c_bitsPerQuadword = c[3]
                        /\ DocIndex(c) = c[3] * c_bitsPerQuadword + c[4]
    OBVIOUS
  <2>2. c[3] \in base .. base + N - 1 /\ c[4] \in Bit
    BY <1>1, Zenon
  <2>3. c[3] \in Nat /\ c[3] \in base .. (base + N) - 1 /\ base + N \in Nat
    BY <2>2
  <2>4. DocIndex(c) \in Documents(base, base + N)
    BY <2>2, <2>3, DocumentsOf
  <2>5. QED
    BY <2>2, <2>3, <2>4, DocIndexOf, Zenon
<1>4. ASSUME NEW c \in columns, NEW d \in columns, DocIndex(c) = DocIndex(d)
      PROVE  c = d
  <2>1. c[3] = d[3]
    <3>1. DocIndex(c) \div c_bitsPerQuadword = c[3] /\ DocIndex(d) \div c_bitsPerQuadword = d[3]
      BY <1>3, Zenon
    <3>2. QED
      BY <1>4, <3>1
  <2>2. PICK x \in Nat : x = c[3] * c_bitsPerQuadword
    BY <1>1, MatcherAssumption, Products
  <2>3. x + c[4] = x + d[4]
    BY <1>3, <1>4, <2>1, <2>2, Zenon
  <2>4. c[4] \in Nat /\ d[4] \in Nat
    BY <1>1 DEF Bit
  <2>5. c[4] = d[4]
    BY <2>2, <2>3, <2>4
  <2>6. QED
    BY <1>1, <2>1, <2>5, Zenon
<1>5. Distinct(columns)
  BY <1>2, <1>3, <1>4 DEF Distinct
<1>6. QED
  BY <1>1, <1>3, <1>5, Zenon

(* What one iteration adds to the results.                                 *)
Added(new, s, k, low, high) ==
  /\ new \in Seq(Column)
  /\ \A i \in 1 .. Len(new) : /\ new[i][1] = s /\ new[i][2] = k
                              /\ DocIndex(new[i]) \in Documents(low, high)
  /\ \A i \in 1 .. Len(new) - 1 : DocIndex(new[i]) < DocIndex(new[i + 1])

LEMMA ColumnsAscend ==
  ASSUME shard \in Shard, slice \in Slices(shard), NEW base \in Nat, NEW N \in Nat,
         base + N <= QuadwordsPerRow, m_dedupe \in SUBSET ((0 .. N - 1) \X Bit)
  PROVE  Added(Columns(m_dedupe, base), shard, slice, base, base + N)
<1>1. PICK columns : columns = Places(m_dedupe, shard, slice, base)
  OBVIOUS
<1>2. /\ Distinct(columns)
      /\ \A c \in columns : /\ c[1] = shard /\ c[2] = slice /\ c[3] \in base .. base + N - 1
                            /\ c[4] \in Bit /\ c = <<shard, slice, c[3], c[4]>>
                            /\ DocIndex(c) \in Documents(base, base + N)
  BY <1>1, PlacesDistinct, Zenon
<1>3. PICK n \in Nat : n = Cardinality(columns)
  BY <1>2, OrderedAscends
<1>4. PICK new : new = Ordered(columns)
  OBVIOUS
<1>5. new \in [1 .. n -> columns] /\ \A i \in 1 .. n - 1 : DocIndex(new[i]) < DocIndex(new[i + 1])
  BY <1>2, <1>3, <1>4, OrderedAscends
<1>6. columns \subseteq Column
  <2>1. SUFFICES ASSUME NEW c \in columns PROVE c \in Column
    OBVIOUS
  <2>2. PICK q \in base .. base + N - 1, b \in Bit : c = <<shard, slice, q, b>>
    BY <1>2
  <2>3. QuadwordsPerRow \div TwoTo[0] = QuadwordsPerRow
    BY TwoToDef, MatcherAssumption
  <2>4. q \in Quadwords(0)
    BY <2>3, Ranks DEF Quadwords
  <2>5. QED
    BY <2>2, <2>4 DEF Column
<1>7. new \in Seq(columns)
  BY <1>5
<1>8. new \in Seq(Column) /\ Len(new) = n
  BY <1>5, <1>6
<1>9. \A i \in 1 .. n : /\ new[i][1] = shard /\ new[i][2] = slice
                        /\ DocIndex(new[i]) \in Documents(base, base + N)
  BY <1>2, <1>5
<1>10. Added(new, shard, slice, base, base + N)
  BY <1>5, <1>8, <1>9 DEF Added
<1>11. new = Columns(m_dedupe, base)
  BY <1>1, <1>4, Zenon DEF Columns, Places
<1>12. QED
  BY <1>10, <1>11, Zenon

-----------------------------------------------------------------------------
(* The order of the results.  A column is behind a place when its document *)
(* comes before the quadword base of the slice k of the shard s.           *)
Behind(c, s, k, base) ==
  \/ c[1] < s
  \/ c[1] = s /\ c[2] < k
  \/ c[1] = s /\ c[2] = k /\ DocIndex(c) < base * c_bitsPerQuadword

(* The last result, if there is one, is behind a place.                    *)
UpTo(found, s, k, base) == found = << >> \/ Behind(found[Len(found)], s, k, base)

Ascending(found) == \A i \in 1 .. Len(found) - 1 : Before(found[i], found[i + 1])

LEMMA ColumnType ==
  ASSUME NEW c \in Column
  PROVE  /\ c[1] \in Shard /\ c[2] \in Slices(c[1]) /\ c[3] \in Nat /\ c[4] \in Bit
         /\ c[1] \in Nat /\ c[2] \in Nat /\ DocIndex(c) \in Nat
<1>1. PICK s \in Shard : \E k \in Slices(s), q \in Quadwords(0), b \in Bit : c = <<s, k, q, b>>
  BY DEF Column
<1>2. PICK k \in Slices(s), q \in Quadwords(0), b \in Bit : c = <<s, k, q, b>>
  BY <1>1
<1>3. q \in Nat /\ s \in Nat /\ k \in Nat
  BY DEF Quadwords, Shard, Slices
<1>4. /\ c[1] \in Shard /\ c[2] \in Slices(c[1]) /\ c[3] \in Nat /\ c[4] \in Bit
      /\ c[1] \in Nat /\ c[2] \in Nat
  BY <1>2, <1>3
<1>5. QED
  BY <1>4, DocIndexOf

LEMMA Concatenated ==
  ASSUME NEW found \in Seq(Column), NEW new, NEW s \in Nat, NEW k \in Nat,
         NEW low \in Nat, NEW high \in Nat, low <= high,
         Ascending(found), UpTo(found, s, k, low), Added(new, s, k, low, high)
  PROVE  /\ found \o new \in Seq(Column)
         /\ Ascending(found \o new)
         /\ UpTo(found \o new, s, k, high)
<1>1. PICK w \in Nat \ {0} : w = c_bitsPerQuadword
  BY MatcherAssumption
<1>2. low * w \in Nat /\ high * w \in Nat /\ low * w <= high * w
  BY <1>1, Products, Monotone
<1>3. PICK x \in Nat, y \in Nat : x = low * w /\ y = high * w /\ x <= y
  BY <1>2
<1>4. /\ new \in Seq(Column)
      /\ \A i \in 1 .. Len(new) : /\ new[i][1] = s /\ new[i][2] = k
                                  /\ DocIndex(new[i]) \in x .. y - 1
      /\ \A i \in 1 .. Len(new) - 1 : DocIndex(new[i]) < DocIndex(new[i + 1])
  BY <1>1, <1>3 DEF Added, Documents
<1>5. PICK m \in Nat, n \in Nat : m = Len(found) /\ n = Len(new)
  BY <1>4
<1>6. PICK all : all = found \o new
  OBVIOUS
<1>7. /\ all \in Seq(Column) /\ Len(all) = m + n
      /\ \A i \in 1 .. m : all[i] = found[i]
      /\ \A i \in 1 .. n : all[m + i] = new[i]
  BY <1>4, <1>5, <1>6
<1>8. \A c : Behind(c, s, k, low) <=> \/ c[1] < s
                                      \/ c[1] = s /\ c[2] < k
                                      \/ c[1] = s /\ c[2] = k /\ DocIndex(c) < x
  BY <1>1, <1>3 DEF Behind
<1>9. m > 0 => found[m] \in Column /\ Behind(found[m], s, k, low)
  <2>1. m > 0 => found # << >> /\ found[m] \in Column
    BY <1>5
  <2>2. QED
    BY <1>5, <2>1, Zenon DEF UpTo
<1>10. Ascending(all)
  <2>1. SUFFICES ASSUME NEW i \in 1 .. (m + n) - 1 PROVE Before(all[i], all[i + 1])
    BY <1>7 DEF Ascending
  <2>2. CASE i < m
    <3>1. i \in 1 .. Len(found) - 1 /\ i \in 1 .. m /\ i + 1 \in 1 .. m
      BY <1>5, <2>2
    <3>2. QED
      BY <1>7, <3>1, Zenon DEF Ascending
  <2>3. CASE i = m
    <3>1. m \in 1 .. m /\ 1 \in 1 .. n /\ m > 0
      BY <2>1, <2>3
    <3>2. all[i] = found[m] /\ all[i + 1] = new[1]
      BY <1>7, <2>3, <3>1
    <3>3. PICK c \in Column : c = found[m]
      BY <1>9, <3>1
    <3>4. PICK d : d = new[1]
      OBVIOUS
    <3>5. d[1] = s /\ d[2] = k /\ DocIndex(d) \in x .. y - 1
      BY <1>4, <1>5, <3>1, <3>4
    <3>6. \/ c[1] < s
          \/ c[1] = s /\ c[2] < k
          \/ c[1] = s /\ c[2] = k /\ DocIndex(c) < x
      BY <1>8, <1>9, <3>1, <3>3, Zenon
    <3>7. DocIndex(c) \in Nat
      BY ColumnType
    <3>8. Before(c, d)
      BY <3>5, <3>6, <3>7 DEF Before
    <3>9. QED
      BY <3>2, <3>3, <3>4, <3>8, Zenon
  <2>4. CASE i > m
    <3>1. PICK j \in 1 .. n - 1 : i = m + j /\ i + 1 = m + (j + 1)
      <4>1. i - m \in 1 .. n - 1 /\ i = m + (i - m) /\ i + 1 = m + ((i - m) + 1)
        BY <2>1, <2>4
      <4>2. QED
        BY <4>1, Zenon
    <3>2. j \in 1 .. n /\ j + 1 \in 1 .. n
      BY <3>1
    <3>3. all[i] = new[j] /\ all[i + 1] = new[j + 1]
      BY <1>7, <3>1, <3>2, Zenon
    <3>4. PICK c, d : c = new[j] /\ d = new[j + 1]
      OBVIOUS
    <3>5. c[1] = d[1] /\ c[2] = d[2] /\ DocIndex(c) < DocIndex(d)
      BY <1>4, <1>5, <3>1, <3>2, <3>4
    <3>6. Before(c, d)
      BY <3>5 DEF Before
    <3>7. QED
      BY <3>3, <3>4, <3>6, Zenon
  <2>5. QED
    BY <2>2, <2>3, <2>4
<1>11. UpTo(all, s, k, high)
  <2>1. SUFFICES ASSUME m + n > 0 PROVE Behind(all[m + n], s, k, high)
    BY <1>7 DEF UpTo
  <2>2. \A c : Behind(c, s, k, high) <=> \/ c[1] < s
                                         \/ c[1] = s /\ c[2] < k
                                         \/ c[1] = s /\ c[2] = k /\ DocIndex(c) < y
    BY <1>1, <1>3 DEF Behind
  <2>3. CASE n > 0
    <3>1. n \in 1 .. n
      BY <2>3
    <3>2. PICK c : c = new[n] /\ c = all[m + n]
      BY <1>7, <3>1
    <3>3. c[1] = s /\ c[2] = k /\ DocIndex(c) \in x .. y - 1
      BY <1>4, <1>5, <3>1, <3>2
    <3>4. DocIndex(c) < y
      BY <3>3
    <3>5. QED
      BY <2>2, <3>2, <3>3, <3>4, Zenon
  <2>4. CASE n = 0
    <3>1. m > 0 /\ m \in 1 .. m /\ m + n = m
      BY <2>1, <2>4
    <3>2. PICK c \in Column : c = found[m] /\ c = all[m + n]
      BY <1>7, <1>9, <3>1
    <3>3. \/ c[1] < s
          \/ c[1] = s /\ c[2] < k
          \/ c[1] = s /\ c[2] = k /\ DocIndex(c) < x
      BY <1>8, <1>9, <3>1, <3>2, Zenon
    <3>4. DocIndex(c) \in Nat
      BY ColumnType
    <3>5. DocIndex(c) < x => DocIndex(c) < y
      BY <1>3, <3>4
    <3>6. QED
      BY <2>2, <3>2, <3>3, <3>5, Zenon
  <2>5. QED
    BY <2>1, <2>3, <2>4
<1>12. QED
  BY <1>6, <1>7, <1>10, <1>11

(* The next slice and the next shard come after all of this one.           *)
LEMMA UpToLater ==
  ASSUME NEW found \in Seq(Column), NEW s \in Nat, NEW k \in Nat, NEW base, UpTo(found, s, k, base),
         NEW s2 \in Nat, NEW k2 \in Nat, NEW base2, s2 > s \/ (s2 = s /\ k2 > k)
  PROVE  UpTo(found, s2, k2, base2)
<1>1. SUFFICES ASSUME found # << >> PROVE Behind(found[Len(found)], s2, k2, base2)
  BY DEF UpTo
<1>2. PICK c \in Column : c = found[Len(found)]
  BY <1>1
<1>3. c[1] \in Nat /\ c[2] \in Nat
  BY ColumnType
<1>4. c[1] < s \/ (c[1] = s /\ c[2] < k) \/ (c[1] = s /\ c[2] = k)
  <2>1. Behind(c, s, k, base)
    BY <1>1, <1>2, Zenon DEF UpTo
  <2>2. QED
    BY <2>1 DEF Behind
<1>5. c[1] < s2 \/ (c[1] = s2 /\ c[2] < k2)
  BY <1>3, <1>4
<1>6. QED
  BY <1>2, <1>5, Zenon DEF Behind

(* The inductive invariant of the results: they ascend, and lie behind the *)
(* iteration that is being matched; what it has reported so far is in it.  *)
OrderInv ==
  /\ results \in Seq(Column) /\ Ascending(results)
  /\ pc = "idle" => results = << >> /\ m_dedupe = {}
  /\ pc = "run" =>
       /\ m_dedupe \in SUBSET ((0 .. TwoTo[plan.initialRank] - 1) \X Bit)
       /\ UpTo(results, shard, slice, Base)

LEMMA OrderInit ==
  ASSUME Init
  PROVE  OrderInv
<1>1. results = << >> /\ m_dedupe = {} /\ pc = "idle"
  BY DEF Init
<1>2. results \in Seq(Column) /\ Len(results) = 0
  BY <1>1, EmptySeq
<1>3. Ascending(results)
  BY <1>2 DEF Ascending
<1>4. QED
  BY <1>1, <1>2, <1>3 DEF OrderInv

(* A step within an iteration.                                             *)
LEMMA OrderKept ==
  ASSUME OrderInv, NEW opcodes, Step(opcodes),
         m_dedupe' = m_dedupe
           \/ m_dedupe' \in SUBSET ((0 .. TwoTo[plan.initialRank] - 1) \X Bit)
  PROVE  OrderInv'
<1>1. /\ pc = "run" /\ pc' = "run" /\ plan' = plan /\ results' = results
      /\ shard' = shard /\ slice' = slice /\ iteration' = iteration
  BY DEF Step, Others, position
<1>2. /\ results \in Seq(Column) /\ Ascending(results)
      /\ m_dedupe \in SUBSET ((0 .. TwoTo[plan.initialRank] - 1) \X Bit)
      /\ UpTo(results, shard, slice, Base)
  BY <1>1, Zenon DEF OrderInv
<1>3. Base' = Base
  BY <1>1, Zenon DEF Base
<1>4. m_dedupe' \in SUBSET ((0 .. TwoTo[plan'.initialRank] - 1) \X Bit)
  BY <1>1, <1>2, Zenon
<1>5. Ascending(results') /\ UpTo(results', shard', slice', Base')
  BY <1>1, <1>2, <1>3, Zenon
<1>6. pc' # "idle"
  BY <1>1
<1>7. QED
  BY <1>1, <1>2, <1>4, <1>5, <1>6, Zenon DEF OrderInv

LEMMA OrderReport ==
  ASSUME OrderInv, MachineInv, MachineSound, AddResult
  PROVE  OrderInv'
<1>1. pc = "run" /\ instruction.opcode = "Report" /\ Step({"Report"})
      /\ m_dedupe' = m_dedupe \cup {<<offset - Base, b>> : b \in accumulator}
  BY DEF AddResult, Step
<1>2. offset - Base \in 0 .. TwoTo[plan.initialRank] - 1
  BY <1>1 DEF MachineSound
<1>3. accumulator \in SUBSET Bit
  BY DEF MachineInv
<1>4. m_dedupe \in SUBSET ((0 .. TwoTo[plan.initialRank] - 1) \X Bit)
  BY <1>1 DEF OrderInv
<1>5. PICK x, N : x = offset - Base /\ N = TwoTo[plan.initialRank] - 1
  OBVIOUS
<1>6. m_dedupe' \in SUBSET ((0 .. N) \X Bit)
  <2>1. {<<x, b>> : b \in accumulator} \in SUBSET ((0 .. N) \X Bit)
    BY <1>2, <1>3, <1>5
  <2>2. QED
    BY <1>1, <1>4, <1>5, <2>1
<1>7. QED
  BY <1>1, <1>5, <1>6, OrderKept, Zenon

LEMMA OrderBegin ==
  ASSUME OrderInv, Begin
  PROVE  OrderInv'
<1>1. /\ results = << >> /\ results' = << >> /\ m_dedupe' = {} /\ pc' = "run"
  BY DEF OrderInv, Begin
<1>2. results' \in Seq(Column) /\ Len(results') = 0
  BY <1>1, EmptySeq
<1>3. Ascending(results')
  BY <1>2 DEF Ascending
<1>4. UpTo(results', shard', slice', Base')
  BY <1>1, Zenon DEF UpTo
<1>5. QED
  BY <1>1, <1>2, <1>3, <1>4 DEF OrderInv

(* The quadwords of an iteration lie in the row.                           *)
LEMMA IterationInRow ==
  ASSUME NEW R \in Rank, NEW i \in 0 .. QuadwordsPerRow \div TwoTo[R] - 1
  PROVE  /\ TwoTo[R] \in Nat \ {0} /\ i \in Nat
         /\ i * TwoTo[R] \in Nat /\ i * TwoTo[R] + TwoTo[R] <= QuadwordsPerRow
         /\ (i + 1) * TwoTo[R] = i * TwoTo[R] + TwoTo[R]
<1>1. PICK N \in Nat \ {0} : N = TwoTo[R]
  BY Ranks, TwoToType
<1>2. PICK x \in Nat \ {0} : QuadwordsPerRow = x * N /\ QuadwordsPerRow \div TwoTo[R] = x
  BY <1>1, Splits
<1>3. i \in Nat /\ i + 1 \in Nat /\ i + 1 <= x
  BY <1>2
<1>4. i * N \in Nat /\ (i + 1) * N = i * N + N
  BY <1>3, Products
<1>5. (i + 1) * N <= x * N
  BY <1>3, Monotone
<1>6. PICK y, z : y \in Nat /\ y = i * N /\ z = (i + 1) * N
  BY <1>4
<1>7. z = y + N /\ z <= QuadwordsPerRow
  BY <1>2, <1>4, <1>5, <1>6
<1>8. QED
  BY <1>1, <1>3, <1>6, <1>7

LEMMA OrderFinish ==
  ASSUME OrderInv, MachineInv, FinishIteration
  PROVE  OrderInv'
<1>1. /\ pc = "run" /\ results' = results \o Columns(m_dedupe, Base) /\ m_dedupe' = {}
      /\ plan' = plan
  BY DEF FinishIteration, Others
<1>2. query \in DOMAIN Plans /\ plan = Plans[query] /\ Located(query, shard, slice, iteration)
  BY <1>1, Zenon DEF MachineInv
<1>3. PICK R \in Rank : R = plan.initialRank
  BY <1>2, PlansAssumption
<1>4. /\ shard \in Shard /\ slice \in Slices(shard)
      /\ iteration \in 0 .. QuadwordsPerRow \div TwoTo[R] - 1
  BY <1>2, <1>3 DEF Located
<1>5. PICK N \in Nat \ {0}, base \in Nat :
        /\ N = TwoTo[R] /\ base = iteration * N /\ base + N <= QuadwordsPerRow
        /\ (iteration + 1) * N = base + N
  BY <1>4, IterationInRow
<1>6. Base = base
  BY <1>3, <1>5, Zenon DEF Base
<1>7. shard \in Nat /\ slice \in Nat
  BY <1>4 DEF Shard, Slices
<1>8. /\ results \in Seq(Column) /\ Ascending(results)
      /\ m_dedupe \in SUBSET ((0 .. N - 1) \X Bit)
      /\ UpTo(results, shard, slice, base)
  BY <1>1, <1>3, <1>5, <1>6, Zenon DEF OrderInv
<1>9. PICK new : new = Columns(m_dedupe, base)
  OBVIOUS
<1>10. Added(new, shard, slice, base, base + N)
  BY <1>4, <1>5, <1>8, <1>9, ColumnsAscend, Zenon
<1>11. base + N \in Nat /\ base <= base + N
  OBVIOUS
<1>12. PICK found : found = results \o new
  OBVIOUS
<1>13. found \in Seq(Column) /\ Ascending(found) /\ UpTo(found, shard, slice, base + N)
  BY <1>7, <1>8, <1>10, <1>11, <1>12, Concatenated, Zenon
<1>14. results' = found
  BY <1>1, <1>6, <1>9, <1>12, Zenon
<1>15. m_dedupe' \in SUBSET ((0 .. TwoTo[plan'.initialRank] - 1) \X Bit)
  BY <1>1
<1>16. iteration + 1 < Iterations \/ iteration + 1 >= Iterations
  <2>1. Iterations = QuadwordsPerRow \div N
    BY <1>3, <1>5, Zenon DEF Iterations
  <2>2. QuadwordsPerRow \div N \in Nat /\ iteration \in Nat
    BY <1>4, Ranks
  <2>3. QED
    BY <2>1, <2>2
<1>17. ASSUME pc' = "run" PROVE UpTo(results', shard', slice', Base')
  <2>1. CASE StartIteration(shard, slice, iteration + 1)
    <3>1. shard' = shard /\ slice' = slice /\ iteration' = iteration + 1
      BY <2>1 DEF StartIteration
    <3>2. Base' = base + N
      BY <1>1, <1>3, <1>5, <3>1, Zenon DEF Base
    <3>3. QED
      BY <1>13, <1>14, <3>1, <3>2, Zenon
  <2>2. CASE StartIteration(shard, slice + 1, 0)
    <3>1. shard' = shard /\ slice' = slice + 1
      BY <2>2 DEF StartIteration
    <3>2. slice + 1 \in Nat /\ slice + 1 > slice
      BY <1>7
    <3>3. UpTo(found, shard, slice + 1, Base')
      BY <1>7, <1>13, <3>2, UpToLater, Zenon
    <3>4. QED
      BY <1>14, <3>1, <3>3, Zenon
  <2>3. CASE FirstShard(shard) # {} /\ StartIteration(Min(FirstShard(shard)), 1, 0)
    <3>1. PICK t : t = Min(FirstShard(shard))
      OBVIOUS
    <3>2. t \in Nat /\ t > shard
      BY <2>3, <3>1, NextShard DEF Shard
    <3>3. PICK first \in Nat : first = 1
      OBVIOUS
    <3>4. shard' = t /\ slice' = first
      BY <2>3, <3>1, <3>3 DEF StartIteration
    <3>5. UpTo(found, t, first, Base')
      BY <1>7, <1>13, <3>2, UpToLater, Zenon
    <3>6. QED
      BY <1>14, <3>4, <3>5, Zenon
  <2>4. \/ StartIteration(shard, slice, iteration + 1)
        \/ StartIteration(shard, slice + 1, 0)
        \/ FirstShard(shard) # {} /\ StartIteration(Min(FirstShard(shard)), 1, 0)
    <3>1. pc' # "done"
      BY <1>17
    <3>2. QED
      BY <1>16, <3>1, Zenon DEF FinishIteration
  <2>5. QED
    BY <2>1, <2>2, <2>3, <2>4
<1>18. pc' # "idle"
  <2>1. pc' = pc \/ pc' = "done"
    BY <1>16, Zenon DEF FinishIteration
  <2>2. QED
    BY <1>1, <2>1
<1>19. QED
  BY <1>13, <1>14, <1>15, <1>17, <1>18, Zenon DEF OrderInv

LEMMA OrderOthers ==
  ASSUME OrderInv, UNCHANGED engine
  PROVE  OrderInv'
<1>1. /\ plan' = plan /\ pc' = pc /\ shard' = shard /\ slice' = slice /\ iteration' = iteration
      /\ m_dedupe' = m_dedupe /\ results' = results
  BY DEF engine, position, machine
<1>2. Base' = Base
  BY <1>1, Zenon DEF Base
<1>3. Ascending(results') <=> Ascending(results)
  BY <1>1, Zenon
<1>4. UpTo(results', shard', slice', Base') <=> UpTo(results, shard, slice, Base)
  BY <1>1, <1>2, Zenon
<1>5. QED
  BY <1>1, <1>3, <1>4, Zenon DEF OrderInv

LEMMA OrderNext ==
  ASSUME OrderInv, MachineInv, MachineSound, [Next]_vars
  PROVE  OrderInv'
<1>1. CASE Begin
  BY <1>1, OrderBegin
<1>2. CASE ReadRow \/ MoveOffset \/ Push \/ Pop \/ UpdateFlags \/ LogicalNot \/ Jump \/ Return
  <2>1. m_dedupe' = m_dedupe /\ \E opcodes : Step(opcodes)
    BY <1>2, Zenon DEF ReadRow, MoveOffset, Push, Pop, UpdateFlags, LogicalNot, Jump, Return
  <2>2. PICK opcodes : Step(opcodes)
    BY <2>1
  <2>3. QED
    BY <2>1, <2>2, OrderKept, Zenon
<1>3. CASE AddResult
  BY <1>3, OrderReport
<1>4. CASE FinishIteration
  BY <1>4, OrderFinish
<1>5. CASE AddPosting
  BY <1>5, OrderOthers DEF AddPosting, SetBit, Write
<1>6. CASE Activate
  BY <1>6, OrderOthers DEF Activate, Write
<1>7. CASE \E c \in DeletableColumns : Expire(c)
  BY <1>7, OrderOthers DEF Expire, Write
<1>8. CASE UNCHANGED vars
  BY <1>8, OrderOthers DEF vars
<1>9. QED
  BY <1>1, <1>2, <1>3, <1>4, <1>5, <1>6, <1>7, <1>8 DEF Next, Interpret

(* The inductive invariants, together.                                     *)
LEMMA AlwaysInv ==
  ASSUME Fit
  PROVE  Spec => [](MachineInv /\ OrderInv)
<1>1. Init => MachineInv /\ OrderInv
  BY InvInit, OrderInit
<1>2. MachineInv /\ OrderInv /\ [Next]_vars => (MachineInv /\ OrderInv)'
  <2>1. SUFFICES ASSUME MachineInv, OrderInv, [Next]_vars PROVE (MachineInv /\ OrderInv)'
    OBVIOUS
  <2>2. MachineSound
    BY <2>1, InvSound DEF Fit, MachineInv
  <2>3. QED
    BY <2>1, <2>2, InvNext, OrderNext
<1>3. QED
  BY <1>1, <1>2, PTL DEF Spec

(* The generated code keeps the interpreter sound: no row is read beyond   *)
(* its quadwords, no empty stack is popped or returned from, no report     *)
(* lies outside its iteration, and at the end of the code both stacks are  *)
(* empty and the offset is back where it was (ByteCodeInterpreter tests no *)
(* more of this than that a report is one of 64 quadwords).                *)
THEOREM AlwaysSound ==
  ASSUME Fit
  PROVE  Spec => []MachineSound
<1>1. MachineInv => MachineSound
  BY InvSound DEF Fit, MachineInv
<1>2. QED
  BY <1>1, AlwaysInv, PTL

(* The results of a query come shard by shard, slice by slice and document *)
(* by document, and none of them twice, whatever else is ingested or       *)
(* deleted meanwhile and however often an Or reports the same column       *)
(* (ByteCodeInterpreter::AddResult and FinishIteration).                   *)
THEOREM ResultsInOrder ==
  ASSUME Fit
  PROVE  Spec => []OnceInOrder
<1>1. OrderInv => OnceInOrder
  BY Zenon DEF OrderInv, Ascending, OnceInOrder
<1>2. QED
  BY <1>1, AlwaysInv, PTL

(* Every result is a place of the index: its shard has the slice, and the  *)
(* slice has the quadword and the bit (ByteCodeInterpreter::FinishIteration *)
(* makes a handle of it without a test).                                   *)
THEOREM ResultsArePlaces ==
  ASSUME Fit
  PROVE  Spec => [](results \in Seq(Column))
<1>1. OrderInv => results \in Seq(Column)
  BY Zenon DEF OrderInv
<1>2. QED
  BY <1>1, AlwaysInv, PTL
=============================================================================
