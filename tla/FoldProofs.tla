----------------------------- MODULE FoldProofs -----------------------------
(***************************************************************************)
(* What a loop over a finite set computes.  The models write the loops of  *)
(* the program over tables whose order does not matter as FoldSet; the     *)
(* definition of FoldSet is recursive, and the facts below say that it     *)
(* means what it should: there is a function that satisfies the recursion, *)
(* and what one round of the loop preserves holds at its end.              *)
(*                                                                         *)
(* The body of the loop is a function op on pairs of an element and the    *)
(* state so far, and a property of the rounds is the set of those          *)
(* subsets, handled so far, for which it holds.                            *)
(*                                                                         *)
(* The loops whose order matters count their rounds: they are functions    *)
(* that are recursive over an interval, and the last facts say the same of *)
(* these.                                                                  *)
(***************************************************************************)
EXTENDS Integers, FiniteSets, FiniteSetsExt, FiniteSetTheorems, WellFoundedInduction, TLAPS

\* The element that FoldSet takes from a set
Pick(s) == CHOOSE x \in s : TRUE

\* f gives the state after handling the elements of each subset of S.
Folds(f, S, W, op, base) ==
    /\ f \in [SUBSET S -> W]
    /\ f[{}] = base
    /\ \A s \in SUBSET S : s # {} => f[s] = op[<<Pick(s), f[s \ {Pick(s)}]>>]

\* A set of subsets of a finite set has a smallest one.
LEMMA SmallestSubset ==
    ASSUME NEW S, IsFiniteSet(S), NEW T \in SUBSET (SUBSET S), T # {}
    PROVE  \E m \in T : \A t \in T : t \subseteq m => t = m
<1>1. T \subseteq FiniteSubsetsOf(S)
  BY FS_Subset DEF FiniteSubsetsOf
<1>2. PICK m \in T : \A t \in T : <<t, m>> \notin StrictSubsetOrdering(S)
  BY <1>1, FS_StrictSubsetOrderingWellFounded, WFMin
<1>3. \A t \in T : t \subseteq m => t = m
  BY <1>2 DEF StrictSubsetOrdering
<1> QED  BY <1>3

\* What holds at the start and is kept by every round holds at the end.
LEMMA FoldInduction ==
    ASSUME NEW S, IsFiniteSet(S), NEW Q, {} \in Q,
           \A s \in SUBSET S : s # {} /\ s \ {Pick(s)} \in Q => s \in Q
    PROVE  S \in Q
<1> DEFINE T == {s \in SUBSET S : s \notin Q}
<1> SUFFICES ASSUME T # {}
             PROVE  FALSE
  OBVIOUS
<1>1. PICK m \in T : \A t \in T : t \subseteq m => t = m
  <2>1. T \in SUBSET (SUBSET S)
    OBVIOUS
  <2> HIDE DEF T
  <2> QED  BY <2>1, SmallestSubset
<1>2. m # {} /\ m \in SUBSET S
  BY <1>1
<1>3. Pick(m) \in m
  BY <1>2 DEF Pick
<1>4. m \ {Pick(m)} \notin T
  BY <1>1, <1>3
<1> QED  BY <1>1, <1>2, <1>4

\* Two functions that fold the same loop agree where both are defined.
LEMMA FoldUnique ==
    ASSUME NEW S, IsFiniteSet(S), NEW W, NEW op, NEW base,
           NEW A \in SUBSET S, NEW B \in SUBSET S, NEW f, NEW g,
           Folds(f, A, W, op, base), Folds(g, B, W, op, base),
           NEW C \in SUBSET (A \cap B)
    PROVE  f[C] = g[C]
<1> DEFINE Q == {s \in SUBSET C : f[s] = g[s]}
<1>1. IsFiniteSet(C)
  <2>1. C \in SUBSET S
    OBVIOUS
  <2> QED  BY <2>1, FS_Subset
<1>2. {} \in Q
  BY DEF Folds
<1>3. ASSUME NEW s \in SUBSET C, s # {}, s \ {Pick(s)} \in Q
      PROVE  s \in Q
  <2>1. s \in SUBSET A /\ s \in SUBSET B
    OBVIOUS
  <2>2. f[s] = op[<<Pick(s), f[s \ {Pick(s)}]>>] /\ g[s] = op[<<Pick(s), g[s \ {Pick(s)}]>>]
    BY <1>3, <2>1 DEF Folds
  <2> QED  BY <1>3, <2>2
<1>4. C \in Q
  <2> HIDE DEF Q
  <2> QED  BY <1>1, <1>2, <1>3, FoldInduction
<1> QED  BY <1>4

\* The recursion of FoldSet has a solution: every loop over a finite set ends
\* with some state.
LEMMA FoldExists ==
    ASSUME NEW S, IsFiniteSet(S), NEW W, NEW op \in [S \X W -> W], NEW base \in W
    PROVE  \E f : Folds(f, S, W, op, base)
<1> DEFINE P(s) == \E f : Folds(f, s, W, op, base)
<1> DEFINE T == {s \in SUBSET S : ~P(s)}
<1> SUFFICES ASSUME T # {}
             PROVE  FALSE
  BY DEF T
<1>1. PICK m \in T : \A t \in T : t \subseteq m => t = m
  <2>1. T \in SUBSET (SUBSET S)
    BY DEF T
  <2> HIDE DEF T
  <2> QED  BY <2>1, SmallestSubset
<1>2. m \in SUBSET S /\ ~P(m) /\ \A t \in SUBSET m : t # m => P(t)
  BY <1>1 DEF T
<1> DEFINE F(t) == CHOOSE f : Folds(f, t, W, op, base)
<1> DEFINE g == [t \in SUBSET m |-> IF t = {} THEN base
                                    ELSE IF t = m THEN op[<<Pick(m), F(m \ {Pick(m)})[m \ {Pick(m)}]>>]
                                    ELSE F(t)[t]]
<1>3. \A t \in SUBSET m : t # m => Folds(F(t), t, W, op, base)
  BY <1>2
<1>4. \A t \in SUBSET m : t # {} => Pick(t) \in t
  BY DEF Pick
<1>5. \A t \in SUBSET m : t # m => F(t) \in [SUBSET t -> W] /\ F(t)[t] \in W /\ F(t)[{}] = base
  <2> HIDE DEF F
  <2> QED  BY <1>3 DEF Folds
<1>6. g \in [SUBSET m -> W]
  <2> SUFFICES ASSUME NEW t \in SUBSET m
               PROVE  g[t] \in W
    OBVIOUS
  <2> HIDE DEF F
  <2>1. CASE t = {}
    BY <2>1
  <2>2. CASE t # {} /\ t = m
    <3>1. m \ {Pick(m)} \in SUBSET m /\ m \ {Pick(m)} # m /\ Pick(m) \in S
      BY <1>2, <1>4, <2>2
    <3>2. F(m \ {Pick(m)})[m \ {Pick(m)}] \in W
      BY <1>5, <3>1
    <3>3. <<Pick(m), F(m \ {Pick(m)})[m \ {Pick(m)}]>> \in S \X W
      BY <3>1, <3>2
    <3> QED  BY <2>2, <3>3
  <2>3. CASE t # {} /\ t # m
    BY <1>5, <2>3
  <2> QED  BY <2>1, <2>2, <2>3
<1>7. \A t \in SUBSET m : t # m => g[t] = F(t)[t]
  <2> HIDE DEF F
  <2> QED  BY <1>5
<1>8. ASSUME NEW s \in SUBSET m, s # {}
      PROVE  g[s] = op[<<Pick(s), g[s \ {Pick(s)}]>>]
  <2> DEFINE r == s \ {Pick(s)}
  <2>1. r \in SUBSET m /\ r # m /\ r \in SUBSET s
    BY <1>4, <1>8
  <2>2. g[r] = F(r)[r]
    BY <1>7, <2>1
  <2>3. CASE s = m
    <3>1. g[m] = op[<<Pick(m), F(m \ {Pick(m)})[m \ {Pick(m)}]>>]
      <4> HIDE DEF F
      <4> QED  BY <1>8, <2>3
    <3> QED  BY <2>2, <2>3, <3>1
  <2>4. CASE s # m
    <3>1. g[s] = F(s)[s] /\ Folds(F(s), s, W, op, base) /\ Folds(F(r), r, W, op, base)
      BY <1>3, <1>7, <2>1, <2>4
    <3> HIDE DEF g, F, r
    <3>2. r \in SUBSET (s \cap r) /\ s \in SUBSET S /\ r \in SUBSET S
      BY <1>2, <2>1
    <3>3. F(s)[r] = F(r)[r]
      <4>1. \A A, B \in SUBSET S : \A f, h :
                Folds(f, A, W, op, base) /\ Folds(h, B, W, op, base)
                => \A C \in SUBSET (A \cap B) : f[C] = h[C]
        BY FoldUnique
      <4> QED  BY <3>1, <3>2, <4>1
    <3>4. F(s)[s] = op[<<Pick(s), F(s)[s \ {Pick(s)}]>>]
      BY <1>8, <3>1 DEF Folds
    <3> QED  BY <2>2, <3>1, <3>3, <3>4 DEF r
  <2> QED  BY <2>3, <2>4
<1>9. Folds(g, m, W, op, base)
  <2>1. g[{}] = base
    OBVIOUS
  <2> HIDE DEF g
  <2> QED  BY <1>6, <1>8, <2>1 DEF Folds
<1> QED  BY <1>2, <1>9

-----------------------------------------------------------------------------
\* Induction over an interval, for the numbers that a set holds.
LEMMA IntervalInduction ==
    ASSUME NEW a \in Int, NEW b \in Int, NEW Q, a \in Q,
           \A k \in a .. b - 1 : k \in Q => k + 1 \in Q
    PROVE  \A k \in a .. b : k \in Q
<1> DEFINE T == {s \in SUBSET (a .. b) : \E k \in a .. b : k \notin Q /\ s = a .. k}
<1> SUFFICES ASSUME NEW i \in a .. b, i \notin Q
             PROVE  FALSE
  OBVIOUS
<1>1. a .. i \in T
  OBVIOUS
<1>2. PICK m \in T : \A t \in T : t \subseteq m => t = m
  <2>1. T \in SUBSET (SUBSET (a .. b))
    OBVIOUS
  <2>2. IsFiniteSet(a .. b)
    BY FS_Interval
  <2>3. T # {}
    BY <1>1
  <2> HIDE DEF T
  <2>4. PICK S : S = a .. b
    OBVIOUS
  <2>5. IsFiniteSet(S) /\ T \in SUBSET (SUBSET S)
    BY <2>1, <2>2, <2>4
  <2> QED  BY <2>3, <2>5, SmallestSubset
<1>3. PICK k \in a .. b : k \notin Q /\ m = a .. k
  BY <1>2
<1>4. k - 1 \in a .. b - 1 /\ (k - 1) + 1 = k /\ k - 1 \in a .. b
  <2>1. k # a
    BY <1>3
  <2> QED  BY <1>3, <2>1
<1>5. k - 1 \notin Q
  BY <1>3, <1>4
<1>6. a .. (k - 1) \in T
  <2>1. a .. (k - 1) \in SUBSET (a .. b)
    BY <1>4
  <2> QED  BY <1>4, <1>5, <2>1
<1>7. a .. (k - 1) \subseteq m /\ k \in m /\ k \notin a .. (k - 1)
  BY <1>3
<1> HIDE DEF T
<1> QED  BY <1>2, <1>6, <1>7

\* f gives the state after each round of a loop that starts with base.
Rounds(f, a, b, step, base) ==
    f = [k \in a .. b |-> IF k = a THEN base ELSE step[f[k - 1]]]

\* The recursion over the rounds has a solution, with states in W.
LEMMA RoundsExist ==
    ASSUME NEW a \in Int, NEW b \in Int, NEW W, NEW step \in [W -> W], NEW base \in W
    PROVE  \E f \in [a .. b -> W] : Rounds(f, a, b, step, base)
<1> DEFINE P(n) == \E f \in [a .. n -> W] : Rounds(f, a, n, step, base)
<1> DEFINE Q == {n \in Int : P(n)}
<1>1. a \in Q
  <2> DEFINE f == [k \in a .. a |-> base]
  <2>1. \A k \in a .. a : k = a
    OBVIOUS
  <2>2. f \in [a .. a -> W] /\ Rounds(f, a, a, step, base)
    BY <2>1 DEF Rounds
  <2> QED  BY <2>2
<1>2. ASSUME NEW n \in a .. b - 1, n \in Q
      PROVE  n + 1 \in Q
  <2>1. PICK f \in [a .. n -> W] : Rounds(f, a, n, step, base)
    BY <1>2
  <2> DEFINE g == [k \in a .. n + 1 |-> IF k = n + 1 THEN step[f[n]] ELSE f[k]]
  <2>2. n \in a .. n /\ f[n] \in W /\ step[f[n]] \in W
    BY <1>2, <2>1
  <2>3. \A k \in a .. n + 1 : k # n + 1 => k \in a .. n
    BY <1>2
  <2>4. g \in [a .. n + 1 -> W]
    BY <2>2, <2>3
  <2>5. ASSUME NEW k \in a .. n + 1
        PROVE  g[k] = IF k = a THEN base ELSE step[g[k - 1]]
    <3>1. CASE k = n + 1
      <4>1. k - 1 = n /\ n \in a .. n + 1 /\ n # n + 1 /\ k # a
        BY <1>2, <3>1
      <4>2. g[n] = f[n] /\ g[k] = step[f[n]]
        BY <3>1, <4>1
      <4> HIDE DEF g
      <4> QED  BY <4>1, <4>2
    <3>2. CASE k # n + 1
      <4>1. k \in a .. n
        BY <2>3, <3>2
      <4>2. f[k] = IF k = a THEN base ELSE step[f[k - 1]]
        BY <2>1, <4>1 DEF Rounds
      <4>3. k # a => k - 1 \in a .. n + 1 /\ k - 1 # n + 1
        BY <1>2, <4>1
      <4> QED  BY <3>2, <4>2, <4>3
    <3> QED  BY <3>1, <3>2
  <2>6. Rounds(g, a, n + 1, step, base)
    <3> HIDE DEF g
    <3> QED  BY <2>4, <2>5 DEF Rounds
  <2> HIDE DEF g
  <2> QED  BY <1>2, <2>4, <2>6
<1>3. CASE b \in a .. b
  <2>1. b \in Q
    <3> HIDE DEF Q
    <3> QED  BY <1>1, <1>2, <1>3, IntervalInduction
  <2> QED  BY <2>1
<1>4. CASE b \notin a .. b
  <2>1. \A k \in a .. b : FALSE
    BY <1>4
  <2> DEFINE f == [k \in a .. b |-> base]
  <2>2. f \in [a .. b -> W] /\ Rounds(f, a, b, step, base)
    BY <2>1 DEF Rounds
  <2> QED  BY <2>2
<1> QED  BY <1>3, <1>4

\* A set of numbers in an interval has a smallest one.
LEMMA MinOfInterval ==
    ASSUME NEW a \in Int, NEW b \in Int, NEW S \in SUBSET (a .. b), S # {}
    PROVE  Min(S) \in S
<1> DEFINE Q == {k \in Int : \A y \in S : y > k}
<1>1. \E x \in S : \A y \in S : x <= y
  <2> SUFFICES ASSUME \A x \in S : \E y \in S : y < x
               PROVE  FALSE
    OBVIOUS
  <2>1. a \in Q
    <3>1. a \notin S
      OBVIOUS
    <3> QED  BY <3>1
  <2>2. ASSUME NEW k \in a .. b - 1, k \in Q
        PROVE  k + 1 \in Q
    <3>1. \A y \in S : y >= k + 1
      BY <2>2
    <3>2. k + 1 \notin S
      BY <3>1
    <3> QED  BY <3>1, <3>2
  <2>3. \A k \in a .. b : k \in Q
    <3> HIDE DEF Q
    <3> QED  BY <2>1, <2>2, IntervalInduction
  <2>4. PICK x \in S : TRUE
    OBVIOUS
  <2>5. x \in a .. b /\ x \in Q
    BY <2>3, <2>4
  <2> QED  BY <2>4, <2>5
<1> QED  BY <1>1 DEF Min
=============================================================================
