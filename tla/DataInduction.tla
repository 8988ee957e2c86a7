---------------------------- MODULE DataInduction ----------------------------
(***************************************************************************)
(* Induction over the data that the passes work on.  A theorem that takes  *)
(* an operator cannot be used by the provers; a module that has one as a   *)
(* constant can be instantiated.  Each theorem here is about a definition  *)
(* of that kind: a recursive function, or the fold of a sequence from the  *)
(* left.  The argument c of an operator is the context: whatever else its  *)
(* definition mentions.  (An instance repeats what the module extends:     *)
(* hence Folds, and Max as FiniteSetsExt defines it, and no more.)         *)
(***************************************************************************)
EXTENDS Integers, Folds, WellFoundedInduction

CONSTANTS
  Def(_, _, _),   \* the value at d of the function f: Def(c, f, d)
  Rank(_, _),     \* the natural number that gets smaller: Rank(c, d)
  Good(_, _, _),  \* what is to hold of the value at d: Good(c, d, value)
  Step(_, _, _),  \* what a fold does with the next element: Step(c, u, x)
  Rel(_, _, _)    \* how it is related to what it had: Rel(c, u, v)

Max(S) == CHOOSE x \in S : \A y \in S : x >= y

Recursive(c, D) == LET f[d \in D] == Def(c, f, d) IN f
Fold(c, base, seq) ==   \* FoldLeft of SequencesExt
  MapThenFoldSet(LAMBDA x, u : Step(c, u, x), base, LAMBDA i : seq[i], LAMBDA S : Max(S),
                 DOMAIN seq)

---------------------------------------------------------------------------
\* A set of numbers that is not empty has a least one.
LEMMA LeastOf ==
  ASSUME NEW T, T \subseteq Nat, T # {}
  PROVE  \E x \in T : \A y \in T : ~(y < x)
<1>1. \E x \in T : \A y \in T : <<y, x>> \notin OpToRel(<, Nat)
  BY NatLessThanWellFounded, WFMin
<1> QED  BY <1>1 DEF OpToRel

\* A set of numbers with 0 in it, and the next of each of its members below
\* n, has all the numbers up to n.
LEMMA UpTo ==
  ASSUME NEW n \in Nat, NEW S, 0 \in S, \A i \in 0 .. n - 1 : i \in S => i + 1 \in S
  PROVE  \A i \in 0 .. n : i \in S
<1> DEFINE Left == {i \in 0 .. n : i \notin S}
<1>1. SUFFICES ASSUME Left # {} PROVE FALSE  OBVIOUS
<1>2. Left \subseteq Nat  OBVIOUS
<1>3. PICK i \in Left : \A j \in Left : ~(j < i)
  <2> HIDE DEF Left
  <2> QED  BY <1>1, <1>2, LeastOf
<1>4. i \in 0 .. n /\ i \notin S /\ i # 0  OBVIOUS
<1>5. i - 1 \in 0 .. n - 1 /\ i - 1 < i  BY <1>4
<1>6. i - 1 \in S  BY <1>3, <1>4, <1>5
<1>7. (i - 1) + 1 = i  BY <1>4
<1> QED  BY <1>4, <1>5, <1>6, <1>7

\* The value of a recursive function at an argument depends on its values at
\* arguments of lower rank only.
Ranked(c, D, N) ==
  /\ \A d \in D : Rank(c, d) \in 0 .. N
  /\ \A f, g : \A d \in D :
       (\A b \in D : Rank(c, b) < Rank(c, d) => f[b] = g[b]) => Def(c, f, d) = Def(c, g, d)

\* Then there is such a function: it satisfies its definition.
THEOREM RecursionHolds ==
  ASSUME NEW c, NEW D, NEW N \in Nat, Ranked(c, D, N)
  PROVE  /\ DOMAIN Recursive(c, D) = D
         /\ \A d \in D : Recursive(c, D)[d] = Def(c, Recursive(c, D), d)
<1> DEFINE Upto(f, n) == \A d \in D : Rank(c, d) < n => f[d] = Def(c, f, d)
           S == {n \in 0 .. N + 1 : \E f : Upto(f, n)}
<1>1. 0 \in S
  <2>1. Upto(<<>>, 0)  BY DEF Ranked
  <2> QED  BY <2>1
<1>2. ASSUME NEW n \in 0 .. N + 1 - 1, n \in S  PROVE n + 1 \in S
  <2>1. PICK f : Upto(f, n)  BY <1>2
  <2> DEFINE g == [d \in D |-> Def(c, f, d)]
  <2>2. ASSUME NEW d \in D, Rank(c, d) < n + 1  PROVE g[d] = Def(c, g, d)
    <3>1. \A b \in D : Rank(c, b) < Rank(c, d) => g[b] = f[b]
      BY <2>1, <2>2 DEF Ranked
    <3> HIDE DEF g
    <3>2. Def(c, g, d) = Def(c, f, d)
      BY <3>1 DEF Ranked
    <3> QED  BY <3>2 DEF g
  <2>3. Upto(g, n + 1)  BY <2>2
  <2> HIDE DEF g, Upto
  <2> QED  BY <2>3
<1>3. N + 1 \in S
  <2> HIDE DEF S
  <2>1. N + 1 \in Nat  OBVIOUS
  <2> QED  BY <1>1, <1>2, <2>1, UpTo
<1>4. PICK f : Upto(f, N + 1)  BY <1>3
<1> DEFINE g == [d \in D |-> Def(c, f, d)]
<1>5. \A d \in D : g[d] = f[d]  BY <1>4 DEF Ranked
<1>6. \A d \in D : Def(c, f, d) = Def(c, g, d)
  <2> HIDE DEF g
  <2> QED  BY <1>5 DEF Ranked
<1>7. g = [d \in D |-> Def(c, g, d)]
  <2>1. DOMAIN g = D /\ \A d \in D : g[d] = Def(c, g, d)  BY <1>6
  <2> QED  BY <2>1
<1>8. \E h : h = [d \in D |-> Def(c, h, d)]
  <2> HIDE DEF g
  <2> QED  BY <1>7
<1>9. Recursive(c, D) = [d \in D |-> Def(c, Recursive(c, D), d)]
  BY <1>8 DEF Recursive
<1> HIDE DEF g, Upto, S
<1> DEFINE R == Recursive(c, D)
<1>10. R = [d \in D |-> Def(c, R, d)]
  BY <1>9
<1> HIDE DEF R
<1>11. DOMAIN R = D /\ \A d \in D : R[d] = Def(c, R, d)
  BY <1>10
<1> QED  BY <1>11 DEF R

\* What holds of a value if it holds of those it depends on holds of all.
THEOREM RecursionKeeps ==
  ASSUME NEW c, NEW D, NEW N \in Nat, Ranked(c, D, N),
         \A f : \A d \in D : (\A b \in D : Rank(c, b) < Rank(c, d) => Good(c, b, f[b]))
                             => Good(c, d, Def(c, f, d))
  PROVE  \A d \in D : Good(c, d, Recursive(c, D)[d])
<1> DEFINE R == Recursive(c, D)
           S == {n \in 0 .. N + 1 : \A d \in D : Rank(c, d) < n => Good(c, d, R[d])}
<1>1. \A d \in D : R[d] = Def(c, R, d)  BY RecursionHolds
<1> HIDE DEF R
<1>2. 0 \in S  BY DEF Ranked
<1>3. ASSUME NEW n \in 0 .. N + 1 - 1, n \in S  PROVE n + 1 \in S
  <2>1. ASSUME NEW d \in D, Rank(c, d) < n + 1  PROVE Good(c, d, R[d])
    <3>1. \A b \in D : Rank(c, b) < Rank(c, d) => Good(c, b, R[b])
      BY <1>3, <2>1 DEF Ranked
    <3>2. Good(c, d, Def(c, R, d))  BY <3>1
    <3> QED  BY <1>1, <3>2
  <2> QED  BY <2>1
<1>4. N + 1 \in S
  <2> HIDE DEF S
  <2>1. N + 1 \in Nat  OBVIOUS
  <2> QED  BY <1>2, <1>3, <2>1, UpTo
<1> QED  BY <1>4 DEF Ranked, R
---------------------------------------------------------------------------
\* The largest of the numbers from 1 on.
LEMMA MaxIs ==
  ASSUME NEW n \in Nat, NEW s, s \subseteq 1 .. n, n \in s
  PROVE  Max(s) = n
<1>1. \E x \in s : \A y \in s : x >= y  OBVIOUS
<1>2. Max(s) \in s /\ \A y \in s : Max(s) >= y  BY <1>1 DEF Max
<1>3. Max(s) \in 1 .. n /\ Max(s) >= n  BY <1>2
<1> QED  BY <1>3

StepByStep(c, base, seq, n, t) ==
  /\ t[0] = base /\ t[n] = Fold(c, base, seq)
  /\ \A k \in 1 .. n : t[k] = Step(c, t[k - 1], seq[k])

\* A fold goes through the sequence: what it has after each element is one
\* step from what it had before.
THEOREM FoldRuns ==
  ASSUME NEW c, NEW base, NEW seq, NEW n \in Nat, DOMAIN seq = 1 .. n
  PROVE  \E t : StepByStep(c, base, seq, n, t)
<1> DEFINE Val(f, s) == IF s = {} THEN base ELSE Step(c, f[s \ {Max(s)}], seq[Max(s)])
           Iter(f, k) == f = [s \in SUBSET (1 .. k) |-> Val(f, s)]
           S == {k \in 0 .. n : \E f : Iter(f, k)}
<1>1. 0 \in S
  <2> DEFINE f == [s \in SUBSET (1 .. 0) |-> base]
  <2>1. Iter(f, 0)  OBVIOUS
  <2> HIDE DEF f, Iter
  <2> QED  BY <2>1
<1>2. ASSUME NEW k \in 0 .. n - 1, k \in S  PROVE k + 1 \in S
  <2>1. PICK f : Iter(f, k)  BY <1>2
  <2>2. k \in Nat /\ k + 1 \in Nat  OBVIOUS
  <2> DEFINE g == [s \in SUBSET (1 .. k + 1) |->
                     IF s \in SUBSET (1 .. k) THEN f[s]
                     ELSE Step(c, f[s \ {k + 1}], seq[k + 1])]
  <2>3. ASSUME NEW s \in SUBSET (1 .. k + 1)  PROVE g[s] = Val(g, s)
    <3>1. CASE s \in SUBSET (1 .. k) /\ s # {}
      <4>1. s \ {Max(s)} \in SUBSET (1 .. k) /\ s \ {Max(s)} \in SUBSET (1 .. k + 1)
        BY <3>1, <2>2
      <4>2. g[s \ {Max(s)}] = f[s \ {Max(s)}]  BY <4>1
      <4>3. f[s] = Val(f, s)  BY <2>1, <3>1
      <4> QED  BY <3>1, <4>2, <4>3
    <3>2. CASE s = {}
      <4>1. f[s] = base  BY <2>1, <3>2
      <4> QED  BY <3>2, <4>1
    <3>3. CASE s \notin SUBSET (1 .. k)
      <4>1. k + 1 \in s  BY <3>3, <2>2
      <4>2. Max(s) = k + 1  BY <4>1, <2>2, MaxIs
      <4>3. s \ {k + 1} \in SUBSET (1 .. k) /\ s \ {k + 1} \in SUBSET (1 .. k + 1)  BY <2>2
      <4>4. g[s \ {k + 1}] = f[s \ {k + 1}]  BY <4>3
      <4> QED  BY <3>3, <4>1, <4>2, <4>4
    <3> QED  BY <3>1, <3>2, <3>3
  <2>4. Iter(g, k + 1)
    <3>1. g = [s \in SUBSET (1 .. k + 1) |-> g[s]]  OBVIOUS
    <3> HIDE DEF g, Val
    <3> QED  BY <2>3, <3>1
  <2> HIDE DEF Iter, g
  <2> QED  BY <2>4
<1>3. \A k \in 0 .. n : k \in S
  <2> HIDE DEF S
  <2> QED  BY <1>1, <1>2, UpTo
<1>4. \E f : Iter(f, n)
  <2>1. n \in S
    <3> HIDE DEF S
    <3> QED  BY <1>3
  <2> HIDE DEF Iter
  <2> QED  BY <2>1
<1> DEFINE F == CHOOSE f : Iter(f, n)
<1>5. F = [s \in SUBSET (1 .. n) |-> Val(F, s)]  BY <1>4
<1>6. Fold(c, base, seq) = F[1 .. n]
  BY DEF Fold, MapThenFoldSet
<1> HIDE DEF F
<1> DEFINE t == [k \in 0 .. n |-> F[1 .. k]]
<1>7. t[0] = base
  <2>1. F[{}] = base  BY <1>5
  <2>2. 1 .. 0 = {}  OBVIOUS
  <2> QED  BY <2>1, <2>2
<1>8. t[n] = Fold(c, base, seq)  BY <1>6
<1>9. ASSUME NEW k \in 1 .. n  PROVE t[k] = Step(c, t[k - 1], seq[k])
  <2>1. Max(1 .. k) = k  BY MaxIs
  <2>2. (1 .. k) \ {k} = 1 .. k - 1
    <3>1. k \in Nat  OBVIOUS
    <3>2. \A x : x \in (1 .. k) \ {k} <=> x \in 1 .. k - 1  BY <3>1
    <3> QED  BY <3>2
  <2>3. 1 .. k \in SUBSET (1 .. n) /\ 1 .. k # {}
    <3>1. k \in 1 .. k  OBVIOUS
    <3>2. \A x \in 1 .. k : x \in 1 .. n  OBVIOUS
    <3> QED  BY <3>1, <3>2
  <2>4. F[1 .. k] = Val(F, 1 .. k)  BY <1>5, <2>3
  <2>5. F[1 .. k] = Step(c, F[1 .. k - 1], seq[k])  BY <2>1, <2>2, <2>3, <2>4
  <2>6. t[k] = F[1 .. k] /\ t[k - 1] = F[1 .. k - 1]  OBVIOUS
  <2> QED  BY <2>5, <2>6
<1> HIDE DEF t
<1> QED  BY <1>7, <1>8, <1>9 DEF StepByStep

\* A relation that each step establishes, and that is reflexive and
\* transitive, holds between what the fold starts from and its result; and
\* every element has been a step on the way.
Related(c, base, seq) ==
  /\ \A u : Rel(c, u, u)
  /\ \A u, v, x : Rel(c, u, v) /\ Rel(c, v, x) => Rel(c, u, x)
  /\ \A u : \A i \in DOMAIN seq : Rel(c, base, u) => Rel(c, u, Step(c, u, seq[i]))

THEOREM FoldKeeps ==
  ASSUME NEW c, NEW base, NEW seq, NEW n \in Nat, DOMAIN seq = 1 .. n, Related(c, base, seq)
  PROVE  /\ Rel(c, base, Fold(c, base, seq))
         /\ \A i \in DOMAIN seq :
              \E u : Rel(c, base, u) /\ Rel(c, Step(c, u, seq[i]), Fold(c, base, seq))
<1>1. PICK t : StepByStep(c, base, seq, n, t)  BY FoldRuns
<1> USE DEF StepByStep
<1> DEFINE S == {k \in 0 .. n : Rel(c, base, t[k])}
<1>2. \A k \in 0 .. n : Rel(c, base, t[k])
  <2>1. 0 \in S  BY <1>1 DEF Related
  <2>2. ASSUME NEW k \in 0 .. n - 1, k \in S  PROVE k + 1 \in S
    <3>1. k + 1 \in 1 .. n /\ (k + 1) - 1 = k  OBVIOUS
    <3>2. t[k + 1] = Step(c, t[k], seq[k + 1])  BY <1>1, <3>1
    <3>3. Rel(c, base, t[k])  BY <2>2
    <3>4. Rel(c, t[k], t[k + 1])  BY <3>1, <3>2, <3>3 DEF Related
    <3>5. Rel(c, base, t[k + 1])  BY <3>3, <3>4 DEF Related
    <3> QED  BY <3>1, <3>5
  <2>3. \A k \in 0 .. n : k \in S
    <3> HIDE DEF S
    <3> QED  BY <2>1, <2>2, UpTo
  <2> QED  BY <2>3
<1>3. ASSUME NEW i \in 1 .. n  PROVE Rel(c, t[i], t[n])
  <2> DEFINE T == {k \in 0 .. n - i : Rel(c, t[i], t[i + k])}
  <2>1. 0 \in T
    <3>1. i + 0 = i  OBVIOUS
    <3> QED  BY <3>1 DEF Related
  <2>2. ASSUME NEW k \in 0 .. (n - i) - 1, k \in T  PROVE k + 1 \in T
    <3>1. i + (k + 1) \in 1 .. n /\ (i + (k + 1)) - 1 = i + k /\ i + k \in 0 .. n  OBVIOUS
    <3>2. t[i + (k + 1)] = Step(c, t[i + k], seq[i + (k + 1)])  BY <1>1, <3>1
    <3>3. Rel(c, t[i], t[i + k])  BY <2>2
    <3>4. Rel(c, t[i + k], t[i + (k + 1)])  BY <1>2, <3>1, <3>2 DEF Related
    <3>5. Rel(c, t[i], t[i + (k + 1)])  BY <3>3, <3>4 DEF Related
    <3> QED  BY <3>5
  <2>3. \A k \in 0 .. n - i : k \in T
    <3>1. n - i \in Nat  OBVIOUS
    <3> HIDE DEF T
    <3> QED  BY <2>1, <2>2, <3>1, UpTo
  <2>4. n - i \in T /\ i + (n - i) = n  BY <2>3
  <2> QED  BY <2>4
<1>4. Rel(c, base, Fold(c, base, seq))  BY <1>1, <1>2
<1>5. ASSUME NEW i \in DOMAIN seq
      PROVE  \E u : Rel(c, base, u) /\ Rel(c, Step(c, u, seq[i]), Fold(c, base, seq))
  <2>1. Rel(c, base, t[i - 1]) /\ t[i] = Step(c, t[i - 1], seq[i])  BY <1>1, <1>2
  <2>2. Rel(c, t[i], Fold(c, base, seq))  BY <1>1, <1>3
  <2> QED  BY <2>1, <2>2
<1> QED  BY <1>4, <1>5

=============================================================================
