------------------------------ MODULE DataTheorems ------------------------------
(***************************************************************************)
(* What the proofs need of numbers, finite sets and folds.  A property to  *)
(* be proved by induction is stated as the set of the values that have it, *)
(* and a step of a fold as a function, so that every theorem here speaks   *)
(* of values only.                                                         *)
(***************************************************************************)
EXTENDS Integers, FiniteSets, Sequences, TLAPS, FiniteSetTheorems, SequenceTheorems,
        WellFoundedInduction

\* A set of natural numbers that is not empty has a least element.
THEOREM LeastElement ==
  ASSUME NEW S, S \subseteq Nat, S # {}
  PROVE  \E x \in S : \A y \in S : x <= y
<1>1. PICK x \in S : \A y \in S : ~(<<y, x>> \in OpToRel(<, Nat))
  BY NatLessThanWellFounded, WFMin
<1>2. \A y \in S : y < x => <<y, x>> \in OpToRel(<, Nat)
  BY DEF OpToRel
<1>3. ASSUME NEW y \in S PROVE x <= y
  <2>1. ~(y < x) /\ x \in Nat /\ y \in Nat
    BY <1>1, <1>2
  <2>2. QED
    BY <2>1
<1>4. QED
  BY <1>3

\* Induction over natural numbers.
THEOREM CountUp ==
  ASSUME NEW Q, 0 \in Q, \A n \in Nat : n \in Q => n + 1 \in Q
  PROVE  Nat \subseteq Q
<1> SUFFICES ASSUME Nat \ Q # {} PROVE FALSE
  OBVIOUS
<1>1. PICK n \in Nat \ Q : \A m \in Nat \ Q : n <= m
  BY LeastElement
<1>2. n # 0 /\ n - 1 \in Nat /\ (n - 1) + 1 = n /\ ~(n <= n - 1)
  BY <1>1
<1>3. QED
  BY <1>1, <1>2

\* A set of subsets of a finite set has a smallest one.
THEOREM SmallestSubset ==
  ASSUME NEW S, IsFiniteSet(S), NEW F, F \subseteq SUBSET S, F # {}
  PROVE  \E m \in F : \A t \in F : t \subseteq m => t = m
<1>1. IsWellFoundedOn(StrictSubsetOrdering(S), SUBSET S)
  BY FS_StrictSubsetOrderingWellFounded, FS_FiniteSubsetsOfFinite
<1>2. PICK m \in F : \A t \in F : ~(<<t, m>> \in StrictSubsetOrdering(S))
  BY <1>1, WFMin
<1>3. \A t \in F : t \subseteq m /\ t # m => <<t, m>> \in StrictSubsetOrdering(S)
  BY DEF StrictSubsetOrdering
<1>4. \A t \in F : t \subseteq m => t = m
  BY <1>2, <1>3, Zenon
<1>5. QED
  BY <1>4

\* Induction over the subsets of a finite set, each from one with an element less.
THEOREM BuildUp ==
  ASSUME NEW S, IsFiniteSet(S), NEW Q, {} \in Q,
         \A s \in SUBSET S : s # {} => \E x \in s : (s \ {x} \in Q => s \in Q)
  PROVE  SUBSET S \subseteq Q
<1> SUFFICES ASSUME (SUBSET S) \ Q # {} PROVE FALSE
  OBVIOUS
<1>1. PICK m \in (SUBSET S) \ Q : \A t \in (SUBSET S) \ Q : t \subseteq m => t = m
  <2>1. PICK F : F = (SUBSET S) \ Q
    OBVIOUS
  <2>2. F \subseteq SUBSET S /\ F # {}
    BY <2>1
  <2>3. \E m \in F : \A t \in F : t \subseteq m => t = m
    BY <2>2, SmallestSubset
  <2>4. QED
    BY <2>1, <2>3
<1>2. PICK x \in m : (m \ {x} \in Q => m \in Q)
  BY <1>1
<1>3. m \ {x} \in SUBSET S /\ m \ {x} \subseteq m /\ m \ {x} # m
  BY <1>2
<1>4. QED
  BY <1>1, <1>2, <1>3

-----------------------------------------------------------------------------
(***************************************************************************)
(* Folds: MapThenFoldSet takes the chosen element of a set away and goes   *)
(* on with the rest.                                                       *)
(***************************************************************************)

\* g folds the subsets of S: it is base for no element, and else the step of the chosen
\* element on what it is for the others.
Folds(g, S, base, chosen, step) ==
  \A s \in SUBSET S :
    g[s] = IF s = {} THEN base ELSE step[chosen[s]][g[s \ {chosen[s]}]]

Choice(chosen, S) == \A s \in SUBSET S : s # {} => chosen[s] \in s

\* The steps of a fold of S stay in V.
StepsIn(step, S, V) == \A x \in S, v \in V : step[x][v] \in V

Agree(g, h, S) == \A s \in SUBSET S : g[s] = h[s]

\* Two folds agree on the sets that both fold.
THEOREM FoldsAgree ==
  ASSUME NEW S, IsFiniteSet(S), NEW base, NEW chosen, Choice(chosen, S), NEW step,
         NEW g, NEW S1 \in SUBSET S, Folds(g, S1, base, chosen, step),
         NEW h, NEW S2 \in SUBSET S, Folds(h, S2, base, chosen, step)
  PROVE  Agree(g, h, S1 \cap S2)
<1> DEFINE T == S1 \cap S2
           Q == {s \in SUBSET T : g[s] = h[s]}
<1>1. IsFiniteSet(T)
  BY FS_Subset
<1>2. {} \in Q
  BY DEF Folds
<1>3. ASSUME NEW s \in SUBSET T, s # {}
      PROVE  \E x \in s : (s \ {x} \in Q => s \in Q)
  <2>1. chosen[s] \in s
    BY <1>3 DEF Choice
  <2>2. g[s] = step[chosen[s]][g[s \ {chosen[s]}]] /\ h[s] = step[chosen[s]][h[s \ {chosen[s]}]]
    BY <1>3 DEF Folds
  <2>3. QED
    BY <2>1, <2>2
<1> HIDE DEF T, Q
<1>4. SUBSET T \subseteq Q
  BY <1>1, <1>2, <1>3, BuildUp
<1>5. QED
  BY <1>4 DEF T, Q, Agree

\* A fold exists for every finite set.
THEOREM FoldExists ==
  ASSUME NEW S, IsFiniteSet(S), NEW V, NEW base \in V, NEW chosen, Choice(chosen, S),
         NEW step, StepsIn(step, S, V)
  PROVE  \E g \in [SUBSET S -> V] : Folds(g, S, base, chosen, step)
<1> DEFINE Good(g, T) == g \in [SUBSET T -> V] /\ Folds(g, T, base, chosen, step)
           Q == {T \in SUBSET S : \E g : Good(g, T)}
<1> USE DEF StepsIn
<1> SUFFICES S \in Q
  OBVIOUS
<1> SUFFICES ASSUME (SUBSET S) \ Q # {} PROVE FALSE
  OBVIOUS
<1>1. PICK T \in (SUBSET S) \ Q : \A t \in (SUBSET S) \ Q : t \subseteq T => t = T
  <2> HIDE DEF Q
  <2>1. PICK F : F = (SUBSET S) \ Q
    OBVIOUS
  <2>2. F \subseteq SUBSET S /\ F # {}
    BY <2>1
  <2>3. \E m \in F : \A t \in F : t \subseteq m => t = m
    BY <2>2, SmallestSubset
  <2>4. QED
    BY <2>1, <2>3
<1> DEFINE G(s) == CHOOSE g : Good(g, s)
           value(s) == IF s = {} THEN base ELSE step[chosen[s]][G(s \ {chosen[s]})[s \ {chosen[s]}]]
           h == [s \in SUBSET T |-> value(s)]
<1>2. ASSUME NEW s \in SUBSET T, s # T PROVE Good(G(s), s)
  <2>1. s \in Q
    BY <1>1, <1>2
  <2>2. \E g : Good(g, s)
    BY <2>1
  <2> HIDE DEF Good
  <2>3. QED
    BY <2>2
<1>3. ASSUME NEW s \in SUBSET T, s # {}
      PROVE  /\ chosen[s] \in s /\ s \ {chosen[s]} \in SUBSET T /\ s \ {chosen[s]} # T
             /\ Good(G(s \ {chosen[s]}), s \ {chosen[s]})
  <2>1. chosen[s] \in s
    BY <1>1, <1>3 DEF Choice
  <2>2. s \ {chosen[s]} \in SUBSET T /\ s \ {chosen[s]} # T
    BY <2>1
  <2> HIDE DEF Good, G
  <2>3. QED
    BY <1>2, <2>1, <2>2
<1>4. ASSUME NEW s \in SUBSET T PROVE value(s) \in V
  <2>1. CASE s = {}
    BY <2>1
  <2>2. CASE s # {}
    <3> DEFINE r == s \ {chosen[s]}
    <3>1. chosen[s] \in S /\ Good(G(r), r)
      BY <1>1, <1>3, <2>2
    <3>2. G(r)[r] \in V
      <4> HIDE DEF G, r
      <4>1. QED
        BY <3>1
    <3> HIDE DEF G
    <3>3. QED
      BY <2>2, <3>1, <3>2
  <2>3. QED
    BY <2>1, <2>2
<1>5. ASSUME NEW s \in SUBSET T, s # T PROVE value(s) = G(s)[s]
  <2>1. Good(G(s), s)
    BY <1>2, <1>5
  <2>2. CASE s = {}
    <3> HIDE DEF G
    <3>1. QED
      BY <2>1, <2>2 DEF Folds
  <2>3. CASE s # {}
    <3> DEFINE r == s \ {chosen[s]}
    <3>1. Good(G(r), r) /\ r \in SUBSET s /\ s \in SUBSET S /\ r \in SUBSET S
      BY <1>1, <1>3, <2>3
    <3> HIDE DEF G, r
    <3>2. Folds(G(r), r, base, chosen, step) /\ Folds(G(s), s, base, chosen, step)
      BY <2>1, <3>1
    <3>3. Agree(G(r), G(s), r \cap s)
      BY <3>1, <3>2, FoldsAgree
    <3>4. G(r)[r] = G(s)[r]
      BY <3>1, <3>3 DEF Agree
    <3>5. G(s)[s] = step[chosen[s]][G(s)[r]]
      BY <2>3, <3>2 DEF Folds, r
    <3>6. QED
      BY <2>3, <3>4, <3>5 DEF r
  <2>4. QED
    BY <2>2, <2>3
<1>6. Good(h, T)
  <2>1. h \in [SUBSET T -> V]
    <3> HIDE DEF value
    <3>1. QED
      BY <1>4
  <2>2. ASSUME NEW s \in SUBSET T, s # {} PROVE h[s] = step[chosen[s]][h[s \ {chosen[s]}]]
    <3> DEFINE r == s \ {chosen[s]}
    <3>1. r \in SUBSET T /\ r # T
      BY <1>3, <2>2
    <3>2. h[s] = step[chosen[s]][G(r)[r]]
      <4> HIDE DEF G
      <4>1. QED
        BY <2>2
    <3> HIDE DEF r, value, G
    <3>3. h[r] = G(r)[r]
      BY <1>5, <3>1
    <3>4. QED
      BY <3>2, <3>3 DEF r
  <2>3. h[{}] = base
    <3>1. {} \in SUBSET T
      OBVIOUS
    <3>2. QED
      BY <3>1
  <2> HIDE DEF h
  <2>4. QED
    BY <2>1, <2>2, <2>3 DEF Folds
<1>7. QED
  <2> HIDE DEF h
  <2>1. \E g : Good(g, T)
    BY <1>6
  <2> HIDE DEF Good
  <2>2. QED
    BY <1>1, <2>1

\* g unfolds wherever its value is in V.
Unfolds(g, S, V, base, chosen, step) ==
  /\ g[{}] = base
  /\ \A s \in SUBSET S :
       s # {} /\ g[s \ {chosen[s]}] \in V => g[s] = step[chosen[s]][g[s \ {chosen[s]}]]

FoldsIn(g, S, V, base, chosen, step) ==
  Folds(g, S, base, chosen, step) /\ \A s \in SUBSET S : g[s] \in V

\* A function that unfolds wherever it stays in V is a fold, and stays in V.
THEOREM FoldTyped ==
  ASSUME NEW S, IsFiniteSet(S), NEW V, NEW base \in V, NEW chosen, Choice(chosen, S),
         NEW step, StepsIn(step, S, V), NEW g, Unfolds(g, S, V, base, chosen, step)
  PROVE  FoldsIn(g, S, V, base, chosen, step)
<1> DEFINE Q == {s \in SUBSET S : g[s] \in V}
<1> USE DEF StepsIn, Unfolds, FoldsIn
<1>1. {} \in Q
  OBVIOUS
<1>2. ASSUME NEW s \in SUBSET S, s # {}
      PROVE  \E x \in s : (s \ {x} \in Q => s \in Q)
  <2>1. chosen[s] \in s /\ chosen[s] \in S
    BY <1>2 DEF Choice
  <2>2. s \ {chosen[s]} \in Q => s \in Q
    BY <1>2, <2>1
  <2>3. QED
    BY <2>1, <2>2
<1> HIDE DEF Q
<1>3. SUBSET S \subseteq Q
  BY <1>1, <1>2, BuildUp
<1>4. \A s \in SUBSET S : g[s] \in V
  BY <1>3 DEF Q
<1>5. ASSUME NEW s \in SUBSET S, s # {}
      PROVE  g[s] = step[chosen[s]][g[s \ {chosen[s]}]]
  <2>1. s \ {chosen[s]} \in SUBSET S
    OBVIOUS
  <2>2. QED
    BY <1>4, <1>5, <2>1
<1>6. QED
  BY <1>4, <1>5 DEF Folds

\* The chosen element of a fold from the left over a sequence: the last index.
LargestOf(S) == CHOOSE x \in S : \A y \in S : x >= y

Largest == [s \in SUBSET Nat |-> LargestOf(s)]

THEOREM LargestChosen ==
  ASSUME NEW n \in Nat
  PROVE  /\ Choice(Largest, 1 .. n)
         /\ n > 0 => Largest[1 .. n] = n /\ (1 .. n) \ {n} = 1 .. n - 1
<1>1. ASSUME NEW s \in SUBSET (1 .. n), s # {}
      PROVE  Largest[s] \in s
  <2> DEFINE B == {n - x : x \in s}
  <2>1. B \subseteq Nat /\ B # {}
    <3>1. \A x \in s : n - x \in Nat
      OBVIOUS
    <3>2. PICK x \in s : TRUE
      BY <1>1
    <3>3. n - x \in B
      BY <3>2
    <3>4. QED
      BY <3>1, <3>3
  <2> HIDE DEF B
  <2>2. PICK b \in B : \A c \in B : b <= c
    BY <2>1, LeastElement
  <2>3. PICK x \in s : b = n - x
    BY <2>2 DEF B
  <2>4. \A y \in s : n - y \in B /\ y \in Nat
    <3>1. \A y \in s : n - y \in B
      BY Zenon DEF B
    <3>2. \A y \in s : y \in Nat
      OBVIOUS
    <3>3. QED
      BY <3>1, <3>2
  <2>5. x \in Nat /\ \A y \in s : x >= y
    BY <2>2, <2>3, <2>4
  <2>6. LargestOf(s) \in s
    BY <2>5 DEF LargestOf
  <2>7. QED
    BY <2>6 DEF Largest
<1>2. n > 0 => Largest[1 .. n] = n
  <2> SUFFICES ASSUME n > 0 PROVE LargestOf(1 .. n) = n
    BY DEF Largest
  <2>1. n \in 1 .. n /\ \A y \in 1 .. n : n >= y
    OBVIOUS
  <2>2. QED
    BY <2>1 DEF LargestOf
<1>3. QED
  BY <1>1, <1>2 DEF Choice

\* A fold over one element more is the step of that element on the fold before.
THEOREM FoldLonger ==
  ASSUME NEW n \in Nat, NEW V, NEW base, NEW step, NEW longer,
         \A k \in 1 .. n, v \in V : step[k][v] = longer[k][v],
         NEW g, FoldsIn(g, 1 .. n, V, base, Largest, step),
         NEW h, FoldsIn(h, 1 .. n + 1, V, base, Largest, longer)
  PROVE  h[1 .. n + 1] = longer[n + 1][g[1 .. n]]
<1> DEFINE S == 1 .. n
           T == 1 .. n + 1
<1>1. IsFiniteSet(T) /\ S \in SUBSET T /\ Choice(Largest, T) /\ Choice(Largest, S)
  BY FS_Interval, LargestChosen
<1>2. Folds(g, S, base, Largest, longer)
  <2>1. ASSUME NEW s \in SUBSET S, s # {}
        PROVE  g[s] = longer[Largest[s]][g[s \ {Largest[s]}]]
    <3>1. Largest[s] \in S /\ s \ {Largest[s]} \in SUBSET S
      BY <1>1, <2>1 DEF Choice
    <3>2. g[s] = step[Largest[s]][g[s \ {Largest[s]}]] /\ g[s \ {Largest[s]}] \in V
      BY <2>1, <3>1 DEF FoldsIn, Folds
    <3>3. QED
      BY <3>1, <3>2
  <2>2. g[{}] = base
    BY DEF FoldsIn, Folds
  <2>3. QED
    BY <2>1, <2>2 DEF Folds
<1>3. Folds(h, T, base, Largest, longer)
  BY DEF FoldsIn
<1>4. Largest[T] = n + 1 /\ T \ {n + 1} = S /\ T # {}
  <2>1. n + 1 \in Nat /\ n + 1 > 0 /\ (n + 1) - 1 = n
    OBVIOUS
  <2>2. QED
    BY <2>1, LargestChosen
<1> HIDE DEF S, T
<1>5. S \in SUBSET T /\ T \in SUBSET T /\ S \cap T = S
  BY <1>1
<1>6. Agree(g, h, S \cap T)
  BY <1>1, <1>2, <1>3, <1>5, FoldsAgree
<1>7. g[S] = h[S]
  BY <1>5, <1>6 DEF Agree
<1>8. h[T] = longer[n + 1][h[S]]
  BY <1>3, <1>4, <1>5 DEF Folds
<1>9. QED
  BY <1>7, <1>8 DEF S, T

\* Induction over sequences, each from the one without its last element.
THEOREM AppendUp ==
  ASSUME NEW S, NEW Q, <<>> \in Q,
         \A s \in Seq(S), x \in S : s \in Q => Append(s, x) \in Q
  PROVE  Seq(S) \subseteq Q
<1>1. PICK N : N = {n \in Nat : \A s \in Seq(S) : Len(s) = n => s \in Q}
  OBVIOUS
<1>2. 0 \in N
  BY <1>1
<1>3. ASSUME NEW n \in Nat, n \in N
      PROVE  n + 1 \in N
  <2>1. SUFFICES ASSUME NEW s \in Seq(S), Len(s) = n + 1 PROVE s \in Q
    BY <1>1
  <2>2. PICK front, x : front = SubSeq(s, 1, n) /\ x = s[n + 1]
    OBVIOUS
  <2>3. /\ front \in Seq(S) /\ Len(front) = n /\ \A k \in 1 .. n : front[k] = s[k]
        /\ x \in S
    BY <2>1, <2>2
  <2>4. PICK t : t = Append(front, x)
    OBVIOUS
  <2>5. t \in Seq(S) /\ Len(t) = n + 1 /\ \A k \in 1 .. n + 1 : t[k] = s[k]
    BY <2>2, <2>3, <2>4
  <2>6. t = s
    BY <2>1, <2>5, SeqEqual
  <2>7. front \in Q
    BY <1>1, <1>3, <2>3
  <2>8. QED
    BY <2>3, <2>4, <2>6, <2>7
<1>4. Nat \subseteq N
  BY <1>2, <1>3, CountUp
<1>5. QED
  BY <1>1, <1>4

-----------------------------------------------------------------------------
(***************************************************************************)
(* Sums over finite sets, in whatever order the elements are taken.        *)
(***************************************************************************)

\* g[s] is the sum of the natural numbers f[x], for x in s, for each subset s of S.
IsSum(g, f, S) ==
  /\ g[{}] = 0
  /\ \A s \in SUBSET S : g[s] \in Nat /\ \A x \in s : g[s] = f[x] + g[s \ {x}]

Adds(f, S) == [x \in S |-> [v \in Nat |-> f[x] + v]]

\* A fold by addition is a sum.
THEOREM FoldIsSum ==
  ASSUME NEW S, IsFiniteSet(S), NEW f, \A x \in S : f[x] \in Nat,
         NEW chosen, Choice(chosen, S),
         NEW g, FoldsIn(g, S, Nat, 0, chosen, Adds(f, S))
  PROVE  IsSum(g, f, S)
<1>1. /\ g[{}] = 0
      /\ \A s \in SUBSET S : g[s] \in Nat
  BY DEF FoldsIn, Folds
<1>2. ASSUME NEW s \in SUBSET S, s # {}
      PROVE  chosen[s] \in s /\ g[s] = f[chosen[s]] + g[s \ {chosen[s]}]
  <2>1. chosen[s] \in s /\ chosen[s] \in S
    BY <1>2 DEF Choice
  <2>2. g[s] = Adds(f, S)[chosen[s]][g[s \ {chosen[s]}]]
    BY <1>2 DEF FoldsIn, Folds
  <2>3. g[s \ {chosen[s]}] \in Nat
    BY <1>1
  <2>4. QED
    BY <2>1, <2>2, <2>3 DEF Adds
<1> DEFINE Even(s) == \A x \in s : g[s] = f[x] + g[s \ {x}]
<1>3. PICK F : F = {s \in SUBSET S : ~Even(s)}
  OBVIOUS
<1>4. SUFFICES ASSUME F # {} PROVE FALSE
  BY <1>1, <1>3 DEF IsSum
<1>5. PICK m \in F : \A t \in F : t \subseteq m => t = m
  <2>1. F \subseteq SUBSET S
    BY <1>3
  <2>2. QED
    BY <1>4, <2>1, SmallestSubset
<1>6. PICK x \in m : g[m] # f[x] + g[m \ {x}]
  BY <1>3, <1>5
<1>7. PICK c : c = chosen[m]
  OBVIOUS
<1>8. m \in SUBSET S /\ c \in m /\ g[m] = f[c] + g[m \ {c}] /\ c # x
  BY <1>2, <1>3, <1>5, <1>6, <1>7
<1>9. PICK mc, mx, mcx : mc = m \ {c} /\ mx = m \ {x} /\ mcx = (m \ {c}) \ {x}
  OBVIOUS
<1>10. mc \notin F /\ mx \notin F
  BY <1>5, <1>6, <1>8, <1>9
<1>11. /\ mc \in SUBSET S /\ mx \in SUBSET S /\ mcx \in SUBSET S
       /\ x \in mc /\ c \in mx /\ mc \ {x} = mcx /\ mx \ {c} = mcx
  BY <1>6, <1>8, <1>9
<1>12. g[mc] = f[x] + g[mcx] /\ g[mx] = f[c] + g[mcx]
  BY <1>3, <1>10, <1>11
<1>13. f[x] \in Nat /\ f[c] \in Nat /\ g[mcx] \in Nat
  BY <1>1, <1>6, <1>8, <1>11
<1>14. QED
  BY <1>6, <1>8, <1>9, <1>12, <1>13

\* Sums of the same numbers are equal.
THEOREM SumsAgree ==
  ASSUME NEW S, NEW f, NEW g, IsSum(g, f, S),
         NEW T, NEW e, NEW h, IsSum(h, e, T),
         NEW R, IsFiniteSet(R), R \subseteq S, R \subseteq T, \A x \in R : f[x] = e[x]
  PROVE  g[R] = h[R]
<1>1. PICK Q : Q = {s \in SUBSET R : g[s] = h[s]}
  OBVIOUS
<1>2. {} \in Q
  BY <1>1 DEF IsSum
<1>3. ASSUME NEW s \in SUBSET R, s # {}
      PROVE  \E x \in s : (s \ {x} \in Q => s \in Q)
  <2>1. PICK x \in s : TRUE
    BY <1>3
  <2>2. g[s] = f[x] + g[s \ {x}] /\ h[s] = e[x] + h[s \ {x}] /\ f[x] = e[x]
    BY DEF IsSum
  <2>3. s \ {x} \in Q => s \in Q
    BY <1>1, <2>2
  <2>4. QED
    BY <2>3
<1>4. SUBSET R \subseteq Q
  BY <1>2, <1>3, BuildUp
<1>5. QED
  BY <1>1, <1>4
=============================================================================
