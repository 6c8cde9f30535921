------------------------------- MODULE Folding -------------------------------
(***************************************************************************)
(* What the folds of the model compute, for a list of any length.  The      *)
(* kernel goes through lists in loops (the tasks that are due, the pending   *)
(* ready list, the ticks counted while the scheduler was suspended), which   *)
(* the model writes with FoldLeft.  Here such a loop is unrolled: its result *)
(* is the last of a trace of values, each one step from the one before.      *)
(* With induction over the trace (SetInduction), whatever a step preserves   *)
(* the whole loop preserves.  The module takes nothing from the community     *)
(* modules, so that each of its instances stays small; whoever cites it      *)
(* shows in one step that his FoldLeft is this Fold.                         *)
(***************************************************************************)
EXTENDS Integers, WellFoundedInduction, TLAPS

CONSTANT Step(_, _)

(* A set of numbers that is not empty has a least member.                    *)
LEMMA LeastMember ==
  ASSUME NEW T \in SUBSET Nat, T # {}
  PROVE  \E x \in T : \A y \in T : x <= y
<1>1. \E R : IsWellFoundedOn(R, Nat) /\ \A x, y \in Nat : <<y, x>> \in R <=> y < x
  <2>1. \A x, y \in Nat : <<y, x>> \in OpToRel(<, Nat) <=> y < x
    BY DEF OpToRel
  <2> QED BY <2>1, NatLessThanWellFounded, Zenon
<1>2. PICK R : IsWellFoundedOn(R, Nat) /\ \A x, y \in Nat : <<y, x>> \in R <=> y < x
  BY <1>1
<1>3. PICK x \in T : \A y \in T : ~ (<<y, x>> \in R)
  BY <1>2, WFMin
<1>4. ASSUME NEW y \in T PROVE x <= y
  <2>1. x \in Nat /\ y \in Nat /\ ~ (y < x)
    BY <1>2, <1>3
  <2> QED BY <2>1
<1> QED BY <1>3, <1>4

(* A set that has 0, and with a number the next one, has every number.       *)
LEMMA SetInduction ==
  ASSUME NEW T, 0 \in T, \A n \in Nat : n \in T => n + 1 \in T
  PROVE  Nat \subseteq T
<1> SUFFICES ASSUME Nat \ T # {} PROVE FALSE
  OBVIOUS
<1>1. PICK x \in Nat \ T : \A y \in Nat \ T : x <= y
  BY LeastMember
<1>2. x # 0 /\ x - 1 \in Nat /\ x - 1 \in T
  BY <1>1
<1> QED BY <1>1, <1>2

(* The greatest number of a set, as the community modules' Max.              *)
Greatest(S) == CHOOSE x \in S : \A y \in S : x >= y
LEMMA MaxTop ==
  ASSUME NEW n \in Nat, NEW x \in SUBSET (1 .. n + 1), n + 1 \in x
  PROVE  Greatest(x) = n + 1
<1>1. n + 1 \in x /\ \A y \in x : n + 1 >= y
  OBVIOUS
<1>2. ASSUME NEW m \in x, \A y \in x : m >= y
      PROVE  m = n + 1
  <2>1. m >= n + 1 /\ m \in 1 .. n + 1
    BY <1>2
  <2> QED BY <2>1
<1> QED BY <1>1, <1>2 DEF Greatest

(* The recursive function that a fold is, and the fold, as FoldLeft is        *)
(* defined (MapThenFoldSet over the positions of the list).                  *)
FoldEq(f, n, j, s) ==
  f = [x \in SUBSET (1 .. n) |-> IF x = {} THEN j ELSE Step(f[x \ {Greatest(x)}], s[Greatest(x)])]
Fold(j, s) ==
  LET iter[x \in SUBSET (DOMAIN s)] ==
        IF x = {} THEN j ELSE Step(iter[x \ {Greatest(x)}], s[Greatest(x)])
  IN iter[DOMAIN s]

LEMMA Expand ==
  ASSUME NEW j, NEW s
  PROVE  Fold(j, s) =
           (CHOOSE f : f = [x \in SUBSET (DOMAIN s) |->
                              IF x = {} THEN j ELSE Step(f[x \ {Greatest(x)}], s[Greatest(x)])])[DOMAIN s]
BY DEF Fold

(* There is such a function.                                                 *)
LEMMA FoldFunctionExists ==
  ASSUME NEW j, NEW s, NEW n \in Nat
  PROVE  \E f : FoldEq(f, n, j, s)
<1> DEFINE T == {m \in Nat : \E f : FoldEq(f, m, j, s)}
<1>1. 0 \in T
  <2>1. FoldEq([x \in SUBSET (1 .. 0) |-> j], 0, j, s)
    BY DEF FoldEq
  <2> QED BY <2>1
<1>2. ASSUME NEW m \in Nat, m \in T PROVE m + 1 \in T
  <2>1. PICK f : FoldEq(f, m, j, s) BY <1>2
  <2> DEFINE g == [x \in SUBSET (1 .. m + 1) |->
                     IF m + 1 \in x THEN Step(f[x \ {m + 1}], s[m + 1]) ELSE f[x]]
  <2>2. ASSUME NEW x \in SUBSET (1 .. m + 1)
        PROVE  g[x] = IF x = {} THEN j ELSE Step(g[x \ {Greatest(x)}], s[Greatest(x)])
    <3>1. CASE m + 1 \in x
      <4>1. Greatest(x) = m + 1 BY <3>1, MaxTop
      <4>2. x \ {m + 1} \in SUBSET (1 .. m) OBVIOUS
      <4>3. g[x \ {m + 1}] = f[x \ {m + 1}] BY <4>2
      <4>4. g[x] = Step(f[x \ {m + 1}], s[m + 1]) BY <3>1
      <4> QED BY <3>1, <4>1, <4>3, <4>4, Zenon
    <3>2. CASE m + 1 \notin x
      <4>1. x \in SUBSET (1 .. m) BY <3>2
      <4>2. g[x] = f[x] BY <3>2
      <4>3. f[x] = IF x = {} THEN j ELSE Step(f[x \ {Greatest(x)}], s[Greatest(x)])
        BY <2>1, <4>1, Zenon DEF FoldEq
      <4>4. x # {} => g[x \ {Greatest(x)}] = f[x \ {Greatest(x)}]
        BY <3>2
      <4> QED BY <4>2, <4>3, <4>4, Zenon
    <3> QED BY <3>1, <3>2
  <2>3. FoldEq(g, m + 1, j, s)
    BY <2>2, Zenon DEF FoldEq
  <2> QED BY <2>3
<1> HIDE DEF T
<1>3. Nat \subseteq T BY <1>1, <1>2, SetInduction
<1> QED BY <1>3 DEF T

(* A fold over a list of n elements is the end of a trace of n steps.        *)
Unrolled(j, n, s, result) ==
  \E g : g[0] = j /\ (\A i \in 1 .. n : g[i] = Step(g[i - 1], s[i])) /\ result = g[n]
THEOREM FoldTrace ==
  ASSUME NEW j, NEW n \in Nat, NEW s, DOMAIN s = 1 .. n
  PROVE  Unrolled(j, n, s, Fold(j, s))
<1> DEFINE f == CHOOSE f : FoldEq(f, n, j, s)
<1>1. FoldEq(f, n, j, s)
  BY FoldFunctionExists, Zenon
<1>2. Fold(j, s) = f[1 .. n]
  BY Expand, Zenon DEF FoldEq
<1> HIDE DEF f
<1> DEFINE g == [m \in 0 .. n |-> f[1 .. m]]
<1>3. g[0] = j
  <2>1. 1 .. 0 = {} OBVIOUS
  <2>2. f[{}] = j BY <1>1 DEF FoldEq
  <2> QED BY <2>1, <2>2
<1>4. ASSUME NEW i \in 1 .. n PROVE g[i] = Step(g[i - 1], s[i])
  <2>1. Greatest(1 .. i) = i
    <3>1. PICK m \in Nat : i = m + 1
      <4>1. i - 1 \in Nat /\ i = (i - 1) + 1 OBVIOUS
      <4> QED BY <4>1
    <3>2. 1 .. i \in SUBSET (1 .. m + 1) /\ m + 1 \in 1 .. i BY <3>1
    <3>3. Greatest(1 .. i) = m + 1 BY <3>2, MaxTop
    <3> QED BY <3>1, <3>3
  <2>2. (1 .. i) \ {i} = 1 .. i - 1 OBVIOUS
  <2>3. 1 .. i \in SUBSET (1 .. n) /\ 1 .. i # {} OBVIOUS
  <2>4. f[1 .. i] = Step(f[1 .. i - 1], s[i])
    BY <1>1, <2>1, <2>2, <2>3 DEF FoldEq
  <2>5. i \in 0 .. n /\ i - 1 \in 0 .. n OBVIOUS
  <2>6. g[i] = f[1 .. i] BY <2>5
  <2>7. g[i - 1] = f[1 .. i - 1] BY <2>5
  <2> HIDE DEF g
  <2> QED BY <2>4, <2>6, <2>7
<1>5. Fold(j, s) = g[n]
  BY <1>2
<1> HIDE DEF g
<1> QED BY <1>3, <1>4, <1>5 DEF Unrolled
=============================================================================
