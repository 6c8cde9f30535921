--------------------------- MODULE TaskLists_proofs ---------------------------
(***************************************************************************)
(* What the operations on the kernel's lists preserve, for any number of     *)
(* tasks, priorities and ticks.                                              *)
(***************************************************************************)
EXTENDS TaskLists, FiniteSetTheorems, SequenceTheorems, TLAPS

Waking == INSTANCE Folding WITH Step <- WakeUp
Pending == INSTANCE Folding WITH Step <- MakeReady
Replay == INSTANCE Folding WITH Step <- ReplayTick

-----------------------------------------------------------------------------
(* Numbers that wrap.                                                        *)
LEMMA Residue ==
  ASSUME NEW a \in Int, NEW R \in Nat \ {0}, NEW q \in Int, NEW r \in 0 .. R - 1, a = q * R + r
  PROVE  a % R = r
OBVIOUS

LEMMA Division ==
  ASSUME NEW a \in Int, NEW R \in Nat \ {0}
  PROVE  a % R \in 0 .. R - 1 /\ \E q \in Int : a = q * R + (a % R)
<1>1. a % R \in 0 .. R - 1 OBVIOUS
<1>2. a = (a \div R) * R + (a % R) OBVIOUS
<1>3. a \div R \in Int OBVIOUS
<1> QED BY <1>1, <1>2, <1>3

LEMMA ModAdd ==
  ASSUME NEW a \in Int, NEW b \in Int, NEW R \in Nat \ {0}
  PROVE  ((a % R) + b) % R = (a + b) % R
<1>1. PICK q \in Int : a = q * R + (a % R) BY Division
<1>2. a % R \in 0 .. R - 1 BY Division
<1>3. (a % R) + b \in Int BY <1>2
<1>4. PICK p \in Int : (a % R) + b = p * R + (((a % R) + b) % R) BY <1>3, Division
<1>5. ((a % R) + b) % R \in 0 .. R - 1 BY <1>3, Division
<1>6. a + b = (q + p) * R + (((a % R) + b) % R) BY <1>1, <1>2, <1>4, <1>5
<1>7. q + p \in Int /\ a + b \in Int OBVIOUS
<1> DEFINE r == ((a % R) + b) % R
<1> HIDE DEF r
<1>8. r \in 0 .. R - 1 /\ a + b = (q + p) * R + r BY <1>5, <1>6 DEF r
<1>9. (a + b) % R = r BY <1>7, <1>8, Residue
<1> QED BY <1>9 DEF r

-----------------------------------------------------------------------------
(* Sequences: an element put in, taken out, or turned to the end.            *)
LEMMA InsertAtFacts ==
  ASSUME NEW S, NEW s \in Seq(S), NEW i \in 1 .. Len(s) + 1, NEW x \in S
  PROVE  /\ InsertAt(s, i, x) \in Seq(S)
         /\ Len(InsertAt(s, i, x)) = Len(s) + 1
         /\ \A m \in 1 .. Len(s) + 1 :
              InsertAt(s, i, x)[m] = IF m < i THEN s[m] ELSE IF m = i THEN x ELSE s[m - 1]
<1> DEFINE a == SubSeq(s, 1, i - 1)
           b == SubSeq(s, i, Len(s))
<1>1. /\ a \in Seq(S) /\ Len(a) = i - 1
      /\ \A m \in 1 .. i - 1 : a[m] = s[m]
  OBVIOUS
<1>2. /\ b \in Seq(S) /\ Len(b) = Len(s) - i + 1
      /\ \A m \in 1 .. Len(s) - i + 1 : b[m] = s[i + m - 1]
  OBVIOUS
<1>3. InsertAt(s, i, x) = (a \o <<x>>) \o b
  BY DEF InsertAt
<1> HIDE DEF a, b
<1> DEFINE c == a \o <<x>>
<1>4. /\ c \in Seq(S) /\ Len(c) = i
      /\ \A m \in 1 .. i : c[m] = IF m < i THEN s[m] ELSE x
  BY <1>1
<1> HIDE DEF c
<1>5. /\ c \o b \in Seq(S) /\ Len(c \o b) = Len(s) + 1
      /\ \A m \in 1 .. Len(s) + 1 : (c \o b)[m] = IF m <= i THEN c[m] ELSE b[m - i]
  <2>1. Len(c) + Len(b) = Len(s) + 1 BY <1>2, <1>4
  <2>2. /\ c \o b \in Seq(S) /\ Len(c \o b) = Len(c) + Len(b)
        /\ \A m \in 1 .. Len(c) + Len(b) : (c \o b)[m] = IF m <= Len(c) THEN c[m] ELSE b[m - Len(c)]
    BY <1>2, <1>4, ConcatProperties
  <2> QED BY <2>1, <2>2, <1>4
<1>6. ASSUME NEW m \in 1 .. Len(s) + 1
      PROVE  (c \o b)[m] = IF m < i THEN s[m] ELSE IF m = i THEN x ELSE s[m - 1]
  <2>1. CASE m <= i BY <2>1, <1>4, <1>5
  <2>2. CASE m > i
    <3>1. m - i \in 1 .. Len(s) - i + 1 /\ i + (m - i) - 1 = m - 1 BY <2>2
    <3>2. (c \o b)[m] = s[m - 1] BY <3>1, <2>2, <1>2, <1>5
    <3> QED BY <3>2, <2>2
  <2>3. m <= i \/ m > i OBVIOUS
  <2> QED BY <2>1, <2>2, <2>3, Zenon
<1>7. InsertAt(s, i, x) = c \o b BY <1>3 DEF c
<1> QED BY <1>5, <1>6, <1>7, Zenon

LEMMA Inserted ==
  ASSUME NEW S, NEW s \in Seq(S), NEW i \in 1 .. Len(s) + 1, NEW x \in S
  PROVE  /\ InsertAt(s, i, x) \in Seq(S)
         /\ Len(InsertAt(s, i, x)) = Len(s) + 1
         /\ \A y : Contains(InsertAt(s, i, x), y) <=> y = x \/ Contains(s, y)
         /\ IsInjective(s) /\ ~Contains(s, x) => IsInjective(InsertAt(s, i, x))
<1> DEFINE r == InsertAt(s, i, x)
<1>1. /\ r \in Seq(S) /\ Len(r) = Len(s) + 1
      /\ \A m \in 1 .. Len(s) + 1 : r[m] = IF m < i THEN s[m] ELSE IF m = i THEN x ELSE s[m - 1]
  BY InsertAtFacts
<1> HIDE DEF r
<1>2. ASSUME NEW y PROVE Contains(r, y) <=> y = x \/ Contains(s, y)
  <2>1. ASSUME Contains(r, y), y # x PROVE Contains(s, y)
    <3>1. PICK m \in 1 .. Len(s) + 1 : r[m] = y BY <2>1, <1>1 DEF Contains
    <3>2. CASE m < i
      <4>1. m \in 1 .. Len(s) /\ s[m] = y BY <3>1, <3>2, <1>1
      <4> QED BY <4>1 DEF Contains
    <3>3. CASE m > i
      <4>1. m - 1 \in 1 .. Len(s) /\ s[m - 1] = y BY <3>1, <3>3, <1>1
      <4> QED BY <4>1 DEF Contains
    <3>4. CASE m = i BY <3>1, <3>4, <2>1, <1>1
    <3> QED BY <3>2, <3>3, <3>4
  <2>2. Contains(r, x) BY <1>1 DEF Contains
  <2>3. ASSUME Contains(s, y) PROVE Contains(r, y)
    <3>1. PICK m \in 1 .. Len(s) : s[m] = y BY <2>3 DEF Contains
    <3>2. CASE m < i
      <4>1. m \in 1 .. Len(r) /\ r[m] = y BY <3>1, <3>2, <1>1
      <4> QED BY <4>1 DEF Contains
    <3>3. CASE m >= i
      <4>1. m + 1 \in 1 .. Len(r) /\ r[m + 1] = y BY <3>1, <3>3, <1>1
      <4> QED BY <4>1 DEF Contains
    <3> QED BY <3>2, <3>3
  <2> QED BY <2>1, <2>2, <2>3
<1>3. ASSUME IsInjective(s), ~Contains(s, x) PROVE IsInjective(r)
  <2>1. \A m \in 1 .. Len(s) : s[m] # x BY <1>3 DEF Contains
  <2>2. \A m, n \in 1 .. Len(s) : s[m] = s[n] => m = n
    <3>1. DOMAIN s = 1 .. Len(s) OBVIOUS
    <3> QED BY <3>1, <1>3 DEF IsInjective
  <2>3. SUFFICES ASSUME NEW m \in 1 .. Len(s) + 1, NEW n \in 1 .. Len(s) + 1, r[m] = r[n], m < n
                 PROVE  FALSE
    <3>1. DOMAIN r = 1 .. Len(s) + 1 BY <1>1
    <3> QED BY <3>1 DEF IsInjective
  <2>4. CASE n < i
    <3>1. m \in 1 .. Len(s) /\ n \in 1 .. Len(s) /\ m < i BY <2>3, <2>4
    <3>2. r[n] = s[n] BY <2>4, <1>1
    <3>3. r[m] = s[m] BY <3>1, <1>1
    <3>4. s[m] = s[n] BY <3>2, <3>3, <2>3
    <3> QED BY <3>1, <3>4, <2>2, <2>3
  <2>5. CASE n = i BY <2>1, <2>3, <2>5, <1>1
  <2>6. CASE n > i
    <3>1. r[n] = s[n - 1] /\ n - 1 \in 1 .. Len(s) BY <2>6, <1>1
    <3>2. CASE m < i
      <4>1. r[m] = s[m] /\ m \in 1 .. Len(s) /\ m # n - 1 BY <3>2, <2>6, <1>1
      <4> QED BY <4>1, <3>1, <2>2, <2>3
    <3>3. CASE m = i BY <3>1, <3>3, <2>1, <2>3, <1>1
    <3>4. CASE m > i
      <4>1. r[m] = s[m - 1] /\ m - 1 \in 1 .. Len(s) /\ m - 1 # n - 1 BY <3>4, <2>3, <1>1
      <4> QED BY <4>1, <3>1, <2>2, <2>3
    <3> QED BY <3>2, <3>3, <3>4
  <2> QED BY <2>4, <2>5, <2>6
<1> QED BY <1>1, <1>2, <1>3 DEF r

(* The first of the elements equal to x is taken out; when there was only    *)
(* one, none is left.                                                        *)
TakenOut(r, s, x, j, S) ==
  /\ s[j] = x /\ r \in Seq(S) /\ Len(r) = Len(s) - 1
  /\ \A m \in 1 .. Len(s) - 1 : r[m] = IF m < j THEN s[m] ELSE s[m + 1]
LEMMA RemoveFirstFacts ==
  ASSUME NEW S, NEW s \in Seq(S), NEW x, Contains(s, x)
  PROVE  \E j \in 1 .. Len(s) : TakenOut(RemoveFirst(s, x), s, x, j, S)
<1> DEFINE I == {i \in 1 .. Len(s) : s[i] = x}
           j == Min(I)
<1>1. I \in SUBSET Nat /\ I # {} BY DEF Contains
<1>2. \E y \in I : \A z \in I : y <= z
  BY <1>1, Waking!LeastMember, Zenon
<1>3. j \in I BY <1>2 DEF Min
<1>4. RemoveFirst(s, x) = RemoveAt(s, j)
  BY <1>1 DEF RemoveFirst, SelectInSeq, Contains
<1>5. j \in 1 .. Len(s) /\ s[j] = x BY <1>3
<1> HIDE DEF j, I
<1> DEFINE a == SubSeq(s, 1, j - 1)
           b == SubSeq(s, j + 1, Len(s))
<1>6. /\ a \in Seq(S) /\ Len(a) = j - 1
      /\ \A m \in 1 .. j - 1 : a[m] = s[m]
  BY <1>5
<1>7. /\ b \in Seq(S) /\ Len(b) = Len(s) - j
      /\ \A m \in 1 .. Len(s) - j : b[m] = s[j + m]
  BY <1>5
<1>8. RemoveFirst(s, x) = a \o b BY <1>4 DEF RemoveAt
<1> HIDE DEF a, b
<1>9. /\ a \o b \in Seq(S) /\ Len(a \o b) = Len(s) - 1
      /\ \A m \in 1 .. Len(s) - 1 : (a \o b)[m] = IF m <= j - 1 THEN a[m] ELSE b[m - (j - 1)]
  <2>1. Len(a) + Len(b) = Len(s) - 1 BY <1>6, <1>7, <1>5
  <2>2. /\ a \o b \in Seq(S) /\ Len(a \o b) = Len(a) + Len(b)
        /\ \A m \in 1 .. Len(a) + Len(b) : (a \o b)[m] = IF m <= Len(a) THEN a[m] ELSE b[m - Len(a)]
    BY <1>6, <1>7, ConcatProperties
  <2> QED BY <2>1, <2>2, <1>6
<1>10. ASSUME NEW m \in 1 .. Len(s) - 1
       PROVE  (a \o b)[m] = IF m < j THEN s[m] ELSE s[m + 1]
  <2>1. CASE m < j BY <2>1, <1>5, <1>6, <1>9
  <2>2. CASE m >= j
    <3>1. m - (j - 1) \in 1 .. Len(s) - j /\ j + (m - (j - 1)) = m + 1 BY <2>2, <1>5
    <3>2. ~ (m <= j - 1) BY <2>2, <1>5
    <3>3. (a \o b)[m] = b[m - (j - 1)] BY <3>2, <1>9
    <3>4. b[m - (j - 1)] = s[j + (m - (j - 1))] BY <3>1, <1>7
    <3>5. (a \o b)[m] = s[m + 1] BY <3>1, <3>3, <3>4, Zenon
    <3>6. ~ (m < j) BY <2>2, <1>5
    <3> QED BY <3>5, <3>6
  <2>3. m < j \/ m >= j BY <1>5
  <2> QED BY <2>1, <2>2, <2>3, Zenon
<1>11. TakenOut(a \o b, s, x, j, S) BY <1>5, <1>9, <1>10 DEF TakenOut
<1> QED BY <1>5, <1>8, <1>11

LEMMA Removed ==
  ASSUME NEW S, NEW s \in Seq(S), NEW x
  PROVE  /\ RemoveFirst(s, x) \in Seq(S)
         /\ \A y : y # x => (Contains(RemoveFirst(s, x), y) <=> Contains(s, y))
         /\ Contains(RemoveFirst(s, x), x) => Contains(s, x)
         /\ IsInjective(s) => IsInjective(RemoveFirst(s, x)) /\ ~Contains(RemoveFirst(s, x), x)
         /\ ~Contains(s, x) => RemoveFirst(s, x) = s
<1>1. CASE ~Contains(s, x)
  <2>1. RemoveFirst(s, x) = s BY <1>1 DEF RemoveFirst, Contains
  <2> QED BY <2>1, <1>1
<1>2. CASE Contains(s, x)
  <2> DEFINE r == RemoveFirst(s, x)
  <2>0. PICK j \in 1 .. Len(s) : TakenOut(r, s, x, j, S)
    BY <1>2, RemoveFirstFacts
  <2> HIDE DEF r
  <2>1. /\ s[j] = x /\ r \in Seq(S) /\ Len(r) = Len(s) - 1
        /\ \A m \in 1 .. Len(s) - 1 : r[m] = IF m < j THEN s[m] ELSE s[m + 1]
    BY <2>0 DEF TakenOut
  <2>2. ASSUME NEW y, Contains(r, y) PROVE Contains(s, y)
    <3>1. PICK m \in 1 .. Len(s) - 1 : r[m] = y BY <2>2, <2>1 DEF Contains
    <3>2. m \in 1 .. Len(s) /\ m + 1 \in 1 .. Len(s) OBVIOUS
    <3>3. s[m] = y \/ s[m + 1] = y BY <3>1, <2>1
    <3> QED BY <3>2, <3>3 DEF Contains
  <2>3. ASSUME NEW y, y # x, Contains(s, y) PROVE Contains(r, y)
    <3>1. PICK m \in 1 .. Len(s) : s[m] = y BY <2>3 DEF Contains
    <3>2. m # j BY <3>1, <2>3, <2>1
    <3>3. CASE m < j
      <4>1. m \in 1 .. Len(s) - 1 BY <3>3
      <4>2. r[m] = y BY <4>1, <3>1, <3>3, <2>1
      <4> QED BY <4>1, <4>2, <2>1 DEF Contains
    <3>4. CASE m > j
      <4>1. m - 1 \in 1 .. Len(s) - 1 BY <3>4
      <4>2. r[m - 1] = y BY <4>1, <3>1, <3>4, <2>1
      <4> QED BY <4>1, <4>2, <2>1 DEF Contains
    <3> QED BY <3>2, <3>3, <3>4
  <2>4. ASSUME IsInjective(s) PROVE IsInjective(r) /\ ~Contains(r, x)
    <3>1. \A m, n \in 1 .. Len(s) : s[m] = s[n] => m = n
      <4>1. DOMAIN s = 1 .. Len(s) OBVIOUS
      <4> QED BY <4>1, <2>4 DEF IsInjective
    <3>2. ASSUME NEW m \in 1 .. Len(s) - 1
          PROVE  \E u \in 1 .. Len(s) : r[m] = s[u] /\ u # j /\ u = (IF m < j THEN m ELSE m + 1)
      <4>1. CASE m < j
        <5>1. m \in 1 .. Len(s) /\ r[m] = s[m] BY <4>1, <2>1
        <5> QED BY <5>1, <4>1
      <4>2. CASE m >= j
        <5>1. m + 1 \in 1 .. Len(s) /\ r[m] = s[m + 1] BY <4>2, <2>1
        <5> QED BY <5>1, <4>2
      <4> QED BY <4>1, <4>2
    <3>3. ~Contains(r, x)
      <4>1. SUFFICES ASSUME NEW m \in 1 .. Len(s) - 1, r[m] = x PROVE FALSE
        <5>1. Len(r) = Len(s) - 1 BY <2>1
        <5> QED BY <5>1 DEF Contains
      <4>2. PICK u \in 1 .. Len(s) : r[m] = s[u] /\ u # j BY <3>2
      <4> QED BY <4>1, <4>2, <3>1, <2>1
    <3>4. SUFFICES ASSUME NEW m \in 1 .. Len(s) - 1, NEW n \in 1 .. Len(s) - 1, r[m] = r[n]
                   PROVE  m = n
      <4>1. DOMAIN r = 1 .. Len(s) - 1 BY <2>1
      <4> QED BY <3>3, <4>1 DEF IsInjective
    <3>5. PICK u \in 1 .. Len(s) : r[m] = s[u] /\ u = (IF m < j THEN m ELSE m + 1) BY <3>2
    <3>6. PICK v \in 1 .. Len(s) : r[n] = s[v] /\ v = (IF n < j THEN n ELSE n + 1) BY <3>2
    <3>7. s[u] = s[v] BY <3>4, <3>5, <3>6
    <3>8. u = v BY <3>1, <3>7
    <3> QED BY <3>5, <3>6, <3>8
  <2> QED BY <1>2, <2>1, <2>2, <2>3, <2>4 DEF r
<1> QED BY <1>1, <1>2

LEMMA EmptyIfNothing ==
  ASSUME NEW S, NEW s \in Seq(S), \A u : ~Contains(s, u)
  PROVE  s = <<>>
<1>1. SUFFICES ASSUME s # <<>> PROVE FALSE OBVIOUS
<1>2. 1 \in 1 .. Len(s) BY <1>1
<1>3. Contains(s, s[1]) BY <1>2 DEF Contains
<1> QED BY <1>3

(* A ring that is turned by one keeps its elements; the first goes last.     *)
LEMMA Turned ==
  ASSUME NEW S, NEW s \in Seq(S), s # <<>>
  PROVE  /\ Advance(s) \in Seq(S) /\ Len(Advance(s)) = Len(s)
         /\ \A y : Contains(Advance(s), y) <=> Contains(s, y)
         /\ IsInjective(s) => IsInjective(Advance(s))
         /\ Last(Advance(s)) = Head(s) /\ (Len(s) > 1 => Head(Advance(s)) = s[2])
<1> DEFINE r == Advance(s)
<1>1. /\ r \in Seq(S) /\ Len(r) = Len(s)
      /\ \A m \in 1 .. Len(s) : r[m] = IF m < Len(s) THEN s[m + 1] ELSE s[1]
  BY DEF Advance
<1>2. Len(s) \in Nat \ {0} OBVIOUS
<1> HIDE DEF r
<1>3. ASSUME NEW y, Contains(r, y) PROVE Contains(s, y)
  <2>1. PICK m \in 1 .. Len(s) : r[m] = y BY <1>3, <1>1 DEF Contains
  <2>2. CASE m < Len(s)
    <3>1. m + 1 \in 1 .. Len(s) /\ s[m + 1] = y BY <2>1, <2>2, <1>1
    <3> QED BY <3>1 DEF Contains
  <2>3. CASE m = Len(s)
    <3>1. 1 \in 1 .. Len(s) /\ s[1] = y BY <2>1, <2>3, <1>1
    <3> QED BY <3>1 DEF Contains
  <2> QED BY <2>2, <2>3
<1>4. ASSUME NEW y, Contains(s, y) PROVE Contains(r, y)
  <2>1. PICK m \in 1 .. Len(s) : s[m] = y BY <1>4 DEF Contains
  <2>2. CASE m = 1
    <3>1. Len(s) \in 1 .. Len(r) /\ r[Len(s)] = y BY <2>1, <2>2, <1>1, <1>2
    <3> QED BY <3>1 DEF Contains
  <2>3. CASE m > 1
    <3>1. m - 1 \in 1 .. Len(r) /\ r[m - 1] = y BY <2>1, <2>3, <1>1
    <3> QED BY <3>1 DEF Contains
  <2> QED BY <2>2, <2>3
<1>5. ASSUME IsInjective(s) PROVE IsInjective(r)
  <2>1. \A m, n \in 1 .. Len(s) : s[m] = s[n] => m = n
    <3>1. DOMAIN s = 1 .. Len(s) OBVIOUS
    <3> QED BY <3>1, <1>5 DEF IsInjective
  <2>2. SUFFICES ASSUME NEW m \in 1 .. Len(s), NEW n \in 1 .. Len(s), r[m] = r[n]
                 PROVE  m = n
    <3>1. DOMAIN r = 1 .. Len(s) BY <1>1
    <3> QED BY <3>1 DEF IsInjective
  <2>3. PICK u \in 1 .. Len(s) : r[m] = s[u] /\ u = (IF m < Len(s) THEN m + 1 ELSE 1)
    BY <1>1, <1>2
  <2>4. PICK v \in 1 .. Len(s) : r[n] = s[v] /\ v = (IF n < Len(s) THEN n + 1 ELSE 1)
    BY <1>1, <1>2
  <2>5. s[u] = s[v] BY <2>2, <2>3, <2>4
  <2>6. u = v BY <2>1, <2>5
  <2> QED BY <2>3, <2>4, <2>6
<1>6. Last(r) = Head(s)
  <2>1. Last(r) = r[Len(s)] BY <1>1 DEF Last
  <2>2. r[Len(s)] = s[1] BY <1>1, <1>2
  <2> QED BY <2>1, <2>2, <1>2
<1>7. Len(s) > 1 => Head(r) = s[2]
  <2>1. Len(s) > 1 => r[1] = s[2] BY <1>1, <1>2
  <2>2. Head(r) = r[1] BY <1>1, <1>2
  <2> QED BY <2>1, <2>2
<1> QED BY <1>1, <1>3, <1>4, <1>5, <1>6, <1>7 DEF r

(* The entry that listGET_OWNER_OF_NEXT_ENTRY comes to is never the end      *)
(* marker of a ready list that has a task.                                   *)
Ring(r) == r \in Seq(Task \cup {End}) /\ IsInjective(r) /\ Contains(r, End)
LEMMA NextEntryFacts ==
  ASSUME NEW r, Ring(r), Len(r) > 1
  PROVE  /\ Ring(NextEntry(r)) /\ Len(NextEntry(r)) = Len(r)
         /\ \A y : Contains(NextEntry(r), y) <=> Contains(r, y)
         /\ Last(NextEntry(r)) \in Task /\ Contains(r, Last(NextEntry(r)))
<1> DEFINE S == Task \cup {End}
<1>1. r \in Seq(S) /\ r # <<>> /\ IsInjective(r) /\ Len(r) \in Nat BY DEF Ring
<1>2. 1 \in DOMAIN r /\ 2 \in DOMAIN r /\ DOMAIN r = 1 .. Len(r) BY <1>1
<1>3. Head(r) = r[1] /\ r[1] # r[2] /\ r[1] \in S /\ r[2] \in S BY <1>1, <1>2 DEF IsInjective
<1>4. Contains(r, r[1]) /\ Contains(r, r[2]) BY <1>2 DEF Contains
<1> DEFINE a == Advance(r)
           b == Advance(Advance(r))
<1>5. /\ a \in Seq(S) /\ Len(a) = Len(r) /\ IsInjective(a)
      /\ \A y : Contains(a, y) <=> Contains(r, y)
      /\ Last(a) = r[1] /\ Head(a) = r[2]
  BY <1>1, <1>3, Turned
<1>6. a # <<>> BY <1>1, <1>5
<1>7. /\ b \in Seq(S) /\ Len(b) = Len(r) /\ IsInjective(b)
      /\ \A y : Contains(b, y) <=> Contains(r, y)
      /\ Last(b) = r[2]
  <2> HIDE DEF a
  <2>1. b = Advance(a) BY DEF a
  <2> HIDE DEF b
  <2> QED BY <1>5, <1>6, <2>1, Turned
<1> HIDE DEF a, b
<1>8. NextEntry(r) = IF r[1] = End THEN b ELSE a BY <1>3 DEF NextEntry, a, b
<1>9. Contains(r, End) BY DEF Ring
<1>10. CASE r[1] = End
  <2>1. NextEntry(r) = b BY <1>8, <1>10
  <2>2. r[2] \in Task BY <1>3, <1>10
  <2> QED BY <2>1, <2>2, <1>4, <1>7, <1>9 DEF Ring
<1>11. CASE r[1] # End
  <2>1. NextEntry(r) = a BY <1>8, <1>11
  <2>2. r[1] \in Task BY <1>3, <1>11
  <2> QED BY <2>1, <2>2, <1>4, <1>5, <1>9 DEF Ring
<1> QED BY <1>10, <1>11

-----------------------------------------------------------------------------
(* What holds of the kernel's lists.  A ready list is a ring of its end      *)
(* marker and tasks of its priority, none of them twice, where the search    *)
(* from uxTopReadyPriority down finds it; the other lists hold tasks.        *)
Fields == {"cur", "number", "ready", "top", "delayed", "overflow", "suspended", "dead", "wake",
           "events", "order", "flags", "prio", "base", "held", "nstate", "nval", "tick", "ovf",
           "pended", "unblock", "susp", "missed", "pendsv"}
Shape(k) ==
  /\ DOMAIN k = Fields
  /\ k.cur \in Task /\ k.top \in Levels
  /\ k.prio \in [Task -> Levels] /\ k.base \in [Task -> Levels]
  /\ k.events \in [EventLists \cup {"pending"} -> Seq(Task)]
  /\ DOMAIN k.wake = Task
Rings(k) ==
  /\ DOMAIN k.ready = Levels
  /\ \A p \in Levels : Ring(k.ready[p])
  /\ \A p \in Levels : \A t \in Task : Contains(k.ready[p], t) => p = k.prio[t] /\ p <= k.top
OtherLists(k) ==
  /\ k.delayed \in Seq(Task) /\ IsInjective(k.delayed)
  /\ k.overflow \in Seq(Task) /\ IsInjective(k.overflow)
  /\ k.dead \in Seq(Task) /\ IsInjective(k.dead)
  /\ k.suspended \in SUBSET Task
Sound(k) == Shape(k) /\ Rings(k) /\ OtherLists(k)
(* While task t's priority is changed, its ring is that of the old one.      *)
RingsBut(k, t) ==
  /\ DOMAIN k.ready = Levels
  /\ \A p \in Levels : Ring(k.ready[p])
  /\ \A p \in Levels : \A u \in Task \ {t} : Contains(k.ready[p], u) => p = k.prio[u] /\ p <= k.top
SoundBut(k, t) == Shape(k) /\ RingsBut(k, t) /\ OtherLists(k)
LEMMA SoundAnyway ==
  ASSUME NEW k, Sound(k), NEW t PROVE SoundBut(k, t)
BY DEF Sound, SoundBut, Rings, RingsBut

(* A task's state item is in at most one list.                               *)
Elsewhere(k, t) ==
  Contains(k.delayed, t) \/ Contains(k.overflow, t) \/ Contains(k.dead, t) \/ t \in k.suspended
InAList(k, t) == IsReady(k, t) \/ Elsewhere(k, t)
Single(k) ==
  \A t \in Task :
    /\ IsReady(k, t) => ~Elsewhere(k, t)
    /\ Contains(k.delayed, t) => ~Contains(k.overflow, t) /\ ~Contains(k.dead, t) /\ t \notin k.suspended
    /\ Contains(k.overflow, t) => ~Contains(k.dead, t) /\ t \notin k.suspended
    /\ Contains(k.dead, t) => t \notin k.suspended

(* What the operations on lists leave as it is.                              *)
Kept(k, j) ==
  /\ j.cur = k.cur /\ j.number = k.number /\ j.order = k.order /\ j.flags = k.flags
  /\ j.prio = k.prio /\ j.base = k.base /\ j.held = k.held
  /\ j.nstate = k.nstate /\ j.nval = k.nval
  /\ j.tick = k.tick /\ j.ovf = k.ovf /\ j.pended = k.pended /\ j.unblock = k.unblock
  /\ j.susp = k.susp /\ j.missed = k.missed /\ j.pendsv = k.pendsv
(* And that only task t is moved between the lists.                          *)
Moved(k, j, t) ==
  \A u \in Task \ {t} :
    /\ IsReady(j, u) <=> IsReady(k, u)
    /\ Contains(j.delayed, u) <=> Contains(k.delayed, u)
    /\ Contains(j.overflow, u) <=> Contains(k.overflow, u)
    /\ Contains(j.dead, u) <=> Contains(k.dead, u)
    /\ u \in j.suspended <=> u \in k.suspended

LEMMA UnlistFields ==
  ASSUME NEW k, NEW t \in Task, SoundBut(k, t)
  PROVE  /\ Shape(Unlist(k, t)) /\ Kept(k, Unlist(k, t))
         /\ Unlist(k, t).events = k.events /\ Unlist(k, t).top = k.top
         /\ Unlist(k, t).ready = [p \in Levels |-> RemoveFirst(k.ready[p], t)]
         /\ Unlist(k, t).delayed = RemoveFirst(k.delayed, t)
         /\ Unlist(k, t).overflow = RemoveFirst(k.overflow, t)
         /\ Unlist(k, t).dead = RemoveFirst(k.dead, t)
         /\ Unlist(k, t).suspended = k.suspended \ {t}
BY DEF Unlist, SoundBut, Shape, RingsBut, Fields, Kept
LEMMA UnlistWake ==
  ASSUME NEW k, DOMAIN k = Fields, NEW t
  PROVE  Unlist(k, t).wake = [k.wake EXCEPT ![t] = 0]
BY DEF Unlist, Fields

(* uxListRemove: the task is in no list afterwards.                          *)
LEMMA Unlisted ==
  ASSUME NEW k, NEW t \in Task, SoundBut(k, t)
  PROVE  /\ Sound(Unlist(k, t)) /\ Kept(k, Unlist(k, t))
         /\ Unlist(k, t).events = k.events /\ Unlist(k, t).top = k.top
         /\ ~InAList(Unlist(k, t), t) /\ Moved(k, Unlist(k, t), t)
         /\ Single(k) => Single(Unlist(k, t))
<1> DEFINE j == Unlist(k, t)
<1>1. /\ Shape(j) /\ Kept(k, j) /\ j.events = k.events /\ j.top = k.top
      /\ j.ready = [p \in Levels |-> RemoveFirst(k.ready[p], t)]
      /\ j.delayed = RemoveFirst(k.delayed, t) /\ j.overflow = RemoveFirst(k.overflow, t)
      /\ j.dead = RemoveFirst(k.dead, t) /\ j.suspended = k.suspended \ {t}
  BY UnlistFields
<1> HIDE DEF j
<1>2. ASSUME NEW p \in Levels
      PROVE  /\ Ring(j.ready[p]) /\ ~Contains(j.ready[p], t)
             /\ \A u \in Task \ {t} : Contains(j.ready[p], u) <=> Contains(k.ready[p], u)
  <2>1. Ring(k.ready[p]) BY DEF SoundBut, RingsBut
  <2>2. t # End BY TaskListsAssumption
  <2>3. /\ RemoveFirst(k.ready[p], t) \in Seq(Task \cup {End})
        /\ IsInjective(RemoveFirst(k.ready[p], t)) /\ ~Contains(RemoveFirst(k.ready[p], t), t)
        /\ \A y : y # t => (Contains(RemoveFirst(k.ready[p], t), y) <=> Contains(k.ready[p], y))
    BY <2>1, Removed DEF Ring
  <2>4. j.ready[p] = RemoveFirst(k.ready[p], t) BY <1>1
  <2> QED BY <2>1, <2>2, <2>3, <2>4 DEF Ring
<1>3. ASSUME NEW l, l \in Seq(Task), IsInjective(l)
      PROVE  /\ RemoveFirst(l, t) \in Seq(Task) /\ IsInjective(RemoveFirst(l, t))
             /\ ~Contains(RemoveFirst(l, t), t)
             /\ \A u \in Task \ {t} : Contains(RemoveFirst(l, t), u) <=> Contains(l, u)
  BY <1>3, Removed
<1>4. OtherLists(j) /\ ~Elsewhere(j, t)
  BY <1>1, <1>3 DEF SoundBut, OtherLists, Elsewhere
<1>5. Rings(j)
  <2>1. DOMAIN j.ready = Levels BY <1>1
  <2>2. j.prio = k.prio BY <1>1 DEF Kept
  <2>3. ASSUME NEW p \in Levels, NEW u \in Task, Contains(j.ready[p], u)
        PROVE  p = j.prio[u] /\ p <= j.top
    <3>1. Contains(k.ready[p], u) BY <1>2, <2>3
    <3>2. u # t BY <1>2, <2>3
    <3> QED BY <3>1, <3>2, <2>2, <1>1 DEF SoundBut, RingsBut
  <2> QED BY <1>2, <2>1, <2>3 DEF Rings
<1>6. ~IsReady(j, t) BY <1>2 DEF IsReady
<1>7. Moved(k, j, t)
  <2>1. SUFFICES ASSUME NEW u \in Task \ {t}
                 PROVE  /\ IsReady(j, u) <=> IsReady(k, u)
                        /\ Contains(j.delayed, u) <=> Contains(k.delayed, u)
                        /\ Contains(j.overflow, u) <=> Contains(k.overflow, u)
                        /\ Contains(j.dead, u) <=> Contains(k.dead, u)
                        /\ u \in j.suspended <=> u \in k.suspended
    BY DEF Moved
  <2>2. IsReady(j, u) <=> IsReady(k, u) BY <1>2 DEF IsReady
  <2> QED BY <2>2, <1>1, <1>3 DEF SoundBut, OtherLists
<1>8. Single(k) => Single(j)
  BY <1>4, <1>6, <1>7 DEF Single, Moved, Elsewhere
<1> QED BY <1>1, <1>4, <1>5, <1>6, <1>7, <1>8 DEF Sound, InAList, j

(* A task taken off its event list stays in the lists of its state item.     *)
SameLists(k, j) ==
  /\ j.ready = k.ready /\ j.top = k.top /\ j.delayed = k.delayed /\ j.overflow = k.overflow
  /\ j.dead = k.dead /\ j.suspended = k.suspended
LEMMA SameListsFacts ==
  ASSUME NEW k, NEW j, SameLists(k, j)
  PROVE  /\ \A t : IsReady(j, t) <=> IsReady(k, t)
         /\ \A t : Elsewhere(j, t) <=> Elsewhere(k, t)
         /\ OtherLists(k) => OtherLists(j)
         /\ Rings(k) /\ j.prio = k.prio => Rings(j)
         /\ Single(k) => Single(j)
<1>1. \A t : IsReady(j, t) <=> IsReady(k, t) BY DEF SameLists, IsReady
<1>2. \A t : Elsewhere(j, t) <=> Elsewhere(k, t) BY DEF SameLists, Elsewhere
<1>3. OtherLists(k) => OtherLists(j) BY DEF SameLists, OtherLists
<1>4. Rings(k) /\ j.prio = k.prio => Rings(j) BY DEF SameLists, Rings
<1>5. Single(k) => Single(j) BY <1>1, <1>2 DEF SameLists, Single
<1> QED BY <1>1, <1>2, <1>3, <1>4, <1>5

LEMMA UneventFields ==
  ASSUME NEW k, Shape(k), NEW t
  PROVE  /\ DOMAIN Unevent(k, t) = Fields /\ Kept(k, Unevent(k, t)) /\ SameLists(k, Unevent(k, t))
         /\ Unevent(k, t).wake = k.wake
         /\ Unevent(k, t).events = [e \in EventLists \cup {"pending"} |-> RemoveFirst(k.events[e], t)]
BY DEF Unevent, Shape, Fields, Kept, SameLists

LEMMA Unevented ==
  ASSUME NEW k, Sound(k), NEW t
  PROVE  /\ Sound(Unevent(k, t)) /\ Kept(k, Unevent(k, t)) /\ SameLists(k, Unevent(k, t))
         /\ \A e \in EventLists \cup {"pending"} : \A u :
              u # t => (Contains(Unevent(k, t).events[e], u) <=> Contains(k.events[e], u))
<1> DEFINE j == Unevent(k, t)
<1>1. /\ DOMAIN j = Fields /\ Kept(k, j) /\ SameLists(k, j) /\ j.wake = k.wake
      /\ j.events = [e \in EventLists \cup {"pending"} |-> RemoveFirst(k.events[e], t)]
  BY UneventFields DEF Sound
<1> HIDE DEF j
<1>2. ASSUME NEW e \in EventLists \cup {"pending"}
      PROVE  /\ j.events[e] \in Seq(Task)
             /\ \A u : u # t => (Contains(j.events[e], u) <=> Contains(k.events[e], u))
  <2>1. k.events[e] \in Seq(Task) BY DEF Sound, Shape
  <2>2. j.events[e] = RemoveFirst(k.events[e], t) BY <1>1
  <2> QED BY <2>1, <2>2, Removed
<1>3. j.events \in [EventLists \cup {"pending"} -> Seq(Task)] BY <1>1, <1>2
<1>4. Shape(j) BY <1>1, <1>3 DEF Sound, Shape, Kept, SameLists
<1>5. Sound(j) BY <1>1, <1>4, SameListsFacts DEF Sound, Kept
<1> QED BY <1>1, <1>2, <1>5 DEF j

LEMMA AddReadyFields ==
  ASSUME NEW k, Sound(k), NEW t \in Task
  PROVE  /\ DOMAIN AddReady(k, t) = Fields /\ Kept(k, AddReady(k, t))
         /\ AddReady(k, t).wake = k.wake
         /\ AddReady(k, t).events = k.events
         /\ AddReady(k, t).top = IF k.prio[t] > k.top THEN k.prio[t] ELSE k.top
         /\ AddReady(k, t).ready = [k.ready EXCEPT ![k.prio[t]] = InsertEnd(@, t)]
         /\ AddReady(k, t).delayed = k.delayed /\ AddReady(k, t).overflow = k.overflow
         /\ AddReady(k, t).dead = k.dead /\ AddReady(k, t).suspended = k.suspended
BY DEF AddReady, Sound, Shape, Fields, Kept

(* prvAddTaskToReadyList of a task that is in no list.                       *)
LEMMA AddedReady ==
  ASSUME NEW k, Sound(k), NEW t \in Task, ~InAList(k, t)
  PROVE  /\ Sound(AddReady(k, t)) /\ Kept(k, AddReady(k, t)) /\ AddReady(k, t).events = k.events
         /\ \A u \in Task : IsReady(AddReady(k, t), u) <=> u = t \/ IsReady(k, u)
         /\ \A u \in Task : Elsewhere(AddReady(k, t), u) <=> Elsewhere(k, u)
         /\ Moved(k, AddReady(k, t), t)
         /\ Single(k) => Single(AddReady(k, t))
<1> DEFINE j == AddReady(k, t)
           q == k.prio[t]
<1>1. /\ DOMAIN j = Fields /\ Kept(k, j) /\ j.events = k.events /\ j.wake = k.wake
      /\ j.top = IF q > k.top THEN q ELSE k.top
      /\ j.ready = [k.ready EXCEPT ![q] = InsertEnd(@, t)]
      /\ j.delayed = k.delayed /\ j.overflow = k.overflow
      /\ j.dead = k.dead /\ j.suspended = k.suspended
  BY AddReadyFields
<1> HIDE DEF j
<1>2. q \in Levels /\ k.top \in Levels BY DEF Sound, Shape
<1>3. Ring(k.ready[q]) /\ DOMAIN k.ready = Levels BY <1>2 DEF Sound, Rings
<1>4. ~Contains(k.ready[q], t) BY <1>2 DEF InAList, IsReady
<1>5. /\ Ring(j.ready[q])
      /\ \A y : Contains(j.ready[q], y) <=> y = t \/ Contains(k.ready[q], y)
  <2> DEFINE r == k.ready[q]
  <2>1. r \in Seq(Task \cup {End}) /\ IsInjective(r) /\ Contains(r, End) BY <1>3 DEF Ring
  <2>2. Len(r) \in 1 .. Len(r) + 1
    <3>1. PICK i \in 1 .. Len(r) : r[i] = End BY <2>1 DEF Contains
    <3>2. Len(r) \in Nat BY <2>1
    <3> HIDE DEF r
    <3> QED BY <3>2
  <2>3. j.ready[q] = InsertAt(r, Len(r), t) BY <1>1, <1>2, <1>3 DEF InsertEnd
  <2> HIDE DEF r
  <2>4. /\ InsertAt(r, Len(r), t) \in Seq(Task \cup {End})
        /\ \A y : Contains(InsertAt(r, Len(r), t), y) <=> y = t \/ Contains(r, y)
        /\ IsInjective(r) /\ ~Contains(r, t) => IsInjective(InsertAt(r, Len(r), t))
    BY <2>1, <2>2, Inserted
  <2> QED BY <2>1, <2>3, <2>4, <1>4 DEF Ring, r
<1>6. \A p \in Levels : p # q => j.ready[p] = k.ready[p] BY <1>1, <1>3
<1>7. DOMAIN j.ready = Levels BY <1>1, <1>3
<1>8. j.top \in Levels /\ q <= j.top /\ k.top <= j.top BY <1>1, <1>2 DEF Levels
<1>9. Rings(j)
  <2>1. \A p \in Levels : Ring(j.ready[p]) BY <1>5, <1>6 DEF Sound, Rings
  <2>2. ASSUME NEW p \in Levels, NEW u \in Task, Contains(j.ready[p], u)
        PROVE  p = j.prio[u] /\ p <= j.top
    <3>1. j.prio = k.prio BY <1>1 DEF Kept
    <3>2. CASE p = q /\ u = t BY <3>1, <3>2, <1>8
    <3>3. CASE ~(p = q /\ u = t)
      <4>1. Contains(k.ready[p], u) BY <2>2, <3>3, <1>5, <1>6
      <4>2. p = k.prio[u] /\ p <= k.top BY <4>1 DEF Sound, Rings
      <4>3. p <= j.top BY <4>2, <1>2, <1>8 DEF Levels
      <4> QED BY <3>1, <4>2, <4>3
    <3> QED BY <3>2, <3>3
  <2> QED BY <1>7, <2>1, <2>2 DEF Rings
<1>10. Shape(j) BY <1>1, <1>8 DEF Sound, Shape, Kept
<1>11. OtherLists(j) BY <1>1 DEF Sound, OtherLists
<1>12. ASSUME NEW u \in Task PROVE IsReady(j, u) <=> u = t \/ IsReady(k, u)
  <2>1. CASE u = t BY <2>1, <1>2, <1>5 DEF IsReady
  <2>2. CASE u # t
    <3>1. \A p \in Levels : Contains(j.ready[p], u) <=> Contains(k.ready[p], u)
      BY <2>2, <1>5, <1>6
    <3> QED BY <2>2, <3>1 DEF IsReady
  <2> QED BY <2>1, <2>2
<1>13. \A u \in Task : Elsewhere(j, u) <=> Elsewhere(k, u) BY <1>1 DEF Elsewhere
<1>14. Moved(k, j, t) BY <1>1, <1>12 DEF Moved
<1>15. Single(k) => Single(j) BY <1>1, <1>12, <1>13 DEF Single, InAList
<1> QED BY <1>1, <1>9, <1>10, <1>11, <1>12, <1>13, <1>14, <1>15 DEF Sound, j

(* A task is made ready, wherever it was.                                    *)
LEMMA MadeReady ==
  ASSUME NEW k, NEW t \in Task, SoundBut(k, t)
  PROVE  /\ Sound(Ready(k, t)) /\ Kept(k, Ready(k, t)) /\ Ready(k, t).events = k.events
         /\ \A u \in Task : IsReady(Ready(k, t), u) <=> u = t \/ IsReady(k, u)
         /\ Moved(k, Ready(k, t), t) /\ ~Elsewhere(Ready(k, t), t)
         /\ Single(k) => Single(Ready(k, t))
<1> DEFINE m == Unlist(k, t)
           j == AddReady(m, t)
<1>1. Ready(k, t) = j BY DEF Ready
<1>2. /\ Sound(m) /\ Kept(k, m) /\ m.events = k.events /\ ~InAList(m, t)
      /\ Moved(k, m, t) /\ (Single(k) => Single(m))
  BY Unlisted
<1> HIDE DEF m
<1>3. /\ Sound(j) /\ Kept(m, j) /\ j.events = m.events
      /\ \A u \in Task : IsReady(j, u) <=> u = t \/ IsReady(m, u)
      /\ \A u \in Task : Elsewhere(j, u) <=> Elsewhere(m, u)
      /\ Moved(m, j, t) /\ (Single(m) => Single(j))
  BY <1>2, AddedReady
<1> HIDE DEF j
<1>4. Kept(k, j) BY <1>2, <1>3 DEF Kept
<1>5. Moved(k, j, t) BY <1>2, <1>3 DEF Moved
<1>6. \A u \in Task : IsReady(j, u) <=> u = t \/ IsReady(k, u) BY <1>2, <1>3 DEF Moved
<1> QED BY <1>1, <1>2, <1>3, <1>4, <1>5, <1>6 DEF InAList

LEMMA WokenUp ==
  ASSUME NEW k, Sound(k), NEW t \in Task
  PROVE  /\ Sound(WakeUp(k, t)) /\ Kept(k, WakeUp(k, t))
         /\ \A e \in EventLists \cup {"pending"} : \A u :
              u # t => (Contains(WakeUp(k, t).events[e], u) <=> Contains(k.events[e], u))
         /\ \A u \in Task : IsReady(WakeUp(k, t), u) <=> u = t \/ IsReady(k, u)
         /\ Moved(k, WakeUp(k, t), t) /\ ~Elsewhere(WakeUp(k, t), t)
         /\ Single(k) => Single(WakeUp(k, t))
<1> DEFINE m == Unevent(k, t)
           j == Ready(m, t)
<1>1. WakeUp(k, t) = j BY DEF WakeUp
<1>2. /\ Sound(m) /\ Kept(k, m) /\ SameLists(k, m)
      /\ \A e \in EventLists \cup {"pending"} : \A u :
           u # t => (Contains(m.events[e], u) <=> Contains(k.events[e], u))
  BY Unevented
<1>3. /\ \A u : IsReady(m, u) <=> IsReady(k, u)
      /\ Single(k) => Single(m)
  BY <1>2, SameListsFacts
<1> HIDE DEF m
<1>4. /\ Sound(j) /\ Kept(m, j) /\ j.events = m.events
      /\ \A u \in Task : IsReady(j, u) <=> u = t \/ IsReady(m, u)
      /\ Moved(m, j, t) /\ ~Elsewhere(j, t) /\ (Single(m) => Single(j))
  BY <1>2, SoundAnyway, MadeReady
<1> HIDE DEF j
<1>5. Kept(k, j) BY <1>2, <1>4 DEF Kept
<1>6. Moved(k, j, t) BY <1>2, <1>3, <1>4 DEF Moved, SameLists
<1> QED BY <1>1, <1>2, <1>3, <1>4, <1>5, <1>6

-----------------------------------------------------------------------------
(* The lists of the tasks that sleep are in the order of waking.             *)
Ordered(l, wake) == \A m, n \in 1 .. Len(l) : m <= n => wake[l[m]] <= wake[l[n]]

LEMMA RemovedOrdered ==
  ASSUME NEW s \in Seq(Task), IsInjective(s), NEW x \in Task,
         NEW w \in [Task -> Ticks], NEW v \in [Task -> Ticks], \A y \in Task \ {x} : v[y] = w[y],
         Ordered(s, w)
  PROVE  /\ Ordered(RemoveFirst(s, x), v)
         /\ RemoveFirst(s, x) # <<>> => s # <<>> /\ w[Head(s)] <= v[Head(RemoveFirst(s, x))]
<1> DEFINE r == RemoveFirst(s, x)
<1>1. /\ r \in Seq(Task) /\ ~Contains(r, x)
      /\ ~Contains(s, x) => r = s
  BY Removed
<1>2. \A m \in 1 .. Len(r) : \E u \in 1 .. Len(s) : r[m] = s[u] /\ m <= u
                                  /\ \A n \in 1 .. Len(r) : m <= n => \E q \in 1 .. Len(s) : r[n] = s[q] /\ u <= q
  <2>1. CASE Contains(s, x)
    <3>1. PICK j \in 1 .. Len(s) : TakenOut(r, s, x, j, Task) BY <2>1, RemoveFirstFacts
    <3> HIDE DEF r
    <3>2. /\ Len(r) = Len(s) - 1
          /\ \A m \in 1 .. Len(s) - 1 : r[m] = IF m < j THEN s[m] ELSE s[m + 1]
      BY <3>1 DEF TakenOut
    <3> DEFINE at(m) == IF m < j THEN m ELSE m + 1
    <3>3. \A m \in 1 .. Len(s) - 1 : at(m) \in 1 .. Len(s) /\ m <= at(m) /\ r[m] = s[at(m)]
      <4>1. TAKE m \in 1 .. Len(s) - 1
      <4>2. CASE m < j BY <4>2, <3>2
      <4>3. CASE m >= j BY <4>3, <3>2
      <4> QED BY <4>2, <4>3
    <3>4. \A m, n \in 1 .. Len(s) - 1 : m <= n => at(m) <= at(n) OBVIOUS
    <3> HIDE DEF at
    <3> QED BY <3>2, <3>3, <3>4, Zenon
  <2>2. CASE ~Contains(s, x)
    <3>1. r = s BY <2>2, <1>1
    <3> HIDE DEF r
    <3> QED BY <3>1
  <2> QED BY <2>1, <2>2
<1> HIDE DEF r
<1>3. \A m \in 1 .. Len(r) : r[m] \in Task /\ r[m] # x /\ v[r[m]] = w[r[m]]
  BY <1>1 DEF Contains
<1>4. ASSUME NEW m \in 1 .. Len(r), NEW n \in 1 .. Len(r), m <= n
      PROVE  v[r[m]] <= v[r[n]]
  <2>1. PICK u \in 1 .. Len(s) : r[m] = s[u] /\ \E q \in 1 .. Len(s) : r[n] = s[q] /\ u <= q
    BY <1>2, <1>4, Zenon
  <2>2. PICK q \in 1 .. Len(s) : r[n] = s[q] /\ u <= q BY <2>1
  <2>3. w[s[u]] <= w[s[q]] BY <2>2 DEF Ordered
  <2> QED BY <2>1, <2>2, <2>3, <1>3
<1>5. ASSUME r # <<>> PROVE s # <<>> /\ w[Head(s)] <= v[Head(r)]
  <2>1. 1 \in 1 .. Len(r) /\ Head(r) = r[1] BY <1>1, <1>5
  <2>2. PICK u \in 1 .. Len(s) : r[1] = s[u] BY <1>2, <2>1
  <2>3. s # <<>> /\ Head(s) = s[1] /\ 1 \in 1 .. Len(s) /\ 1 <= u BY <2>2
  <2>4. w[s[1]] <= w[s[u]] BY <2>3 DEF Ordered
  <2> QED BY <2>1, <2>2, <2>3, <2>4, <1>3
<1> QED BY <1>4, <1>5 DEF r, Ordered

(* Who sleeps is woken n or later, or after the tick has wrapped; and the    *)
(* tick looks at the delayed list in time.                                   *)
TimedFrom(k, n) ==
  /\ k.wake \in [Task -> Ticks] /\ k.tick \in Ticks
  /\ Ordered(k.delayed, k.wake) /\ Ordered(k.overflow, k.wake)
  /\ \A t \in Task : Contains(k.delayed, t) => k.wake[t] >= n
  /\ \A t \in Task : Contains(k.overflow, t) => k.wake[t] < k.tick
Alarm(k) == k.unblock \in Ticks /\ (k.delayed # <<>> => k.unblock <= k.wake[Head(k.delayed)])

(* The lists of who sleeps after t has been taken off them.                  *)
Without(k, j, t) ==
  /\ j.delayed = RemoveFirst(k.delayed, t) /\ j.overflow = RemoveFirst(k.overflow, t)
  /\ j.dead = RemoveFirst(k.dead, t) /\ j.suspended = k.suspended \ {t}
  /\ j.wake = [k.wake EXCEPT ![t] = 0]
LEMMA TimedWithout ==
  ASSUME NEW k, OtherLists(k), NEW j, NEW t \in Task, Without(k, j, t), j.tick = k.tick,
         j.unblock = k.unblock, NEW n, TimedFrom(k, n)
  PROVE  TimedFrom(j, n) /\ (Alarm(k) => Alarm(j))
<1>1. /\ k.wake \in [Task -> Ticks] /\ k.tick \in Ticks
      /\ Ordered(k.delayed, k.wake) /\ Ordered(k.overflow, k.wake)
      /\ \A u \in Task : Contains(k.delayed, u) => k.wake[u] >= n
      /\ \A u \in Task : Contains(k.overflow, u) => k.wake[u] < k.tick
  BY DEF TimedFrom
<1>2. 0 \in Ticks BY TaskListsAssumption DEF Ticks
<1>3. j.wake \in [Task -> Ticks] /\ \A u \in Task \ {t} : j.wake[u] = k.wake[u]
  BY <1>1, <1>2 DEF Without
<1>4. /\ k.delayed \in Seq(Task) /\ IsInjective(k.delayed)
      /\ k.overflow \in Seq(Task) /\ IsInjective(k.overflow)
  BY DEF OtherLists
<1>5. j.delayed = RemoveFirst(k.delayed, t) /\ j.overflow = RemoveFirst(k.overflow, t)
  BY DEF Without
<1>6. Ordered(j.delayed, j.wake)
  BY <1>1, <1>3, <1>4, <1>5, RemovedOrdered
<1>7. Ordered(j.overflow, j.wake)
  BY <1>1, <1>3, <1>4, <1>5, RemovedOrdered
<1>8. j.delayed # <<>> => k.delayed # <<>> /\ k.wake[Head(k.delayed)] <= j.wake[Head(j.delayed)]
  BY <1>1, <1>3, <1>4, <1>5, RemovedOrdered
<1>9. ~Contains(j.delayed, t) /\ \A u \in Task \ {t} : Contains(j.delayed, u) <=> Contains(k.delayed, u)
  BY <1>4, <1>5, Removed
<1>10. ~Contains(j.overflow, t) /\ \A u \in Task \ {t} : Contains(j.overflow, u) <=> Contains(k.overflow, u)
  BY <1>4, <1>5, Removed
<1>11. \A u \in Task : Contains(j.delayed, u) => j.wake[u] >= n
  BY <1>1, <1>3, <1>9
<1>12. \A u \in Task : Contains(j.overflow, u) => j.wake[u] < j.tick
  BY <1>1, <1>3, <1>10
<1>13. Alarm(k) => Alarm(j)
  <2>1. SUFFICES ASSUME Alarm(k), j.delayed # <<>>
                 PROVE  j.unblock <= j.wake[Head(j.delayed)]
    BY DEF Alarm
  <2>2. j.delayed \in Seq(Task) BY <1>4, <1>5, Removed
  <2>3. Head(j.delayed) \in Task BY <2>1, <2>2
  <2>4. k.delayed # <<>> /\ Head(k.delayed) \in Task BY <1>4, <1>8, <2>1
  <2>5. k.unblock \in Ticks /\ k.unblock <= k.wake[Head(k.delayed)] BY <2>1, <2>4 DEF Alarm
  <2>6. k.wake[Head(k.delayed)] \in Int /\ j.wake[Head(j.delayed)] \in Int /\ k.unblock \in Int
    BY <1>1, <1>3, <2>3, <2>4, <2>5 DEF Ticks
  <2> QED BY <1>8, <2>1, <2>5, <2>6
<1> QED BY <1>1, <1>3, <1>6, <1>7, <1>11, <1>12, <1>13 DEF TimedFrom

LEMMA UnlistWithout ==
  ASSUME NEW k, NEW t \in Task, SoundBut(k, t)
  PROVE  Without(k, Unlist(k, t), t)
<1>1. Unlist(k, t).wake = [k.wake EXCEPT ![t] = 0] BY UnlistWake DEF SoundBut, Shape
<1> QED BY <1>1, UnlistFields, Zenon DEF Without

LEMMA ReadyWithout ==
  ASSUME NEW k, NEW t \in Task, SoundBut(k, t)
  PROVE  Without(k, Ready(k, t), t)
<1> DEFINE m == Unlist(k, t)
<1>1. Without(k, m, t) /\ Sound(m) BY UnlistWithout, Unlisted
<1> HIDE DEF m
<1>2. Without(k, AddReady(m, t), t)
  <2> DEFINE n == AddReady(m, t)
  <2>1. /\ n.delayed = m.delayed /\ n.overflow = m.overflow /\ n.dead = m.dead
        /\ n.suspended = m.suspended /\ n.wake = m.wake
    BY <1>1, AddReadyFields
  <2> HIDE DEF n
  <2>2. Without(k, n, t) BY <1>1, <2>1 DEF Without
  <2> QED BY <2>2 DEF n
<1>3. Ready(k, t) = AddReady(m, t) BY DEF Ready, m
<1> QED BY <1>2, <1>3

LEMMA WakeUpWithout ==
  ASSUME NEW k, NEW t \in Task, Sound(k)
  PROVE  Without(k, WakeUp(k, t), t)
<1> DEFINE m == Unevent(k, t)
<1>1. Sound(m) /\ SameLists(k, m) BY Unevented
<1>2. m.wake = k.wake BY UneventFields DEF Sound
<1> HIDE DEF m
<1>3. Without(m, Ready(m, t), t) BY <1>1, SoundAnyway, ReadyWithout
<1>4. Without(k, Ready(m, t), t) BY <1>1, <1>2, <1>3 DEF Without, SameLists
<1>5. WakeUp(k, t) = Ready(m, t) BY DEF WakeUp, m
<1> QED BY <1>4, <1>5

-----------------------------------------------------------------------------
(* What a wake-up leaves as it is, whoever is woken and whatever it asks of  *)
(* the scheduler.                                                            *)
Steady(k, j) ==
  /\ j.cur = k.cur /\ j.number = k.number /\ j.order = k.order /\ j.flags = k.flags
  /\ j.prio = k.prio /\ j.base = k.base /\ j.held = k.held
  /\ j.nstate = k.nstate /\ j.nval = k.nval
  /\ j.tick = k.tick /\ j.ovf = k.ovf /\ j.pended = k.pended /\ j.susp = k.susp /\ j.pendsv = k.pendsv
LEMMA KeptSteady ==
  ASSUME NEW k, NEW j, Kept(k, j) PROVE Steady(k, j) /\ j.unblock = k.unblock /\ j.missed = k.missed
BY DEF Kept, Steady

(* Nobody comes on the pending ready list; a set of tasks is struck off it.  *)
Pend(k, u) == Contains(k.events["pending"], u)
Struck(k, j, S) ==
  /\ \A u : Pend(j, u) => Pend(k, u)
  /\ IsInjective(k.events["pending"]) =>
       IsInjective(j.events["pending"]) /\ \A u \in S : ~Pend(j, u)
LEMMA StruckMore ==
  ASSUME NEW k, NEW i, NEW j, NEW S, NEW R, Struck(k, i, S), Struck(i, j, R)
  PROVE  Struck(k, j, S \cup R)
BY DEF Struck
LEMMA StruckNone ==
  ASSUME NEW k, NEW j, j.events = k.events
  PROVE  Struck(k, j, {})
BY DEF Struck, Pend
LEMMA StruckOne ==
  ASSUME NEW k, NEW t \in Task, Sound(k)
  PROVE  Struck(k, WakeUp(k, t), {t})
<1> DEFINE m == Unevent(k, t)
           j == WakeUp(k, t)
<1>1. Sound(m) BY Unevented
<1>2. j.events = m.events BY <1>1, SoundAnyway, MadeReady DEF WakeUp
<1>3. m.events = [e \in EventLists \cup {"pending"} |-> RemoveFirst(k.events[e], t)]
  BY UneventFields DEF Sound
<1> HIDE DEF j, m
<1>4. j.events["pending"] = RemoveFirst(k.events["pending"], t) BY <1>2, <1>3
<1>5. k.events["pending"] \in Seq(Task) BY DEF Sound, Shape
<1> DEFINE q == k.events["pending"]
<1>6. q \in Seq(Task) /\ j.events["pending"] = RemoveFirst(q, t) BY <1>4, <1>5
<1>7. \A u : (Pend(j, u) <=> Contains(RemoveFirst(q, t), u)) /\ (Pend(k, u) <=> Contains(q, u))
  BY <1>6 DEF Pend
<1> HIDE DEF q
<1>8. /\ \A u : Contains(RemoveFirst(q, t), u) => Contains(q, u)
      /\ IsInjective(q) => IsInjective(RemoveFirst(q, t)) /\ ~Contains(RemoveFirst(q, t), t)
  BY <1>6, Removed
<1>9. (\A u : Pend(j, u) => Pend(k, u)) /\ (~Contains(RemoveFirst(q, t), t) => ~Pend(j, t))
  BY <1>7, <1>8
<1> QED BY <1>6, <1>8, <1>9 DEF Struck, j, q

(* The tasks of a set, and no others, have been woken.                       *)
Roused(k, j, S) ==
  /\ Sound(j) /\ Steady(k, j) /\ (Single(k) => Single(j)) /\ Struck(k, j, S)
  /\ \A u \in Task :
       /\ IsReady(j, u) <=> u \in S \/ IsReady(k, u)
       /\ Contains(j.delayed, u) <=> Contains(k.delayed, u) /\ u \notin S
       /\ Contains(j.overflow, u) <=> Contains(k.overflow, u) /\ u \notin S
       /\ Contains(j.dead, u) <=> Contains(k.dead, u) /\ u \notin S
       /\ u \in j.suspended <=> u \in k.suspended /\ u \notin S
       /\ u \notin S =>
            /\ j.wake[u] = k.wake[u]
            /\ \A e \in EventLists \cup {"pending"} : Contains(j.events[e], u) <=> Contains(k.events[e], u)
Awakened(k, j, S) ==
  /\ Roused(k, j, S) /\ j.unblock = k.unblock
  /\ \A n : TimedFrom(k, n) => TimedFrom(j, n)
  /\ \A n : TimedFrom(k, n) /\ Alarm(k) => Alarm(j)

LEMMA WakeUpWakes ==
  ASSUME NEW k, NEW t \in Task, Sound(k)
  PROVE  Awakened(k, WakeUp(k, t), {t}) /\ WakeUp(k, t).missed = k.missed
<1> DEFINE j == WakeUp(k, t)
<1>1. /\ Sound(j) /\ Kept(k, j)
      /\ \A e \in EventLists \cup {"pending"} : \A u :
           u # t => (Contains(j.events[e], u) <=> Contains(k.events[e], u))
      /\ \A u \in Task : IsReady(j, u) <=> u = t \/ IsReady(k, u)
      /\ Moved(k, j, t) /\ ~Elsewhere(j, t) /\ (Single(k) => Single(j))
  BY WokenUp
<1>2. Without(k, j, t) BY WakeUpWithout
<1> HIDE DEF j
<1>3. Steady(k, j) /\ j.unblock = k.unblock /\ j.missed = k.missed BY <1>1, KeptSteady
<1>4. \A n : TimedFrom(k, n) => TimedFrom(j, n)
  BY <1>2, <1>3, TimedWithout DEF Sound, Steady
<1>5. \A n : TimedFrom(k, n) /\ Alarm(k) => Alarm(j)
  BY <1>2, <1>3, TimedWithout DEF Sound, Steady
<1>6. ASSUME NEW u \in Task
      PROVE  /\ Contains(j.delayed, u) <=> Contains(k.delayed, u) /\ u \notin {t}
             /\ Contains(j.overflow, u) <=> Contains(k.overflow, u) /\ u \notin {t}
             /\ Contains(j.dead, u) <=> Contains(k.dead, u) /\ u \notin {t}
             /\ u \in j.suspended <=> u \in k.suspended /\ u \notin {t}
  BY <1>1 DEF Moved, Elsewhere
<1>7. \A u \in Task \ {t} : j.wake[u] = k.wake[u] BY <1>2 DEF Without, Sound, Shape
<1>8. Struck(k, j, {t}) BY StruckOne DEF j
<1> QED BY <1>1, <1>3, <1>4, <1>5, <1>6, <1>7, <1>8 DEF Awakened, Roused, j

LEMMA WokenNone ==
  ASSUME NEW k, Sound(k)
  PROVE  Awakened(k, k, {})
BY StruckNone DEF Awakened, Roused, Steady

LEMMA WokenMore ==
  ASSUME NEW k, NEW i, NEW j, NEW S, NEW R, Awakened(k, i, S), Awakened(i, j, R)
  PROVE  Awakened(k, j, S \cup R)
<1>1. Sound(j) /\ Steady(k, j) /\ j.unblock = k.unblock /\ (Single(k) => Single(j))
  BY DEF Awakened, Roused, Steady
<1>2. ASSUME NEW u \in Task
      PROVE  /\ IsReady(j, u) <=> u \in S \cup R \/ IsReady(k, u)
             /\ Contains(j.delayed, u) <=> Contains(k.delayed, u) /\ u \notin S \cup R
             /\ Contains(j.overflow, u) <=> Contains(k.overflow, u) /\ u \notin S \cup R
             /\ Contains(j.dead, u) <=> Contains(k.dead, u) /\ u \notin S \cup R
             /\ u \in j.suspended <=> u \in k.suspended /\ u \notin S \cup R
  BY DEF Awakened, Roused
<1>3. ASSUME NEW u \in Task, u \notin S \cup R, NEW e \in EventLists \cup {"pending"}
      PROVE  Contains(j.events[e], u) <=> Contains(k.events[e], u)
  <2>1. Contains(j.events[e], u) <=> Contains(i.events[e], u) BY <1>3 DEF Awakened, Roused
  <2>2. Contains(i.events[e], u) <=> Contains(k.events[e], u) BY <1>3 DEF Awakened, Roused
  <2> QED BY <2>1, <2>2
<1>4. \A n : TimedFrom(k, n) => TimedFrom(j, n) BY DEF Awakened, Roused
<1>5. \A n : TimedFrom(k, n) /\ Alarm(k) => Alarm(j) BY DEF Awakened, Roused
<1>6. \A u \in Task : u \notin S \cup R => j.wake[u] = k.wake[u] BY DEF Awakened, Roused
<1>7. Struck(k, j, S \cup R) BY StruckMore DEF Awakened, Roused
<1> QED BY <1>1, <1>2, <1>3, <1>4, <1>5, <1>6, <1>7 DEF Awakened, Roused

(* A loop over a list of tasks that wakes each of them.                      *)
LEMMA WakeAllOf ==
  ASSUME NEW k, Sound(k), NEW s \in Seq(Task)
  PROVE  LET j == FoldLeft(WakeUp, k, s)
         IN Awakened(k, j, Range(s)) /\ j.missed = k.missed
<1> DEFINE N == Len(s)
           j == FoldLeft(WakeUp, k, s)
<1>1. j = Waking!Fold(k, s)
  BY SMT DEF FoldLeft, MapThenFoldSet, Max, Waking!Fold, Waking!Greatest
<1>2. Waking!Unrolled(k, N, s, Waking!Fold(k, s))
  <2>1. N \in Nat /\ DOMAIN s = 1 .. N OBVIOUS
  <2> HIDE DEF N
  <2> QED BY <2>1, Waking!FoldTrace, Zenon
<1> HIDE DEF j
<1>3. PICK g : g[0] = k /\ (\A i \in 1 .. N : g[i] = WakeUp(g[i - 1], s[i])) /\ j = g[N]
  BY <1>1, <1>2, Zenon DEF Waking!Unrolled
<1> DEFINE Done(i) == {s[m] : m \in 1 .. i}
           T == {i \in Nat : i <= N => Awakened(k, g[i], Done(i)) /\ g[i].missed = k.missed}
<1>4. 0 \in T
  <2>1. Done(0) = {} OBVIOUS
  <2> QED BY <2>1, <1>3, WokenNone
<1>5. ASSUME NEW i \in Nat, i \in T PROVE i + 1 \in T
  <2>1. SUFFICES ASSUME i + 1 <= N
                 PROVE  Awakened(k, g[i + 1], Done(i + 1)) /\ g[i + 1].missed = k.missed
    OBVIOUS
  <2>2. Awakened(k, g[i], Done(i)) /\ g[i].missed = k.missed BY <1>5, <2>1
  <2>3. s[i + 1] \in Task BY <2>1
  <2>4. g[i + 1] = WakeUp(g[i], s[i + 1])
    <3>1. i + 1 \in 1 .. N /\ (i + 1) - 1 = i BY <2>1
    <3> QED BY <3>1, <1>3
  <2>5. Sound(g[i]) BY <2>2 DEF Awakened, Roused
  <2>6. Awakened(g[i], g[i + 1], {s[i + 1]}) /\ g[i + 1].missed = g[i].missed
    BY <2>3, <2>4, <2>5, WakeUpWakes
  <2>7. Done(i + 1) = Done(i) \cup {s[i + 1]} OBVIOUS
  <2> HIDE DEF Done
  <2> QED BY <2>2, <2>6, <2>7, WokenMore
<1> HIDE DEF T
<1>6. Nat \subseteq T BY <1>4, <1>5, Waking!SetInduction, Zenon
<1>7. N \in T /\ N \in Nat BY <1>6
<1>8. Awakened(k, g[N], Done(N)) /\ g[N].missed = k.missed BY <1>7 DEF T
<1>9. Done(N) = Range(s) BY DEF Range
<1> QED BY <1>3, <1>8, <1>9 DEF j

(* Only the flags of the scheduler differ: nobody has been woken.            *)
LEMMA FlagsOnly ==
  ASSUME NEW k, Sound(k), NEW j, DOMAIN j = Fields, SameLists(k, j), Steady(k, j),
         j.wake = k.wake, j.events = k.events, j.unblock = k.unblock
  PROVE  Awakened(k, j, {})
<1>1. /\ \A t : IsReady(j, t) <=> IsReady(k, t)
      /\ OtherLists(j) /\ Rings(j) /\ (Single(k) => Single(j))
  BY SameListsFacts DEF Sound, Steady
<1>2. Shape(j) BY DEF Sound, Shape, Steady, SameLists
<1>3. \A n : TimedFrom(k, n) => TimedFrom(j, n) BY DEF TimedFrom, SameLists, Steady
<1>4. \A n : TimedFrom(k, n) /\ Alarm(k) => Alarm(j) BY DEF Alarm, SameLists
<1>5. Struck(k, j, {}) BY StruckNone
<1> QED BY <1>1, <1>2, <1>3, <1>4, <1>5 DEF Awakened, Roused, Sound, SameLists

LEMMA MissedFields ==
  ASSUME NEW k, DOMAIN k = Fields, NEW b
  PROVE  LET j == [k EXCEPT !.missed = b]
         IN /\ DOMAIN j = Fields /\ SameLists(k, j) /\ Steady(k, j) /\ j.wake = k.wake
            /\ j.events = k.events /\ j.unblock = k.unblock /\ j.missed = b
BY DEF Fields, SameLists, Steady

LEMMA MissedOnly ==
  ASSUME NEW k, Sound(k), NEW b
  PROVE  Awakened(k, [k EXCEPT !.missed = b], {}) /\ [k EXCEPT !.missed = b].missed = b
<1> DEFINE j == [k EXCEPT !.missed = b]
<1>1. /\ DOMAIN j = Fields /\ SameLists(k, j) /\ Steady(k, j) /\ j.wake = k.wake
      /\ j.events = k.events /\ j.unblock = k.unblock /\ j.missed = b
  BY MissedFields DEF Sound, Shape
<1> HIDE DEF j
<1> QED BY <1>1, FlagsOnly DEF j

LEMMA MakeReadyWakes ==
  ASSUME NEW k, NEW t \in Task, Sound(k)
  PROVE  /\ Awakened(k, MakeReady(k, t), {t})
         /\ MakeReady(k, t).missed = (k.missed \/ k.prio[t] >= k.prio[k.cur])
<1> DEFINE i == WakeUp(k, t)
           b == k.missed \/ k.prio[t] >= k.prio[k.cur]
           j == [i EXCEPT !.missed = b]
<1>1. Awakened(k, i, {t}) /\ i.missed = k.missed BY WakeUpWakes
<1>2. MakeReady(k, t) = j
  <2>1. MakeReady(k, t) = [i EXCEPT !.missed = @ \/ k.prio[t] >= k.prio[k.cur]] BY DEF MakeReady
  <2> HIDE DEF i
  <2> QED BY <2>1, <1>1
<1> HIDE DEF i, b
<1>3. Awakened(i, j, {}) /\ j.missed = b BY <1>1, MissedOnly DEF Awakened, Roused
<1> HIDE DEF j
<1>4. Awakened(k, j, {t} \cup {}) BY <1>1, <1>3, WokenMore
<1>5. {t} \cup {} = {t} OBVIOUS
<1> QED BY <1>2, <1>3, <1>4, <1>5 DEF b

(* The pending ready list: a switch is due when a task in it is at least as  *)
(* urgent as the running one.                                                *)
AsUrgent(k, S) == \E u \in S : k.prio[u] >= k.prio[k.cur]
LEMMA MakeReadyAllOf ==
  ASSUME NEW k, Sound(k), k.missed \in BOOLEAN, NEW s \in Seq(Task)
  PROVE  LET j == FoldLeft(MakeReady, k, s)
         IN Awakened(k, j, Range(s)) /\ j.missed = (k.missed \/ AsUrgent(k, Range(s)))
<1> DEFINE N == Len(s)
           j == FoldLeft(MakeReady, k, s)
<1>1. j = Pending!Fold(k, s)
  BY SMT DEF FoldLeft, MapThenFoldSet, Max, Pending!Fold, Pending!Greatest
<1>2. Pending!Unrolled(k, N, s, Pending!Fold(k, s))
  <2>1. N \in Nat /\ DOMAIN s = 1 .. N OBVIOUS
  <2> HIDE DEF N
  <2> QED BY <2>1, Pending!FoldTrace, Zenon
<1> HIDE DEF j
<1>3. PICK g : g[0] = k /\ (\A i \in 1 .. N : g[i] = MakeReady(g[i - 1], s[i])) /\ j = g[N]
  BY <1>1, <1>2, Zenon DEF Pending!Unrolled
<1> DEFINE Done(i) == {s[m] : m \in 1 .. i}
           T == {i \in Nat : i <= N => /\ Awakened(k, g[i], Done(i))
                                       /\ g[i].missed = (k.missed \/ AsUrgent(k, Done(i)))}
<1>4. 0 \in T
  <2>1. Done(0) = {} OBVIOUS
  <2>2. ~AsUrgent(k, {}) BY DEF AsUrgent
  <2>3. k.missed = (k.missed \/ FALSE) OBVIOUS
  <2> HIDE DEF Done
  <2>4. Awakened(k, k, {}) BY WokenNone
  <2>5. k.missed = (k.missed \/ AsUrgent(k, {})) BY <2>2, <2>3
  <2> QED BY <2>1, <2>4, <2>5, <1>3
<1>5. ASSUME NEW i \in Nat, i \in T PROVE i + 1 \in T
  <2>1. SUFFICES ASSUME i + 1 <= N
                 PROVE  /\ Awakened(k, g[i + 1], Done(i + 1))
                        /\ g[i + 1].missed = (k.missed \/ AsUrgent(k, Done(i + 1)))
    OBVIOUS
  <2>2. Awakened(k, g[i], Done(i)) /\ g[i].missed = (k.missed \/ AsUrgent(k, Done(i))) BY <1>5, <2>1
  <2>3. s[i + 1] \in Task BY <2>1
  <2>4. g[i + 1] = MakeReady(g[i], s[i + 1])
    <3>1. i + 1 \in 1 .. N /\ (i + 1) - 1 = i BY <2>1
    <3> QED BY <3>1, <1>3
  <2>5. Sound(g[i]) BY <2>2 DEF Awakened, Roused
  <2>6. /\ Awakened(g[i], g[i + 1], {s[i + 1]})
        /\ g[i + 1].missed = (g[i].missed \/ g[i].prio[s[i + 1]] >= g[i].prio[g[i].cur])
    <3> DEFINE m == MakeReady(g[i], s[i + 1])
    <3>1. /\ Awakened(g[i], m, {s[i + 1]})
          /\ m.missed = (g[i].missed \/ g[i].prio[s[i + 1]] >= g[i].prio[g[i].cur])
      BY <2>3, <2>5, MakeReadyWakes, Zenon
    <3> HIDE DEF m
    <3>2. g[i + 1] = m BY <2>4 DEF m
    <3> QED BY <3>1, <3>2, Zenon
  <2>7. Done(i + 1) = Done(i) \cup {s[i + 1]} OBVIOUS
  <2> HIDE DEF Done
  <2>8. Awakened(k, g[i + 1], Done(i + 1)) BY <2>2, <2>6, <2>7, WokenMore
  <2>9. g[i].prio = k.prio /\ g[i].cur = k.cur BY <2>2 DEF Awakened, Roused, Steady
  <2>10. AsUrgent(k, Done(i + 1)) <=> AsUrgent(k, Done(i)) \/ k.prio[s[i + 1]] >= k.prio[k.cur]
    BY <2>7 DEF AsUrgent
  <2>11. g[i + 1].missed = (k.missed \/ AsUrgent(k, Done(i + 1)))
    <3> DEFINE urgent == k.prio[s[i + 1]] >= k.prio[k.cur]
    <3>1. g[i + 1].missed = ((k.missed \/ AsUrgent(k, Done(i))) \/ urgent) BY <2>2, <2>6, <2>9
    <3>2. AsUrgent(k, Done(i + 1)) \in BOOLEAN /\ AsUrgent(k, Done(i)) \in BOOLEAN /\ urgent \in BOOLEAN
      BY DEF AsUrgent
    <3>3. AsUrgent(k, Done(i + 1)) = (AsUrgent(k, Done(i)) \/ urgent) BY <2>10, <3>2, Zenon
    <3> HIDE DEF urgent
    <3>4. ((k.missed \/ AsUrgent(k, Done(i))) \/ urgent) = (k.missed \/ (AsUrgent(k, Done(i)) \/ urgent))
      OBVIOUS
    <3> QED BY <3>1, <3>3, <3>4, Zenon
  <2> QED BY <2>8, <2>11, Zenon
<1> HIDE DEF T
<1>6. Nat \subseteq T BY <1>4, <1>5, Pending!SetInduction, Zenon
<1>7. N \in T /\ N \in Nat BY <1>6
<1>8. Awakened(k, g[N], Done(N)) /\ g[N].missed = (k.missed \/ AsUrgent(k, Done(N))) BY <1>7 DEF T
<1>9. Done(N) = Range(s) BY DEF Range
<1> QED BY <1>3, <1>8, <1>9 DEF j

-----------------------------------------------------------------------------
(* The tick.                                                                 *)
LEMMA MinIsLeast ==
  ASSUME NEW T \in SUBSET Nat, T # {}
  PROVE  Min(T) \in T /\ \A y \in T : Min(T) <= y
<1>1. \E x \in T : \A y \in T : x <= y BY Waking!LeastMember
<1> QED BY <1>1 DEF Min

OnTime(k) == TimedFrom(k, k.tick + 1) /\ Alarm(k)
Dozes(k, t) == Contains(k.delayed, t) \/ Contains(k.overflow, t)

(* The tasks that are due are at the front of the delayed list.              *)
LEMMA DueFacts ==
  ASSUME NEW l \in Seq(Task), NEW w \in [Task -> Ticks], NEW now \in Ticks, Ordered(l, w)
  PROVE  LET later == {i \in DOMAIN l : w[l[i]] > now}
             due == SubSeq(l, 1, IF later = {} THEN Len(l) ELSE Min(later) - 1)
         IN /\ due \in Seq(Task)
            /\ \A u \in Task : u \in Range(due) <=> Contains(l, u) /\ w[u] <= now
            /\ \A i \in DOMAIN due : due[i] \in Range(due)
            /\ \A u \in Range(due) : u \in Task /\ \E i \in DOMAIN due : due[i] = u
<1> DEFINE later == {i \in DOMAIN l : w[l[i]] > now}
           n == IF later = {} THEN Len(l) ELSE Min(later) - 1
           due == SubSeq(l, 1, n)
<1>1. DOMAIN l = 1 .. Len(l) /\ Len(l) \in Nat OBVIOUS
<1>2. later \in SUBSET Nat BY <1>1
<1>3. n \in 0 .. Len(l) /\ \A i \in 1 .. Len(l) : i <= n <=> w[l[i]] <= now
  <2>1. \A i \in 1 .. Len(l) : w[l[i]] \in Int BY DEF Ticks
  <2>2. now \in Int BY DEF Ticks
  <2>3. CASE later = {}
    <3>1. n = Len(l) BY <2>3
    <3>2. \A i \in 1 .. Len(l) : ~(w[l[i]] > now) BY <2>3, <1>1
    <3> HIDE DEF n, later
    <3> QED BY <3>1, <3>2, <2>1, <2>2, <1>1
  <2>4. CASE later # {}
    <3>1. Min(later) \in later /\ \A y \in later : Min(later) <= y BY <2>4, <1>2, MinIsLeast
    <3>2. n = Min(later) - 1 BY <2>4
    <3> DEFINE m == Min(later)
    <3>3. m \in 1 .. Len(l) /\ w[l[m]] > now BY <3>1, <1>1
    <3>4. \A i \in 1 .. Len(l) : w[l[i]] > now => m <= i BY <3>1, <1>1
    <3>5. \A i \in 1 .. Len(l) : m <= i => w[l[m]] <= w[l[i]] BY <3>3 DEF Ordered
    <3> HIDE DEF m, n, later
    <3>6. n = m - 1 BY <3>2 DEF m
    <3>7. ASSUME NEW i \in 1 .. Len(l) PROVE i <= n <=> w[l[i]] <= now
      <4>1. i <= n <=> i < m BY <3>3, <3>6
      <4>2. m <= i => w[l[i]] > now BY <3>3, <3>5, <2>1, <2>2
      <4>3. w[l[i]] > now => m <= i BY <3>4
      <4>4. w[l[i]] > now <=> ~(w[l[i]] <= now) BY <2>1, <2>2
      <4> QED BY <4>1, <4>2, <4>3, <4>4, <3>3
    <3> QED BY <3>3, <3>6, <3>7
  <2> QED BY <2>3, <2>4
<1> HIDE DEF n
<1>4. /\ due \in Seq(Task) /\ Len(due) = n /\ DOMAIN due = 1 .. n
      /\ \A i \in 1 .. n : due[i] = l[i]
  BY <1>3
<1> HIDE DEF due
<1>5. Range(due) = {l[i] : i \in 1 .. n} BY <1>4 DEF Range
<1>6. ASSUME NEW u \in Task PROVE u \in Range(due) <=> Contains(l, u) /\ w[u] <= now
  <2>1. ASSUME u \in Range(due) PROVE Contains(l, u) /\ w[u] <= now
    <3>1. PICK i \in 1 .. n : u = l[i] BY <2>1, <1>5
    <3>2. i \in 1 .. Len(l) /\ i <= n BY <1>3
    <3> QED BY <3>1, <3>2, <1>3 DEF Contains
  <2>2. ASSUME Contains(l, u), w[u] <= now PROVE u \in Range(due)
    <3>1. PICK i \in 1 .. Len(l) : l[i] = u BY <2>2 DEF Contains
    <3>2. i \in 1 .. n BY <3>1, <2>2, <1>3
    <3> QED BY <3>1, <3>2, <1>5
  <2> QED BY <2>1, <2>2
<1>7. \A i \in DOMAIN due : due[i] \in Range(due) BY <1>4 DEF Range
<1>8. \A u \in Range(due) : u \in Task /\ \E i \in DOMAIN due : due[i] = u BY <1>4 DEF Range
<1> QED BY <1>4, <1>6, <1>7, <1>8 DEF due, n

LEMMA ResetUnblockFields ==
  ASSUME NEW k, DOMAIN k = Fields
  PROVE  LET j == ResetUnblock(k)
         IN /\ DOMAIN j = Fields /\ SameLists(k, j) /\ Steady(k, j) /\ j.wake = k.wake
            /\ j.events = k.events /\ j.missed = k.missed
            /\ j.unblock = IF k.delayed = <<>> THEN MaxDelay ELSE k.wake[Head(k.delayed)]
BY DEF ResetUnblock, Fields, SameLists, Steady

LEMMA UnblockReset ==
  ASSUME NEW k, Sound(k)
  PROVE  LET j == ResetUnblock(k)
         IN /\ Sound(j) /\ Steady(k, j) /\ SameLists(k, j) /\ j.wake = k.wake
            /\ j.events = k.events /\ j.missed = k.missed /\ (Single(k) => Single(j))
            /\ \A u \in Task : IsReady(j, u) <=> IsReady(k, u)
            /\ \A n : TimedFrom(k, n) => TimedFrom(j, n) /\ Alarm(j)
<1> DEFINE j == ResetUnblock(k)
<1>1. /\ DOMAIN j = Fields /\ SameLists(k, j) /\ Steady(k, j) /\ j.wake = k.wake
      /\ j.events = k.events /\ j.missed = k.missed
      /\ j.unblock = IF k.delayed = <<>> THEN MaxDelay ELSE k.wake[Head(k.delayed)]
  BY ResetUnblockFields DEF Sound, Shape
<1> HIDE DEF j
<1>2. /\ \A t : IsReady(j, t) <=> IsReady(k, t)
      /\ OtherLists(j) /\ Rings(j) /\ (Single(k) => Single(j))
  BY <1>1, SameListsFacts DEF Sound, Steady
<1>3. Shape(j) BY <1>1 DEF Sound, Shape, Steady, SameLists
<1>4. ASSUME NEW n, TimedFrom(k, n) PROVE TimedFrom(j, n) /\ Alarm(j)
  <2>1. TimedFrom(j, n) BY <1>1, <1>4 DEF TimedFrom, SameLists, Steady
  <2>2. MaxDelay \in Ticks BY TaskListsAssumption DEF MaxDelay, Ticks
  <2>3. k.delayed # <<>> => k.wake[Head(k.delayed)] \in Ticks
    <3>1. k.delayed \in Seq(Task) BY DEF Sound, OtherLists
    <3> QED BY <3>1, <1>4 DEF TimedFrom
  <2>4. j.unblock \in Ticks BY <1>1, <2>2, <2>3
  <2>5. j.delayed # <<>> => j.unblock <= j.wake[Head(j.delayed)]
    BY <1>1, <2>3 DEF SameLists, Ticks
  <2> QED BY <2>1, <2>4, <2>5 DEF Alarm
<1> QED BY <1>1, <1>2, <1>3, <1>4 DEF Sound, j

(* What no tick changes, and no other loop over the lists.                   *)
Routine(k, j) ==
  /\ j.cur = k.cur /\ j.number = k.number /\ j.order = k.order /\ j.flags = k.flags
  /\ j.prio = k.prio /\ j.base = k.base /\ j.held = k.held
  /\ j.nstate = k.nstate /\ j.nval = k.nval
SwitchesAs(k, j) == j.pended = k.pended /\ j.susp = k.susp /\ j.pendsv = k.pendsv
LEMMA SteadyRoutine ==
  ASSUME NEW k, NEW j, Steady(k, j) PROVE Routine(k, j) /\ SwitchesAs(k, j) /\ j.tick = k.tick
BY DEF Steady, Routine, SwitchesAs

(* The tick is counted, and when it wraps the delayed list, which is empty,  *)
(* and the overflow list change places.                                      *)
Counting(k, now) ==
  LET k1 == [k EXCEPT !.tick = now] IN IF now = 0 THEN SwitchDelayedLists(k1) ELSE k1
Reached(k, j, now) ==
  /\ DOMAIN j = Fields /\ Routine(k, j) /\ SwitchesAs(k, j) /\ j.missed = k.missed /\ j.tick = now
  /\ j.ready = k.ready /\ j.top = k.top /\ j.dead = k.dead /\ j.suspended = k.suspended
  /\ j.wake = k.wake /\ j.events = k.events

LEMMA NotWrapped ==
  ASSUME NEW k, DOMAIN k = Fields, NEW now, now # 0
  PROVE  LET j == Counting(k, now)
         IN /\ Reached(k, j, now) /\ j.delayed = k.delayed /\ j.overflow = k.overflow
            /\ j.unblock = k.unblock
BY DEF Counting, Reached, Fields, Routine, SwitchesAs

LEMMA SwapFields ==
  ASSUME NEW k, DOMAIN k = Fields, NEW v
  PROVE  LET j == [[k EXCEPT !.tick = 0] EXCEPT
                     !.delayed = k.overflow, !.overflow = k.delayed, !.ovf = v]
         IN Reached(k, j, 0) /\ j.delayed = k.overflow /\ j.overflow = k.delayed
BY DEF Reached, Fields, Routine, SwitchesAs
LEMMA Wrapped ==
  ASSUME NEW k, DOMAIN k = Fields
  PROVE  LET j == Counting(k, 0)
         IN /\ Reached(k, j, 0) /\ j.delayed = k.overflow /\ j.overflow = k.delayed
            /\ \E i : DOMAIN i = Fields /\ j = ResetUnblock(i)
<1> DEFINE v == (k.ovf + 1) % OverflowRange
           i == [[k EXCEPT !.tick = 0] EXCEPT
                   !.delayed = k.overflow, !.overflow = k.delayed, !.ovf = v]
           j == Counting(k, 0)
<1>1. j = ResetUnblock(i)
  BY DEF Counting, SwitchDelayedLists, Fields
<1> HIDE DEF v
<1>2. Reached(k, i, 0) /\ i.delayed = k.overflow /\ i.overflow = k.delayed BY SwapFields
<1> HIDE DEF i, j
<1>3. /\ DOMAIN j = Fields /\ SameLists(i, j) /\ Steady(i, j) /\ j.wake = i.wake
      /\ j.events = i.events /\ j.missed = i.missed
  BY <1>1, <1>2, ResetUnblockFields DEF Reached
<1>4. Reached(k, j, 0) BY <1>2, <1>3 DEF Reached, SameLists, Steady, Routine, SwitchesAs
<1> QED BY <1>1, <1>2, <1>3, <1>4 DEF SameLists, j, Reached

Good(k) == Sound(k) /\ Single(k) /\ OnTime(k)
NextTick(k) == (k.tick + 1) % TickRange

LEMMA NextTickFacts ==
  ASSUME NEW k, k.tick \in Ticks
  PROVE  /\ NextTick(k) \in Ticks
         /\ NextTick(k) # 0 => NextTick(k) = k.tick + 1
         /\ NextTick(k) = 0 => k.tick = TickRange - 1
<1>1. TickRange \in Nat \ {0, 1} BY TaskListsAssumption
<1>2. k.tick \in Nat /\ k.tick < TickRange BY <1>1 DEF Ticks
<1>3. CASE k.tick + 1 < TickRange
  <2>1. (k.tick + 1) % TickRange = k.tick + 1 BY <1>1, <1>2, <1>3
  <2> QED BY <1>1, <1>2, <1>3, <2>1 DEF NextTick, Ticks
<1>4. CASE k.tick + 1 = TickRange
  <2>1. (k.tick + 1) % TickRange = 0 BY <1>1, <1>2, <1>4
  <2> QED BY <1>1, <1>2, <1>4, <2>1 DEF NextTick, Ticks
<1> QED BY <1>1, <1>2, <1>3, <1>4

LEMMA CountingFacts ==
  ASSUME NEW k, Good(k)
  PROVE  LET now == NextTick(k)
             j == Counting(k, now)
         IN /\ Reached(k, j, now) /\ Sound(j) /\ Single(j) /\ TimedFrom(j, now) /\ Alarm(j)
            /\ \A u \in Task : IsReady(j, u) <=> IsReady(k, u)
            /\ \A u \in Task : Dozes(j, u) <=> Dozes(k, u)
<1> DEFINE now == NextTick(k)
           j == Counting(k, now)
           facts == /\ Reached(k, j, now) /\ Sound(j) /\ Single(j) /\ TimedFrom(j, now) /\ Alarm(j)
                    /\ \A u \in Task : IsReady(j, u) <=> IsReady(k, u)
                    /\ \A u \in Task : Dozes(j, u) <=> Dozes(k, u)
<1>1. /\ k.wake \in [Task -> Ticks] /\ k.tick \in Ticks
      /\ Ordered(k.delayed, k.wake) /\ Ordered(k.overflow, k.wake)
      /\ \A u \in Task : Contains(k.delayed, u) => k.wake[u] >= k.tick + 1
      /\ \A u \in Task : Contains(k.overflow, u) => k.wake[u] < k.tick
  BY DEF Good, OnTime, TimedFrom
<1>2. now \in Ticks /\ (now # 0 => now = k.tick + 1) /\ (now = 0 => k.tick = TickRange - 1)
  BY <1>1, NextTickFacts
<1>3. DOMAIN k = Fields BY DEF Good, Sound, Shape
<1>4. k.delayed \in Seq(Task) /\ k.overflow \in Seq(Task) BY DEF Good, Sound, OtherLists
<1>0. j = Counting(k, now) OBVIOUS
<1> HIDE DEF now, j
<1>5. ASSUME now # 0 PROVE facts
  <2>1. /\ Reached(k, j, now) /\ j.delayed = k.delayed /\ j.overflow = k.overflow
        /\ j.unblock = k.unblock
    BY <1>0, <1>3, <1>5, NotWrapped
  <2>2. SameLists(k, j) /\ j.wake = k.wake /\ j.tick = now BY <2>1 DEF SameLists, Reached
  <2>3. /\ \A u : IsReady(j, u) <=> IsReady(k, u)
        /\ OtherLists(j) /\ Rings(j) /\ Single(j)
    BY <2>1, <2>2, SameListsFacts DEF Good, Sound, Reached, Routine
  <2>4. Shape(j) BY <2>1 DEF Good, Sound, Shape, Reached, Routine
  <2>5. TimedFrom(j, now)
    <3>1. \A u \in Task : k.wake[u] \in Int BY <1>1 DEF Ticks
    <3>2. now = k.tick + 1 /\ k.tick \in Int BY <1>1, <1>2, <1>5 DEF Ticks
    <3>3. \A u \in Task : Contains(j.overflow, u) => j.wake[u] < j.tick
      BY <1>1, <2>1, <2>2, <3>1, <3>2
    <3> QED BY <1>1, <1>2, <2>1, <2>2, <3>2, <3>3 DEF TimedFrom
  <2>6. Alarm(j) BY <2>1, <2>2 DEF Good, OnTime, Alarm
  <2>7. \A u \in Task : Dozes(j, u) <=> Dozes(k, u) BY <2>1 DEF Dozes
  <2> QED BY <2>1, <2>3, <2>4, <2>5, <2>6, <2>7 DEF Sound
<1>6. ASSUME now = 0 PROVE facts
  <2>1. Reached(k, j, 0) /\ j.delayed = k.overflow /\ j.overflow = k.delayed
    BY <1>0, <1>3, <1>6, Wrapped
  <2>2. PICK i : DOMAIN i = Fields /\ j = ResetUnblock(i) BY <1>0, <1>3, <1>6, Wrapped
  <2>3. \A u \in Task : ~Contains(k.delayed, u)
    <3>1. \A u \in Task : k.wake[u] \in Ticks BY <1>1
    <3>2. \A x \in Ticks : ~(x >= k.tick + 1)
      BY <1>2, <1>6, TaskListsAssumption DEF Ticks
    <3> QED BY <1>1, <3>1, <3>2
  <2>4. k.delayed = <<>>
    <3>1. SUFFICES ASSUME k.delayed # <<>> PROVE FALSE OBVIOUS
    <3>2. 1 \in 1 .. Len(k.delayed) /\ k.delayed[1] \in Task BY <1>4, <3>1
    <3> QED BY <2>3, <3>2 DEF Contains
  <2>5. OtherLists(j) BY <2>1 DEF Reached, OtherLists, Good, Sound
  <2>6. Rings(j) /\ \A u : IsReady(j, u) <=> IsReady(k, u)
    BY <2>1 DEF Reached, Routine, Rings, IsReady, Good, Sound
  <2>7. Shape(j) BY <2>1 DEF Good, Sound, Shape, Reached, Routine
  <2>8. Single(j) BY <2>1, <2>6 DEF Good, Single, Elsewhere, Reached
  <2>9. TimedFrom(j, 0)
    <3>1. \A u \in Task : k.wake[u] >= 0 BY <1>1 DEF Ticks
    <3>2. 0 \in Ticks BY TaskListsAssumption DEF Ticks
    <3> QED BY <1>1, <2>1, <2>3, <3>1, <3>2 DEF TimedFrom, Reached
  <2>10. Alarm(j)
    <3>1. Sound(i)
      <4>1. SameLists(i, j) /\ Steady(i, j) /\ j.wake = i.wake /\ j.events = i.events
        BY <2>2, ResetUnblockFields
      <4>2. SameLists(j, i) /\ i.prio = j.prio BY <4>1 DEF SameLists, Steady
      <4>3. OtherLists(i) /\ Rings(i) BY <2>5, <2>6, <4>2, SameListsFacts
      <4>4. Shape(i) BY <2>2, <2>7, <4>1 DEF Shape, SameLists, Steady
      <4> QED BY <4>3, <4>4 DEF Sound
    <3>2. TimedFrom(i, 0)
      <4>1. SameLists(i, j) /\ Steady(i, j) /\ j.wake = i.wake
        BY <2>2, ResetUnblockFields
      <4> QED BY <2>9, <4>1 DEF TimedFrom, SameLists, Steady
    <3> QED BY <2>2, <3>1, <3>2, UnblockReset
  <2>11. \A u \in Task : Dozes(j, u) <=> Dozes(k, u) BY <2>1 DEF Dozes
  <2> QED BY <1>6, <2>1, <2>5, <2>6, <2>7, <2>8, <2>9, <2>10, <2>11 DEF Sound
<1>7. facts BY <1>5, <1>6
<1> QED BY <1>7 DEF now, j

(* The tasks of D, who slept, have been readied by the tick.                 *)
Lapsed(k, j, D) ==
  /\ Sound(j) /\ Single(j) /\ Routine(k, j) /\ SwitchesAs(k, j) /\ j.missed = k.missed
  /\ Struck(k, j, {})
  /\ \A u \in Task :
       /\ IsReady(j, u) <=> u \in D \/ IsReady(k, u)
       /\ Dozes(j, u) <=> Dozes(k, u) /\ u \notin D
       /\ Contains(j.dead, u) <=> Contains(k.dead, u)
       /\ u \in j.suspended <=> u \in k.suspended
       /\ u \notin D =>
            /\ j.wake[u] = k.wake[u]
            /\ \A e \in EventLists \cup {"pending"} : Contains(j.events[e], u) <=> Contains(k.events[e], u)

LEMMA WakeDueFacts ==
  ASSUME NEW k, Sound(k), Single(k), TimedFrom(k, k.tick)
  PROVE  LET j == WakeDue(k).kernel
             D == {u \in Task : Contains(k.delayed, u) /\ k.wake[u] <= k.tick}
         IN /\ Lapsed(k, j, D) /\ j.tick = k.tick /\ OnTime(j)
            /\ WakeDue(k).switch = AsUrgent(k, D)
            /\ DOMAIN WakeDue(k) = {"kernel", "switch"}
<1> DEFINE later == {i \in DOMAIN k.delayed : k.wake[k.delayed[i]] > k.tick}
           due == SubSeq(k.delayed, 1, IF later = {} THEN Len(k.delayed) ELSE Min(later) - 1)
           D == {u \in Task : Contains(k.delayed, u) /\ k.wake[u] <= k.tick}
           m == FoldLeft(WakeUp, k, due)
           j == ResetUnblock(m)
           switch == \E i \in DOMAIN due : k.prio[due[i]] >= k.prio[k.cur]
<1>1. WakeDue(k) = [kernel |-> j, switch |-> switch] BY DEF WakeDue
<1>2. /\ k.delayed \in Seq(Task) /\ k.wake \in [Task -> Ticks] /\ k.tick \in Ticks
      /\ Ordered(k.delayed, k.wake)
  BY DEF Sound, OtherLists, TimedFrom
<1>3. /\ due \in Seq(Task)
      /\ \A u \in Task : u \in Range(due) <=> Contains(k.delayed, u) /\ k.wake[u] <= k.tick
      /\ \A i \in DOMAIN due : due[i] \in Range(due)
      /\ \A u \in Range(due) : u \in Task /\ \E i \in DOMAIN due : due[i] = u
  BY <1>2, DueFacts, Zenon
<1> HIDE DEF due
<1>4. Range(due) = D
  <2>1. \A u : u \in D <=> u \in Task /\ Contains(k.delayed, u) /\ k.wake[u] <= k.tick OBVIOUS
  <2> HIDE DEF D
  <2>2. \A u : u \in Range(due) <=> u \in D BY <1>3, <2>1
  <2> QED BY <2>2
<1>5. switch <=> AsUrgent(k, D) BY <1>3, <1>4 DEF AsUrgent
<1>6. switch \in BOOLEAN /\ AsUrgent(k, D) \in BOOLEAN BY DEF AsUrgent
<1>6a. switch = AsUrgent(k, D) BY <1>5, <1>6
<1>7. Awakened(k, m, D) /\ m.missed = k.missed BY <1>3, <1>4, WakeAllOf
<1> HIDE DEF m
<1>8. /\ Sound(j) /\ Steady(m, j) /\ SameLists(m, j) /\ j.wake = m.wake
      /\ j.events = m.events /\ j.missed = m.missed /\ (Single(m) => Single(j))
      /\ \A u \in Task : IsReady(j, u) <=> IsReady(m, u)
      /\ \A n : TimedFrom(m, n) => TimedFrom(j, n) /\ Alarm(j)
  BY <1>7, UnblockReset DEF Awakened, Roused
<1> HIDE DEF j, D, switch
<1>9. D \subseteq Task /\ \A u \in D : Contains(k.delayed, u) BY DEF D
<1>10. Lapsed(k, j, D)
  <2>1. Sound(j) /\ Single(j) /\ j.missed = k.missed BY <1>7, <1>8 DEF Awakened, Roused
  <2>2. Routine(k, j) /\ SwitchesAs(k, j)
    BY <1>7, <1>8 DEF Awakened, Roused, Steady, Routine, SwitchesAs
  <2>3. ASSUME NEW u \in Task
        PROVE  /\ IsReady(j, u) <=> u \in D \/ IsReady(k, u)
               /\ Dozes(j, u) <=> Dozes(k, u) /\ u \notin D
               /\ Contains(j.dead, u) <=> Contains(k.dead, u)
               /\ u \in j.suspended <=> u \in k.suspended
    <3>1. /\ IsReady(m, u) <=> u \in D \/ IsReady(k, u)
          /\ Contains(m.delayed, u) <=> Contains(k.delayed, u) /\ u \notin D
          /\ Contains(m.overflow, u) <=> Contains(k.overflow, u) /\ u \notin D
          /\ Contains(m.dead, u) <=> Contains(k.dead, u) /\ u \notin D
          /\ u \in m.suspended <=> u \in k.suspended /\ u \notin D
      BY <1>7 DEF Awakened, Roused
    <3>2. u \in D => ~Contains(k.dead, u) /\ u \notin k.suspended BY <1>9 DEF Single
    <3> QED BY <1>8, <3>1, <3>2 DEF Dozes, SameLists
  <2>4. ASSUME NEW u \in Task, u \notin D
        PROVE  /\ j.wake[u] = k.wake[u]
               /\ \A e \in EventLists \cup {"pending"} : Contains(j.events[e], u) <=> Contains(k.events[e], u)
    BY <2>4, <1>7, <1>8 DEF Awakened, Roused
  <2>5. Struck(k, j, {}) BY <1>7, <1>8 DEF Awakened, Roused, Struck, Pend
  <2> QED BY <2>1, <2>2, <2>3, <2>4, <2>5 DEF Lapsed
<1>11. j.tick = k.tick /\ m.tick = k.tick BY <1>7, <1>8 DEF Awakened, Roused, Steady
<1>12. TimedFrom(m, k.tick + 1)
  <2>1. TimedFrom(m, k.tick) BY <1>7 DEF Awakened
  <2>2. ASSUME NEW u \in Task, Contains(m.delayed, u) PROVE m.wake[u] >= k.tick + 1
    <3>1. u \notin D /\ Contains(k.delayed, u) /\ m.wake[u] = k.wake[u]
      BY <1>7, <2>2 DEF Awakened, Roused
    <3>2. ~(k.wake[u] <= k.tick) BY <3>1 DEF D
    <3>3. k.wake[u] \in Int /\ k.tick \in Int BY <1>2 DEF Ticks
    <3> QED BY <3>1, <3>2, <3>3
  <2> QED BY <2>1, <2>2 DEF TimedFrom
<1>13. OnTime(j) BY <1>8, <1>11, <1>12 DEF OnTime
<1> HIDE DEF j
<1>14. WakeDue(k).kernel = j /\ WakeDue(k).switch = switch /\ DOMAIN WakeDue(k) = {"kernel", "switch"}
  BY <1>1
<1> QED BY <1>6a, <1>10, <1>11, <1>13, <1>14 DEF D

(* xTaskIncrementTick, when the scheduler is not suspended: those whose time *)
(* it is are readied, and a switch is asked for when one of them is at least *)
(* as urgent as the running task, or when one was asked for before.          *)
DueAt(k, now) == {u \in Task : Dozes(k, u) /\ k.wake[u] = now}
LEMMA TickCounted ==
  ASSUME NEW k, Good(k), ~(k.susp > 0), k.missed \in BOOLEAN
  PROVE  LET r == IncrementTick(k)
             now == NextTick(k)
         IN /\ Lapsed(k, r.kernel, DueAt(k, now)) /\ r.kernel.tick = now /\ OnTime(r.kernel)
            /\ r.switch \in BOOLEAN
            /\ AsUrgent(k, DueAt(k, now)) \/ k.missed => r.switch
<1> DEFINE now == NextTick(k)
           k2 == Counting(k, now)
           more(j) == ReadyCount(j, k.prio[k.cur]) > 1
           w == WakeDue(k2)
           D == DueAt(k, now)
           r == IncrementTick(k)
<1>1. r = IF now >= k2.unblock
            THEN [w EXCEPT !.switch = @ \/ more(w.kernel) \/ k.missed]
            ELSE [[kernel |-> k2, switch |-> FALSE] EXCEPT !.switch = @ \/ more(k2) \/ k.missed]
  BY DEF IncrementTick, Counting, NextTick
<1>2. /\ Reached(k, k2, now) /\ Sound(k2) /\ Single(k2) /\ TimedFrom(k2, now) /\ Alarm(k2)
      /\ \A u \in Task : IsReady(k2, u) <=> IsReady(k, u)
      /\ \A u \in Task : Dozes(k2, u) <=> Dozes(k, u)
  BY CountingFacts
<1> HIDE DEF r, k2, now
<1>3. k2.tick = now /\ k2.wake = k.wake /\ k2.prio = k.prio /\ k2.cur = k.cur
  BY <1>2 DEF Reached, Routine
<1>4. /\ k.wake \in [Task -> Ticks] /\ now \in Ticks
      /\ \A u \in Task : Contains(k2.delayed, u) => k.wake[u] >= now
      /\ \A u \in Task : Contains(k2.overflow, u) => k.wake[u] < now
      /\ Ordered(k2.delayed, k.wake)
  BY <1>2, <1>3 DEF TimedFrom
<1>5. \A u \in Task : u \in D <=> Contains(k2.delayed, u) /\ k.wake[u] <= now
  <2>1. now \in Int /\ \A u \in Task : k.wake[u] \in Int BY <1>4 DEF Ticks
  <2>2. TAKE u \in Task
  <2>3. u \in D <=> Dozes(k2, u) /\ k.wake[u] = now BY <1>2 DEF DueAt
  <2> HIDE DEF D
  <2> QED BY <2>1, <2>3, <1>4 DEF Dozes
<1>6. D \subseteq Task BY DEF DueAt
<1>7. CASE now >= k2.unblock
  <2> DEFINE E == {u \in Task : Contains(k2.delayed, u) /\ k2.wake[u] <= k2.tick}
  <2>1. /\ Lapsed(k2, w.kernel, E) /\ w.kernel.tick = now /\ OnTime(w.kernel)
        /\ w.switch = AsUrgent(k2, E) /\ DOMAIN w = {"kernel", "switch"}
    BY <1>2, <1>3, WakeDueFacts
  <2>2. E = D
    <3>1. \A u : u \in E <=> u \in Task /\ Contains(k2.delayed, u) /\ k.wake[u] <= now BY <1>3
    <3> HIDE DEF E, D
    <3> QED BY <3>1, <1>5, <1>6
  <2> HIDE DEF E, w, D
  <2>3. r = [w EXCEPT !.switch = @ \/ more(w.kernel) \/ k.missed] BY <1>1, <1>7
  <2>4. r.kernel = w.kernel /\ r.switch = (w.switch \/ more(w.kernel) \/ k.missed) BY <2>1, <2>3
  <2>11. Struck(k, r.kernel, {})
    BY <2>1, <2>4, <1>2 DEF Lapsed, Reached, Struck, Pend
  <2>5. Lapsed(k, r.kernel, D)
    BY <2>1, <2>2, <2>4, <2>11, <1>2 DEF Lapsed, Reached, Routine, SwitchesAs
  <2>6. AsUrgent(k2, E) <=> AsUrgent(k, D) BY <2>2, <1>3 DEF AsUrgent
  <2>7. AsUrgent(k2, E) \in BOOLEAN BY DEF AsUrgent
  <2> HIDE DEF more
  <2>8. w.switch \in BOOLEAN BY <2>1, <2>7
  <2>9. r.switch \in BOOLEAN /\ (w.switch \/ k.missed => r.switch) BY <2>4, <2>8
  <2>10. w.switch <=> AsUrgent(k, D) BY <2>1, <2>6, <2>7
  <2> QED BY <2>1, <2>4, <2>5, <2>9, <2>10 DEF r, now, D
<1>8. CASE ~(now >= k2.unblock)
  <2>1. r = [[kernel |-> k2, switch |-> FALSE] EXCEPT !.switch = @ \/ more(k2) \/ k.missed] BY <1>1, <1>8
  <2>2. r.kernel = k2 /\ r.switch = (FALSE \/ more(k2) \/ k.missed) BY <2>1
  <2>3. \A u \in Task : Contains(k2.delayed, u) => k.wake[u] >= now + 1
    <3>1. TAKE u \in Task
    <3>2. SUFFICES ASSUME Contains(k2.delayed, u) PROVE k.wake[u] >= now + 1 OBVIOUS
    <3>3. k2.delayed \in Seq(Task) BY <1>2 DEF Sound, OtherLists
    <3>4. PICK i \in 1 .. Len(k2.delayed) : k2.delayed[i] = u BY <3>2 DEF Contains
    <3>5. k2.delayed # <<>> /\ 1 \in 1 .. Len(k2.delayed) /\ Head(k2.delayed) = k2.delayed[1] BY <3>3, <3>4
    <3>6. k.wake[k2.delayed[1]] <= k.wake[u] BY <1>4, <3>4, <3>5 DEF Ordered
    <3>7. k2.unblock \in Ticks /\ k2.unblock <= k.wake[k2.delayed[1]] BY <1>2, <1>3, <3>5 DEF Alarm
    <3>8. k2.delayed[1] \in Task BY <3>3, <3>5
    <3>9. k.wake[u] \in Int /\ k.wake[k2.delayed[1]] \in Int /\ now \in Int /\ k2.unblock \in Int
      BY <1>4, <3>7, <3>8 DEF Ticks
    <3> QED BY <1>8, <3>6, <3>7, <3>9
  <2>4. \A u \in Task : u \notin D
    <3>1. now \in Int /\ \A u \in Task : k.wake[u] \in Int BY <1>4 DEF Ticks
    <3> HIDE DEF D
    <3> QED BY <1>5, <2>3, <3>1
  <2>5. D = {} BY <2>4, <1>6
  <2> HIDE DEF D
  <2>6. OnTime(k2) BY <1>2, <1>3, <2>3 DEF OnTime, TimedFrom
  <2>11. Struck(k, k2, {}) BY <1>2, StruckNone DEF Reached
  <2>7. Lapsed(k, k2, D) BY <1>2, <2>5, <2>11 DEF Lapsed, Reached
  <2>8. more(k2) \in BOOLEAN OBVIOUS
  <2> HIDE DEF more
  <2>9. r.switch \in BOOLEAN /\ (k.missed => r.switch) BY <2>2, <2>8
  <2>10. ~AsUrgent(k, D) BY <2>5 DEF AsUrgent
  <2> QED BY <1>3, <2>2, <2>6, <2>7, <2>9, <2>10 DEF r, now, D
<1> QED BY <1>7, <1>8

(* The scheduler has caught up with n ticks: who slept and was due at one of *)
(* them is ready, and a switch is asked for if it is urgent.                 *)
Caught(k, j) ==
  /\ Good(j) /\ Routine(k, j) /\ SwitchesAs(k, j) /\ j.missed \in BOOLEAN
  /\ (k.missed => j.missed) /\ Struck(k, j, {})
  /\ \A u \in Task :
       /\ IsReady(k, u) => IsReady(j, u)
       /\ IsReady(j, u) => IsReady(k, u) \/ Dozes(k, u)
       /\ IsReady(j, u) /\ ~IsReady(k, u) /\ k.prio[u] >= k.prio[k.cur] => j.missed
       /\ Dozes(j, u) => Dozes(k, u)
       /\ Dozes(k, u) => Dozes(j, u) \/ IsReady(j, u)
       /\ Contains(j.dead, u) <=> Contains(k.dead, u)
       /\ u \in j.suspended <=> u \in k.suspended
       /\ ~IsReady(j, u) =>
            /\ j.wake[u] = k.wake[u]
            /\ \A e \in EventLists \cup {"pending"} : Contains(j.events[e], u) <=> Contains(k.events[e], u)
(* Who sleeps on is due at none of the n ticks.                              *)
SleepsOn(k, n, u) == Dozes(k, u) /\ \A m \in 1 .. n : k.wake[u] # (k.tick + m) % TickRange

LEMMA CaughtNone ==
  ASSUME NEW k, Good(k), k.missed \in BOOLEAN
  PROVE  Caught(k, k) /\ \A u \in Task : Dozes(k, u) <=> SleepsOn(k, 0, u)
BY StruckNone DEF Caught, Routine, SwitchesAs, SleepsOn

LEMMA CaughtMore ==
  ASSUME NEW k, NEW i, NEW j, Caught(k, i), Caught(i, j)
  PROVE  Caught(k, j)
<1>1. Good(j) /\ Routine(k, j) /\ SwitchesAs(k, j) /\ j.missed \in BOOLEAN /\ (k.missed => j.missed)
  BY DEF Caught, Routine, SwitchesAs
<1>2. i.prio = k.prio /\ i.cur = k.cur BY DEF Caught, Routine
<1>3. ASSUME NEW u \in Task
      PROVE  /\ IsReady(k, u) => IsReady(j, u)
             /\ IsReady(j, u) => IsReady(k, u) \/ Dozes(k, u)
             /\ IsReady(j, u) /\ ~IsReady(k, u) /\ k.prio[u] >= k.prio[k.cur] => j.missed
             /\ Dozes(j, u) => Dozes(k, u)
             /\ Dozes(k, u) => Dozes(j, u) \/ IsReady(j, u)
             /\ Contains(j.dead, u) <=> Contains(k.dead, u)
             /\ u \in j.suspended <=> u \in k.suspended
  BY <1>2 DEF Caught
<1>4. ASSUME NEW u \in Task, ~IsReady(j, u)
      PROVE  /\ j.wake[u] = k.wake[u]
             /\ \A e \in EventLists \cup {"pending"} : Contains(j.events[e], u) <=> Contains(k.events[e], u)
  <2>1. ~IsReady(i, u) BY <1>4 DEF Caught
  <2> QED BY <1>4, <2>1 DEF Caught
<1>5. Struck(k, j, {}) BY DEF Caught, Struck
<1> QED BY <1>1, <1>3, <1>4, <1>5 DEF Caught

LEMMA ReplayedOne ==
  ASSUME NEW k, Good(k), ~(k.susp > 0), k.missed \in BOOLEAN, NEW nth
  PROVE  LET j == ReplayTick(k, nth)
         IN /\ Caught(k, j) /\ j.tick = NextTick(k)
            /\ \A u \in Task : Dozes(j, u) <=> Dozes(k, u) /\ k.wake[u] # NextTick(k)
<1> DEFINE r == IncrementTick(k)
           i == r.kernel
           now == NextTick(k)
           D == DueAt(k, now)
           b == i.missed \/ r.switch
           j == [i EXCEPT !.missed = b]
<1>1. ReplayTick(k, nth) = j BY DEF ReplayTick
<1>2. /\ Lapsed(k, i, D) /\ i.tick = now /\ OnTime(i) /\ r.switch \in BOOLEAN
      /\ AsUrgent(k, D) \/ k.missed => r.switch
  BY TickCounted
<1> HIDE DEF i, D, now
<1>3. i.missed = k.missed /\ Sound(i) /\ Single(i) BY <1>2 DEF Lapsed
<1>4. b \in BOOLEAN /\ (AsUrgent(k, D) \/ k.missed => b) BY <1>2, <1>3
<1> HIDE DEF b
<1>5. Awakened(i, j, {}) /\ j.missed = b BY <1>3, MissedOnly
<1>6. SameLists(i, j) /\ j.wake = i.wake /\ j.events = i.events /\ Steady(i, j)
  BY <1>3, MissedFields, Zenon DEF Sound, Shape
<1> HIDE DEF j
<1>7. Good(j)
  <2>1. Sound(j) /\ Single(j) /\ j.tick = i.tick BY <1>3, <1>5 DEF Awakened, Roused, Steady
  <2>2. OnTime(j) BY <1>2, <1>5, <2>1 DEF Awakened, OnTime
  <2> QED BY <2>1, <2>2 DEF Good
<1>8. j.tick = now BY <1>2, <1>6 DEF Steady
<1>9. Routine(k, j) /\ SwitchesAs(k, j) BY <1>2, <1>6 DEF Lapsed, Routine, SwitchesAs, Steady
<1>10. \A u \in Task : u \in D <=> Dozes(k, u) /\ k.wake[u] = now BY DEF D, DueAt
<1>11. ASSUME NEW u \in Task
       PROVE  /\ IsReady(j, u) <=> u \in D \/ IsReady(k, u)
              /\ Dozes(j, u) <=> Dozes(k, u) /\ u \notin D
              /\ Contains(j.dead, u) <=> Contains(k.dead, u)
              /\ u \in j.suspended <=> u \in k.suspended
  BY <1>2, <1>6 DEF Lapsed, SameLists, IsReady, Dozes
<1>12. ASSUME NEW u \in Task, u \notin D
       PROVE  /\ j.wake[u] = k.wake[u]
              /\ \A e \in EventLists \cup {"pending"} : Contains(j.events[e], u) <=> Contains(k.events[e], u)
  BY <1>12, <1>2, <1>6 DEF Lapsed
<1>13. \A u \in D : k.prio[u] >= k.prio[k.cur] => b BY <1>4 DEF AsUrgent
<1>15. Struck(k, j, {}) BY <1>2, <1>6 DEF Lapsed, Struck, Pend
<1>14. Caught(k, j)
  BY <1>4, <1>5, <1>7, <1>9, <1>10, <1>11, <1>12, <1>13, <1>15 DEF Caught
<1> QED BY <1>1, <1>8, <1>10, <1>11, <1>14 DEF now

(* The ticks that were counted while the scheduler was suspended.            *)
LEMMA ReplayedAll ==
  ASSUME NEW k, Good(k), ~(k.susp > 0), k.missed \in BOOLEAN, NEW n \in Nat
  PROVE  LET j == FoldLeft(ReplayTick, k, [i \in 1 .. n |-> i])
         IN /\ Caught(k, j) /\ j.tick = (k.tick + n) % TickRange
            /\ \A u \in Task : Dozes(j, u) <=> SleepsOn(k, n, u)
<1> DEFINE s == [i \in 1 .. n |-> i]
           j == FoldLeft(ReplayTick, k, s)
           now(i) == (k.tick + i) % TickRange
<1>1. j = Replay!Fold(k, s)
  BY SMT DEF FoldLeft, MapThenFoldSet, Max, Replay!Fold, Replay!Greatest
<1>2. Replay!Unrolled(k, n, s, Replay!Fold(k, s))
  <2>1. DOMAIN s = 1 .. n OBVIOUS
  <2> HIDE DEF s
  <2> QED BY <2>1, Replay!FoldTrace, Zenon
<1> HIDE DEF j
<1>3. PICK g : g[0] = k /\ (\A i \in 1 .. n : g[i] = ReplayTick(g[i - 1], s[i])) /\ j = g[n]
  BY <1>1, <1>2, Zenon DEF Replay!Unrolled
<1>4. k.tick \in Ticks /\ TickRange \in Nat \ {0}
  BY TaskListsAssumption DEF Good, OnTime, TimedFrom
<1>5. k.tick \in Int BY <1>4 DEF Ticks
<1> DEFINE done(i) == /\ Caught(k, g[i]) /\ g[i].tick = now(i)
                      /\ \A u \in Task : Dozes(g[i], u) <=> SleepsOn(k, i, u)
           T == {i \in Nat : i <= n => done(i)}
<1>6. 0 \in T
  <2>1. now(0) = k.tick
    <3>1. k.tick \in 0 .. TickRange - 1 BY <1>4 DEF Ticks
    <3>2. k.tick + 0 = 0 * TickRange + k.tick /\ k.tick + 0 \in Int BY <1>4, <1>5
    <3> QED BY <1>4, <3>1, <3>2, Residue
  <2> QED BY <2>1, <1>3, CaughtNone
<1>7. ASSUME NEW i \in Nat, i \in T PROVE i + 1 \in T
  <2>1. SUFFICES ASSUME i + 1 <= n PROVE done(i + 1) OBVIOUS
  <2>2. done(i) BY <1>7, <2>1
  <2>3. g[i + 1] = ReplayTick(g[i], s[i + 1])
    <3>1. i + 1 \in 1 .. n /\ (i + 1) - 1 = i BY <2>1
    <3> QED BY <3>1, <1>3
  <2>4. Good(g[i]) /\ ~(g[i].susp > 0) /\ g[i].missed \in BOOLEAN BY <2>2 DEF Caught, SwitchesAs
  <2> DEFINE m == ReplayTick(g[i], s[i + 1])
  <2>5. /\ Caught(g[i], m) /\ m.tick = NextTick(g[i])
        /\ \A u \in Task : Dozes(m, u) <=> Dozes(g[i], u) /\ g[i].wake[u] # NextTick(g[i])
    BY <2>4, ReplayedOne, Zenon
  <2> HIDE DEF m
  <2>6. g[i + 1] = m BY <2>3 DEF m
  <2>7. NextTick(g[i]) = now(i + 1)
    <3>1. (now(i) + 1) % TickRange = ((k.tick + i) + 1) % TickRange
      <4>1. k.tick + i \in Int BY <1>5
      <4> QED BY <4>1, <1>4, ModAdd
    <3>2. (k.tick + i) + 1 = k.tick + (i + 1) BY <1>5
    <3> QED BY <2>2, <3>1, <3>2 DEF NextTick
  <2>8. Caught(k, m) BY <2>2, <2>5, CaughtMore
  <2>9. ASSUME NEW u \in Task PROVE Dozes(m, u) <=> SleepsOn(k, i + 1, u)
    <3>1. Dozes(g[i], u) => g[i].wake[u] = k.wake[u]
      <4>1. Dozes(g[i], u) => ~IsReady(g[i], u) BY <2>4 DEF Good, Single, Dozes, Elsewhere
      <4> QED BY <4>1, <2>2 DEF Caught
    <3>2. Dozes(m, u) <=> SleepsOn(k, i, u) /\ k.wake[u] # now(i + 1)
      BY <2>2, <2>5, <2>7, <3>1
    <3>3. \A x \in 1 .. i + 1 : x \in 1 .. i \/ x = i + 1 OBVIOUS
    <3>4. \A x \in 1 .. i : x \in 1 .. i + 1 OBVIOUS
    <3>5. i + 1 \in 1 .. i + 1 OBVIOUS
    <3> QED BY <3>2, <3>3, <3>4, <3>5, Zenon DEF SleepsOn
  <2>10. m.tick = now(i + 1) BY <2>5, <2>7
  <2> QED BY <2>6, <2>8, <2>9, <2>10, Zenon
<1> HIDE DEF T
<1>8. Nat \subseteq T BY <1>6, <1>7, Replay!SetInduction, Zenon
<1>9. n \in T BY <1>8
<1>10. done(n) BY <1>9 DEF T
<1> QED BY <1>3, <1>10 DEF j

-----------------------------------------------------------------------------
(* A kernel of which only what the scheduler counts has changed.             *)
ListsAs(k, j) ==
  /\ DOMAIN j = Fields /\ SameLists(k, j) /\ j.wake = k.wake /\ j.events = k.events
  /\ j.tick = k.tick /\ j.unblock = k.unblock /\ j.prio = k.prio /\ j.base = k.base /\ j.cur = k.cur
LEMMA GoodAs ==
  ASSUME NEW k, NEW j, Good(k), ListsAs(k, j)
  PROVE  /\ Good(j)
         /\ \A u : IsReady(j, u) <=> IsReady(k, u)
         /\ \A u : Dozes(j, u) <=> Dozes(k, u)
         /\ \A u : Elsewhere(j, u) <=> Elsewhere(k, u)
<1>1. /\ \A u : IsReady(j, u) <=> IsReady(k, u)
      /\ \A u : Elsewhere(j, u) <=> Elsewhere(k, u)
      /\ OtherLists(j) /\ Rings(j) /\ Single(j)
  BY SameListsFacts DEF Good, Sound, ListsAs
<1>2. Shape(j) BY DEF Good, Sound, Shape, ListsAs, SameLists
<1>3. \A u : Dozes(j, u) <=> Dozes(k, u) BY DEF Dozes, ListsAs, SameLists
<1>4. OnTime(j) BY DEF Good, OnTime, TimedFrom, Alarm, ListsAs, SameLists
<1> QED BY <1>1, <1>2, <1>3, <1>4 DEF Good, Sound

LEMMA SuspFields ==
  ASSUME NEW k, DOMAIN k = Fields, NEW n
  PROVE  LET j == [k EXCEPT !.susp = n]
         IN /\ ListsAs(k, j) /\ Routine(k, j) /\ j.susp = n /\ j.pended = k.pended
            /\ j.missed = k.missed /\ j.pendsv = k.pendsv
BY DEF ListsAs, Fields, SameLists, Routine
LEMMA PendedFields ==
  ASSUME NEW k, DOMAIN k = Fields, NEW n
  PROVE  LET j == [k EXCEPT !.pended = n]
         IN /\ ListsAs(k, j) /\ Routine(k, j) /\ j.susp = k.susp /\ j.pended = n
            /\ j.missed = k.missed /\ j.pendsv = k.pendsv
BY DEF ListsAs, Fields, SameLists, Routine
LEMMA PendsvFields ==
  ASSUME NEW k, DOMAIN k = Fields, NEW b
  PROVE  LET j == [k EXCEPT !.pendsv = b]
         IN /\ ListsAs(k, j) /\ Routine(k, j) /\ j.susp = k.susp /\ j.pended = k.pended
            /\ j.missed = k.missed /\ j.pendsv = b
BY DEF ListsAs, Fields, SameLists, Routine
LEMMA JustMissedFields ==
  ASSUME NEW k, DOMAIN k = Fields, NEW b
  PROVE  LET j == [k EXCEPT !.missed = b]
         IN /\ ListsAs(k, j) /\ Routine(k, j) /\ j.susp = k.susp /\ j.pended = k.pended
            /\ j.missed = b /\ j.pendsv = k.pendsv
BY DEF ListsAs, Fields, SameLists, Routine

(* The tasks in the pending ready list are woken.                            *)
PendingMade(k, j) ==
  /\ Good(j) /\ Steady(k, j) /\ j.missed \in BOOLEAN /\ (k.missed => j.missed)
  /\ IsInjective(k.events["pending"]) => \A u : ~Pend(j, u)
  /\ \A u \in Task :
       /\ IsReady(j, u) <=> Pend(k, u) \/ IsReady(k, u)
       /\ Pend(k, u) /\ k.prio[u] >= k.prio[k.cur] => j.missed
       /\ Dozes(j, u) <=> Dozes(k, u) /\ ~Pend(k, u)
       /\ Contains(j.dead, u) <=> Contains(k.dead, u) /\ ~Pend(k, u)
       /\ u \in j.suspended <=> u \in k.suspended /\ ~Pend(k, u)
       /\ ~Pend(k, u) =>
            /\ j.wake[u] = k.wake[u]
            /\ \A e \in EventLists \cup {"pending"} : Contains(j.events[e], u) <=> Contains(k.events[e], u)
MakePending(k) ==
  LET m == FoldLeft(MakeReady, k, k.events["pending"])
  IN IF k.events["pending"] = <<>> THEN m ELSE ResetUnblock(m)

LEMMA PendingReadied ==
  ASSUME NEW k, Good(k), k.missed \in BOOLEAN
  PROVE  PendingMade(k, MakePending(k))
<1> DEFINE s == k.events["pending"]
           S == Range(s)
           m == FoldLeft(MakeReady, k, s)
           j == MakePending(k)
<1>1. j = IF s = <<>> THEN m ELSE ResetUnblock(m) BY DEF MakePending
<1>2. s \in Seq(Task) BY DEF Good, Sound, Shape
<1>3. \A u : u \in S <=> Pend(k, u)
  <2>1. S = {s[i] : i \in 1 .. Len(s)} BY <1>2 DEF Range
  <2> HIDE DEF S
  <2> QED BY <2>1 DEF Pend, Contains
<1>4. Awakened(k, m, S) /\ m.missed = (k.missed \/ AsUrgent(k, S))
  <2> HIDE DEF s
  <2> QED BY <1>2, MakeReadyAllOf DEF Good
<1> HIDE DEF m, S, s, j
<1>5. AsUrgent(k, S) \in BOOLEAN /\ \A u \in S : k.prio[u] >= k.prio[k.cur] => AsUrgent(k, S)
  BY DEF AsUrgent
<1>6. m.missed \in BOOLEAN /\ (k.missed => m.missed) /\ (AsUrgent(k, S) => m.missed) BY <1>4, <1>5
<1>7. Good(m)
  <2>1. TimedFrom(m, k.tick + 1) /\ Alarm(m) /\ m.tick = k.tick
    BY <1>4 DEF Awakened, Roused, Good, OnTime, Steady
  <2> QED BY <2>1, <1>4 DEF Good, Awakened, Roused, OnTime
<1>8. /\ Good(j) /\ Steady(m, j) /\ SameLists(m, j) /\ j.wake = m.wake /\ j.events = m.events
      /\ j.missed = m.missed
  <2>1. CASE s = <<>>
    <3>1. j = m BY <1>1, <2>1
    <3> QED BY <3>1, <1>7 DEF Steady, SameLists
  <2>2. CASE s # <<>>
    <3>1. j = ResetUnblock(m) BY <1>1, <2>2
    <3>2. /\ Sound(j) /\ Steady(m, j) /\ SameLists(m, j) /\ j.wake = m.wake
          /\ j.events = m.events /\ j.missed = m.missed /\ (Single(m) => Single(j))
          /\ \A n : TimedFrom(m, n) => TimedFrom(j, n) /\ Alarm(j)
      BY <3>1, <1>7, UnblockReset DEF Good
    <3>3. OnTime(j)
      <4>1. TimedFrom(m, m.tick + 1) /\ j.tick = m.tick BY <1>7, <3>2 DEF Good, OnTime, Steady
      <4> QED BY <3>2, <4>1 DEF OnTime
    <3> QED BY <3>2, <3>3, <1>7 DEF Good
  <2> QED BY <2>1, <2>2
<1>9. Steady(k, j) BY <1>4, <1>8 DEF Awakened, Roused, Steady
<1>10. ASSUME NEW u \in Task
       PROVE  /\ IsReady(j, u) <=> Pend(k, u) \/ IsReady(k, u)
              /\ Dozes(j, u) <=> Dozes(k, u) /\ ~Pend(k, u)
              /\ Contains(j.dead, u) <=> Contains(k.dead, u) /\ ~Pend(k, u)
              /\ u \in j.suspended <=> u \in k.suspended /\ ~Pend(k, u)
  <2>1. /\ IsReady(m, u) <=> Pend(k, u) \/ IsReady(k, u)
        /\ Contains(m.delayed, u) <=> Contains(k.delayed, u) /\ ~Pend(k, u)
        /\ Contains(m.overflow, u) <=> Contains(k.overflow, u) /\ ~Pend(k, u)
        /\ Contains(m.dead, u) <=> Contains(k.dead, u) /\ ~Pend(k, u)
        /\ u \in m.suspended <=> u \in k.suspended /\ ~Pend(k, u)
    BY <1>3, <1>4 DEF Awakened, Roused
  <2> QED BY <2>1, <1>8 DEF SameLists, Dozes, IsReady
<1>11. ASSUME NEW u \in Task, ~Pend(k, u)
       PROVE  /\ j.wake[u] = k.wake[u]
              /\ \A e \in EventLists \cup {"pending"} : Contains(j.events[e], u) <=> Contains(k.events[e], u)
  <2>1. u \notin S BY <1>3, <1>11
  <2> QED BY <2>1, <1>4, <1>8 DEF Awakened, Roused
<1>12. \A u \in Task : Pend(k, u) /\ k.prio[u] >= k.prio[k.cur] => j.missed
  BY <1>3, <1>5, <1>6, <1>8
<1>13. IsInjective(k.events["pending"]) => \A u : ~Pend(j, u)
  BY <1>3, <1>4, <1>8 DEF Awakened, Roused, Struck, Pend
<1> QED BY <1>6, <1>8, <1>9, <1>10, <1>11, <1>12, <1>13 DEF PendingMade, j

(* The scheduler, suspended once, runs again.                                *)
Resumed(k, j) ==
  /\ Good(j) /\ Routine(k, j) /\ j.susp = 0 /\ j.pended = 0
  /\ j.tick = (k.tick + k.pended) % TickRange
  /\ j.missed \in BOOLEAN /\ (k.missed => j.missed) /\ j.pendsv = (k.pendsv \/ j.missed)
  /\ IsInjective(k.events["pending"]) => j.events["pending"] = <<>>
  /\ \A u \in Task :
       /\ IsReady(k, u) \/ Pend(k, u) => IsReady(j, u)
       /\ IsReady(j, u) => IsReady(k, u) \/ Pend(k, u) \/ Dozes(k, u)
       /\ IsReady(j, u) /\ ~IsReady(k, u) /\ k.prio[u] >= k.prio[k.cur] => j.missed
       /\ Dozes(j, u) <=> SleepsOn(k, k.pended, u) /\ ~Pend(k, u)
       /\ Dozes(k, u) => Dozes(j, u) \/ IsReady(j, u)
       /\ Contains(j.dead, u) <=> Contains(k.dead, u) /\ ~Pend(k, u)
       /\ u \in j.suspended <=> u \in k.suspended /\ ~Pend(k, u)
       /\ ~IsReady(j, u) =>
            /\ j.wake[u] = k.wake[u]
            /\ \A e \in EventLists \cup {"pending"} : Contains(j.events[e], u) <=> Contains(k.events[e], u)

LEMMA ResumedNested ==
  ASSUME NEW k, Good(k), k.susp \in Nat, k.susp > 1
  PROVE  LET j == ResumeAll(k)
         IN /\ Good(j) /\ ListsAs(k, j) /\ Routine(k, j) /\ j.susp = k.susp - 1
            /\ j.pended = k.pended /\ j.missed = k.missed /\ j.pendsv = k.pendsv
<1> DEFINE j == [k EXCEPT !.susp = k.susp - 1]
<1>1. DOMAIN k = Fields BY DEF Good, Sound, Shape
<1>2. /\ ListsAs(k, j) /\ Routine(k, j) /\ j.susp = k.susp - 1 /\ j.pended = k.pended
      /\ j.missed = k.missed /\ j.pendsv = k.pendsv
  BY <1>1, SuspFields
<1>3. ResumeAll(k) = j
  <2>1. j.susp > 0 BY <1>2
  <2> QED BY <2>1 DEF ResumeAll
<1>4. Good(j) BY <1>2, GoodAs
<1> QED BY <1>2, <1>3, <1>4

LEMMA ResumedAll ==
  ASSUME NEW k, Good(k), k.susp = 1, k.pended \in Nat, k.missed \in BOOLEAN
  PROVE  Resumed(k, ResumeAll(k))
<1> DEFINE k1 == [k EXCEPT !.susp = k.susp - 1]
           k3 == MakePending(k1)
           k4 == FoldLeft(ReplayTick, k3, [i \in 1 .. k.pended |-> i])
           k5 == [k4 EXCEPT !.pended = 0]
           b == k5.pendsv \/ k5.missed
           j == [k5 EXCEPT !.pendsv = b]
<1>1. DOMAIN k = Fields BY DEF Good, Sound, Shape
<1>2. /\ ListsAs(k, k1) /\ Routine(k, k1) /\ k1.susp = 0 /\ k1.pended = k.pended
      /\ k1.missed = k.missed /\ k1.pendsv = k.pendsv
  BY <1>1, SuspFields
<1>3. ResumeAll(k) = j
  <2>1. ~(k1.susp > 0) BY <1>2
  <2>2. k1.events = k.events BY <1>2 DEF ListsAs
  <2> QED BY <2>1, <2>2 DEF ResumeAll, MakePending
<1> HIDE DEF k1
<1>4. /\ Good(k1)
      /\ \A u : IsReady(k1, u) <=> IsReady(k, u)
      /\ \A u : Dozes(k1, u) <=> Dozes(k, u)
  BY <1>2, GoodAs
<1>5. PendingMade(k1, k3) BY <1>2, <1>4, PendingReadied
<1> HIDE DEF k3
<1>6. Good(k3) /\ ~(k3.susp > 0) /\ k3.missed \in BOOLEAN /\ k3.tick = k.tick
  BY <1>2, <1>5 DEF PendingMade, Steady, ListsAs
<1>7. /\ Caught(k3, k4) /\ k4.tick = (k3.tick + k.pended) % TickRange
      /\ \A u \in Task : Dozes(k4, u) <=> SleepsOn(k3, k.pended, u)
  BY <1>6, ReplayedAll
<1> HIDE DEF k4
<1>8. DOMAIN k4 = Fields BY <1>7 DEF Caught, Good, Sound, Shape
<1>9. /\ ListsAs(k4, k5) /\ Routine(k4, k5) /\ k5.susp = k4.susp /\ k5.pended = 0
      /\ k5.missed = k4.missed /\ k5.pendsv = k4.pendsv
  BY <1>8, PendedFields
<1> HIDE DEF k5
<1>10. DOMAIN k5 = Fields BY <1>9 DEF ListsAs
<1> HIDE DEF b
<1>11. /\ ListsAs(k5, j) /\ Routine(k5, j) /\ j.susp = k5.susp /\ j.pended = k5.pended
       /\ j.missed = k5.missed /\ j.pendsv = b
  BY <1>10, PendsvFields
<1> HIDE DEF j
<1>12. ListsAs(k4, j) /\ Routine(k4, j) /\ j.susp = k4.susp /\ j.pended = 0 /\ j.missed = k4.missed
  BY <1>9, <1>11 DEF ListsAs, SameLists, Routine
<1>13. /\ Good(j)
       /\ \A u : IsReady(j, u) <=> IsReady(k4, u)
       /\ \A u : Dozes(j, u) <=> Dozes(k4, u)
  BY <1>7, <1>12, GoodAs DEF Caught
<1>14. j.pendsv = (k.pendsv \/ j.missed)
  <2>1. k4.pendsv = k.pendsv
    BY <1>2, <1>5, <1>7 DEF Caught, SwitchesAs, PendingMade, Steady
  <2> QED BY <2>1, <1>9, <1>11 DEF b
<1>15. Routine(k, j)
  BY <1>2, <1>5, <1>7, <1>12 DEF Routine, Caught, PendingMade, Steady
<1>16. j.susp = 0
  BY <1>2, <1>5, <1>7, <1>12 DEF Caught, SwitchesAs, PendingMade, Steady
<1>17. j.tick = (k.tick + k.pended) % TickRange BY <1>6, <1>7, <1>12 DEF ListsAs
<1>18. j.missed \in BOOLEAN /\ (k.missed => j.missed)
  BY <1>2, <1>5, <1>7, <1>12 DEF Caught, PendingMade
<1>19. k1.events = k.events /\ k1.wake = k.wake /\ k1.prio = k.prio /\ k1.cur = k.cur
       /\ k1.dead = k.dead /\ k1.suspended = k.suspended
  BY <1>2 DEF ListsAs, SameLists
<1>20. ASSUME NEW u \in Task
       PROVE  /\ IsReady(k3, u) <=> Pend(k, u) \/ IsReady(k, u)
              /\ Pend(k, u) /\ k.prio[u] >= k.prio[k.cur] => k3.missed
              /\ Dozes(k3, u) <=> Dozes(k, u) /\ ~Pend(k, u)
              /\ Contains(k3.dead, u) <=> Contains(k.dead, u) /\ ~Pend(k, u)
              /\ u \in k3.suspended <=> u \in k.suspended /\ ~Pend(k, u)
              /\ ~Pend(k, u) =>
                   /\ k3.wake[u] = k.wake[u]
                   /\ \A e \in EventLists \cup {"pending"} : Contains(k3.events[e], u) <=> Contains(k.events[e], u)
  BY <1>4, <1>5, <1>19 DEF PendingMade, Pend
<1>21. k3.prio = k.prio /\ k3.cur = k.cur BY <1>5, <1>19 DEF PendingMade, Steady
<1>22. ASSUME NEW u \in Task
       PROVE  /\ IsReady(k, u) \/ Pend(k, u) => IsReady(j, u)
              /\ IsReady(j, u) => IsReady(k, u) \/ Pend(k, u) \/ Dozes(k, u)
              /\ IsReady(j, u) /\ ~IsReady(k, u) /\ k.prio[u] >= k.prio[k.cur] => j.missed
              /\ Dozes(k, u) => Dozes(j, u) \/ IsReady(j, u)
              /\ Contains(j.dead, u) <=> Contains(k.dead, u) /\ ~Pend(k, u)
              /\ u \in j.suspended <=> u \in k.suspended /\ ~Pend(k, u)
  <2>1. /\ IsReady(k3, u) => IsReady(k4, u)
        /\ IsReady(k4, u) => IsReady(k3, u) \/ Dozes(k3, u)
        /\ IsReady(k4, u) /\ ~IsReady(k3, u) /\ k.prio[u] >= k.prio[k.cur] => k4.missed
        /\ k3.missed => k4.missed
        /\ Dozes(k3, u) => Dozes(k4, u) \/ IsReady(k4, u)
        /\ Contains(k4.dead, u) <=> Contains(k3.dead, u)
        /\ u \in k4.suspended <=> u \in k3.suspended
    BY <1>7, <1>21 DEF Caught
  <2>2. j.dead = k4.dead /\ j.suspended = k4.suspended BY <1>12 DEF ListsAs, SameLists
  <2> QED BY <2>1, <2>2, <1>12, <1>13, <1>20
<1>23. ASSUME NEW u \in Task PROVE Dozes(j, u) <=> SleepsOn(k, k.pended, u) /\ ~Pend(k, u)
  <2>1. Dozes(j, u) <=> SleepsOn(k3, k.pended, u) BY <1>7, <1>13
  <2> QED BY <2>1, <1>6, <1>20 DEF SleepsOn
<1>24. ASSUME NEW u \in Task, ~IsReady(j, u)
       PROVE  /\ j.wake[u] = k.wake[u]
              /\ \A e \in EventLists \cup {"pending"} : Contains(j.events[e], u) <=> Contains(k.events[e], u)
  <2>1. ~IsReady(k4, u) /\ ~IsReady(k3, u) /\ ~Pend(k, u)
    BY <1>7, <1>13, <1>20, <1>24 DEF Caught
  <2>2. j.wake = k4.wake /\ j.events = k4.events BY <1>12 DEF ListsAs
  <2> QED BY <2>1, <2>2, <1>7, <1>20 DEF Caught
<1>26. IsInjective(k.events["pending"]) => j.events["pending"] = <<>>
  <2>1. SUFFICES ASSUME IsInjective(k.events["pending"]) PROVE j.events["pending"] = <<>> OBVIOUS
  <2>2. \A u : ~Pend(k3, u) BY <2>1, <1>5, <1>19 DEF PendingMade
  <2>3. \A u : ~Pend(k4, u) BY <2>2, <1>7 DEF Caught, Struck
  <2>4. \A u : ~Contains(j.events["pending"], u) BY <2>3, <1>12 DEF Pend, ListsAs
  <2>5. j.events["pending"] \in Seq(Task) BY <1>13 DEF Good, Sound, Shape
  <2> HIDE DEF j
  <2> QED BY <2>4, <2>5, EmptyIfNothing
<1>25. Resumed(k, j)
  BY <1>26, <1>12, <1>13, <1>14, <1>15, <1>16, <1>17, <1>18, <1>22, <1>23, <1>24 DEF Resumed
<1> QED BY <1>3, <1>25

-----------------------------------------------------------------------------
(* A task is put into a list in the order of the values.                     *)
LEMMA InsertPlace ==
  ASSUME NEW S, NEW l \in Seq(S), NEW t \in S, NEW value
  PROVE  \E i \in 1 .. Len(l) + 1 :
           /\ ListInsert(l, t, value) = InsertAt(l, i, t)
           /\ \A m \in 1 .. Len(l) : m < i => ~(value[l[m]] > value[t])
           /\ i <= Len(l) => value[l[i]] > value[t]
<1> DEFINE greater == {m \in DOMAIN l : value[l[m]] > value[t]}
<1>1. ListInsert(l, t, value) = InsertAt(l, IF greater = {} THEN Len(l) + 1 ELSE Min(greater), t)
  BY DEF ListInsert
<1>2. DOMAIN l = 1 .. Len(l) /\ Len(l) \in Nat OBVIOUS
<1>3. greater \in SUBSET Nat BY <1>2
<1>4. CASE greater = {}
  <2>1. Len(l) + 1 \in 1 .. Len(l) + 1 BY <1>2
  <2>2. \A m \in 1 .. Len(l) : ~(value[l[m]] > value[t]) BY <1>2, <1>4
  <2>3. ~(Len(l) + 1 <= Len(l)) BY <1>2
  <2>4. ListInsert(l, t, value) = InsertAt(l, Len(l) + 1, t) BY <1>1, <1>4
  <2> HIDE DEF greater
  <2> QED BY <2>1, <2>2, <2>3, <2>4
<1>5. CASE greater # {}
  <2> DEFINE i == Min(greater)
  <2>1. i \in greater /\ \A y \in greater : i <= y BY <1>3, <1>5, MinIsLeast
  <2>2. ListInsert(l, t, value) = InsertAt(l, i, t) BY <1>1, <1>5
  <2> HIDE DEF i
  <2>3. i \in 1 .. Len(l) + 1 /\ value[l[i]] > value[t] BY <2>1, <1>2
  <2>4. ASSUME NEW m \in 1 .. Len(l), m < i PROVE ~(value[l[m]] > value[t])
    <3>1. SUFFICES ASSUME value[l[m]] > value[t] PROVE FALSE OBVIOUS
    <3>2. m \in greater BY <3>1, <1>2
    <3> QED BY <3>2, <2>1, <2>3, <2>4
  <2> QED BY <2>2, <2>3, <2>4
<1> QED BY <1>4, <1>5

LEMMA InsertedOrdered ==
  ASSUME NEW l \in Seq(Task), IsInjective(l), NEW t \in Task, ~Contains(l, t),
         NEW w \in [Task -> Ticks], Ordered(l, w)
  PROVE  LET r == ListInsert(l, t, w)
         IN /\ r \in Seq(Task) /\ IsInjective(r) /\ r # <<>> /\ Ordered(r, w)
            /\ \A y : Contains(r, y) <=> y = t \/ Contains(l, y)
            /\ Head(r) = t \/ (l # <<>> /\ Head(r) = Head(l))
<1> DEFINE r == ListInsert(l, t, w)
<1>1. PICK i \in 1 .. Len(l) + 1 :
        /\ r = InsertAt(l, i, t)
        /\ \A m \in 1 .. Len(l) : m < i => ~(w[l[m]] > w[t])
        /\ i <= Len(l) => w[l[i]] > w[t]
  BY InsertPlace
<1> HIDE DEF r
<1>2. /\ r \in Seq(Task) /\ Len(r) = Len(l) + 1
      /\ \A m \in 1 .. Len(l) + 1 : r[m] = IF m < i THEN l[m] ELSE IF m = i THEN t ELSE l[m - 1]
  <2>1. r = InsertAt(l, i, t) BY <1>1
  <2>2. /\ InsertAt(l, i, t) \in Seq(Task) /\ Len(InsertAt(l, i, t)) = Len(l) + 1
        /\ \A m \in 1 .. Len(l) + 1 :
             InsertAt(l, i, t)[m] = IF m < i THEN l[m] ELSE IF m = i THEN t ELSE l[m - 1]
    BY InsertAtFacts
  <2> QED BY <2>1, <2>2, Zenon
<1>3. /\ \A y : Contains(r, y) <=> y = t \/ Contains(l, y)
      /\ IsInjective(r)
  BY <1>1, Inserted
<1>4. w[t] \in Int /\ \A m \in 1 .. Len(l) : w[l[m]] \in Int BY DEF Ticks
<1>5. \A m \in 1 .. Len(l) : m < i => w[l[m]] <= w[t] BY <1>1, <1>4
<1>6. \A m \in 1 .. Len(l) : m >= i => w[t] <= w[l[m]]
  <2>1. TAKE m \in 1 .. Len(l)
  <2>2. SUFFICES ASSUME m >= i PROVE w[t] <= w[l[m]] OBVIOUS
  <2>3. i \in 1 .. Len(l) /\ w[l[i]] > w[t] BY <2>2, <1>1
  <2>4. w[l[i]] <= w[l[m]] BY <2>2, <2>3 DEF Ordered
  <2> QED BY <2>3, <2>4, <1>4
<1>7. ASSUME NEW m \in 1 .. Len(l) + 1, NEW n \in 1 .. Len(l) + 1, m < n
      PROVE  w[r[m]] <= w[r[n]]
  <2>1. CASE n < i
    <3>1. r[m] = l[m] /\ r[n] = l[n] /\ m \in 1 .. Len(l) /\ n \in 1 .. Len(l) BY <2>1, <1>2, <1>7
    <3> QED BY <3>1, <1>7 DEF Ordered
  <2>2. CASE n = i
    <3>1. r[m] = l[m] /\ r[n] = t /\ m \in 1 .. Len(l) /\ m < i BY <2>2, <1>2, <1>7
    <3> QED BY <3>1, <1>5
  <2>3. CASE n > i
    <3>1. r[n] = l[n - 1] /\ n - 1 \in 1 .. Len(l) /\ n - 1 >= i BY <2>3, <1>2
    <3>2. CASE m < i
      <4>1. r[m] = l[m] /\ m \in 1 .. Len(l) /\ m <= n - 1 BY <3>2, <2>3, <1>2
      <4> QED BY <4>1, <3>1 DEF Ordered
    <3>3. CASE m = i
      <4>1. r[m] = t BY <3>3, <1>2
      <4> QED BY <4>1, <3>1, <1>6
    <3>4. CASE m > i
      <4>1. r[m] = l[m - 1] /\ m - 1 \in 1 .. Len(l) /\ m - 1 <= n - 1 BY <3>4, <1>2, <1>7
      <4> QED BY <4>1, <3>1 DEF Ordered
    <3> QED BY <3>2, <3>3, <3>4
  <2> QED BY <2>1, <2>2, <2>3
<1>8. Ordered(r, w)
  <2>1. SUFFICES ASSUME NEW m \in 1 .. Len(l) + 1, NEW n \in 1 .. Len(l) + 1, m <= n
                 PROVE  w[r[m]] <= w[r[n]]
    <3>1. Len(r) = Len(l) + 1 BY <1>2
    <3> QED BY <3>1, Zenon DEF Ordered
  <2>2. CASE m < n BY <2>2, <1>7
  <2>3. CASE m = n
    <3>1. r[m] \in Task BY <1>2
    <3>2. w[r[m]] \in Int BY <3>1 DEF Ticks
    <3> QED BY <3>2, <2>3
  <2> QED BY <2>1, <2>2, <2>3
<1>9. r # <<>> /\ Head(r) = r[1] BY <1>2
<1>10. Head(r) = t \/ (l # <<>> /\ Head(r) = Head(l))
  <2>1. CASE i = 1 BY <2>1, <1>2, <1>9
  <2>2. CASE i > 1
    <3>1. r[1] = l[1] /\ l # <<>> BY <2>2, <1>2
    <3>2. Head(l) = l[1] BY <3>1
    <3> QED BY <3>1, <3>2, <1>9
  <2> QED BY <2>1, <2>2
<1> QED BY <1>2, <1>3, <1>8, <1>9, <1>10 DEF r

(* prvAddCurrentTaskToDelayedList: the running task leaves the ready list    *)
(* for the one it sleeps in, in its place among the others.                  *)
WakeAt(k, n) == (k.tick + n) % TickRange
ForEver(n, forever) == n = MaxDelay /\ forever
PutToSleep(k, j, n, forever) ==
  /\ Good(j) /\ Routine(k, j) /\ SwitchesAs(k, j) /\ j.missed = k.missed /\ j.tick = k.tick
  /\ j.events = k.events
  /\ ~IsReady(j, k.cur) /\ Moved(k, j, k.cur) /\ ~Contains(j.dead, k.cur)
  /\ IF ForEver(n, forever) THEN k.cur \in j.suspended /\ ~Dozes(j, k.cur)
     ELSE k.cur \notin j.suspended /\ Dozes(j, k.cur) /\ j.wake[k.cur] = WakeAt(k, n)
  /\ \A u \in Task \ {k.cur} : j.wake[u] = k.wake[u]

LEMMA WakeAtFacts ==
  ASSUME NEW k, k.tick \in Ticks, NEW n \in 1 .. MaxDelay
  PROVE  WakeAt(k, n) \in Ticks /\ WakeAt(k, n) # k.tick
<1> DEFINE s == k.tick + n
<1>1. TickRange \in Nat \ {0, 1} BY TaskListsAssumption
<1>2. k.tick \in 0 .. TickRange - 1 /\ n \in 1 .. TickRange - 1 BY DEF Ticks, MaxDelay
<1>3. CASE s < TickRange
  <2>1. s = 0 * TickRange + s /\ s \in 0 .. TickRange - 1 /\ s \in Int BY <1>1, <1>2, <1>3
  <2>2. s % TickRange = s BY <2>1, <1>1, Residue
  <2> QED BY <2>1, <2>2, <1>2 DEF WakeAt, Ticks
<1>4. CASE s >= TickRange
  <2>1. s = 1 * TickRange + (s - TickRange) /\ s - TickRange \in 0 .. TickRange - 1 /\ s \in Int
    BY <1>1, <1>2, <1>4
  <2>2. s % TickRange = s - TickRange BY <2>1, <1>1, Residue
  <2> QED BY <2>1, <2>2, <1>1, <1>2 DEF WakeAt, Ticks
<1> QED BY <1>1, <1>2, <1>3, <1>4

LEMMA OrderedWithout ==
  ASSUME NEW l \in Seq(Task), NEW t \in Task, ~Contains(l, t), NEW w, NEW x,
         \A y \in Task \ {t} : x[y] = w[y], Ordered(l, w)
  PROVE  Ordered(l, x) /\ (l # <<>> => x[Head(l)] = w[Head(l)])
<1>1. \A m \in 1 .. Len(l) : l[m] \in Task \ {t} BY DEF Contains
<1>2. Ordered(l, x) BY <1>1 DEF Ordered
<1>3. l # <<>> => x[Head(l)] = w[Head(l)]
  <2>1. l # <<>> => 1 \in 1 .. Len(l) /\ Head(l) = l[1] OBVIOUS
  <2> QED BY <2>1, <1>1
<1> QED BY <1>2, <1>3

(* The three places where a task that is in no list can sleep.               *)
LaidDown(k, j, t) ==
  /\ Good(j) /\ ~IsReady(j, t) /\ ~Contains(j.dead, t) /\ Moved(k, j, t)
  /\ Routine(k, j) /\ SwitchesAs(k, j) /\ j.missed = k.missed /\ j.tick = k.tick
  /\ j.events = k.events /\ \A u \in Task \ {t} : j.wake[u] = k.wake[u]

ForGood(k, t) == [k EXCEPT !.suspended = @ \cup {t}]
Timer(k, t, v) == [k EXCEPT !.wake[t] = v]
PastWrap(k, t, v) ==
  LET i == Timer(k, t, v) IN [i EXCEPT !.overflow = ListInsert(@, t, i.wake)]
ThisSide(k, t, v) ==
  LET i == Timer(k, t, v)
  IN [i EXCEPT !.delayed = ListInsert(@, t, i.wake), !.unblock = IF v < @ THEN v ELSE @]

LEMMA SleepsForEver ==
  ASSUME NEW k, Good(k), NEW t \in Task, ~InAList(k, t)
  PROVE  LET j == ForGood(k, t)
         IN LaidDown(k, j, t) /\ ~Dozes(j, t) /\ t \in j.suspended
<1> DEFINE j == ForGood(k, t)
<1>1. /\ DOMAIN j = Fields /\ Routine(k, j) /\ SwitchesAs(k, j) /\ j.missed = k.missed
      /\ j.tick = k.tick /\ j.events = k.events /\ j.wake = k.wake /\ j.unblock = k.unblock
      /\ j.ready = k.ready /\ j.top = k.top /\ j.delayed = k.delayed
      /\ j.overflow = k.overflow /\ j.dead = k.dead /\ j.suspended = k.suspended \cup {t}
  <2>1. DOMAIN k = Fields BY DEF Good, Sound, Shape
  <2> QED BY <2>1 DEF Fields, Routine, SwitchesAs, ForGood
<1> HIDE DEF j
<1>2. Shape(j) BY <1>1 DEF Good, Sound, Shape, Routine
<1>3. Rings(j) /\ \A u : IsReady(j, u) <=> IsReady(k, u)
  BY <1>1 DEF Good, Sound, Rings, Routine, IsReady
<1>4. OtherLists(j) BY <1>1 DEF Good, Sound, OtherLists
<1>5. Single(j) BY <1>1, <1>3 DEF Good, Single, InAList, Elsewhere
<1>6. OnTime(j) BY <1>1 DEF Good, OnTime, TimedFrom, Alarm
<1>7. Moved(k, j, t) BY <1>1, <1>3 DEF Moved
<1>8. ~Contains(j.dead, t) /\ ~Dozes(j, t) /\ ~IsReady(j, t)
  BY <1>1, <1>3 DEF InAList, Elsewhere, Dozes
<1> QED BY <1>1, <1>2, <1>3, <1>4, <1>5, <1>6, <1>7, <1>8 DEF LaidDown, Good, Sound, j

LEMMA SleepsPastWrap ==
  ASSUME NEW k, Good(k), NEW t \in Task, ~InAList(k, t), NEW v \in Ticks, v < k.tick
  PROVE  LET j == PastWrap(k, t, v)
         IN LaidDown(k, j, t) /\ Dozes(j, t) /\ t \notin j.suspended /\ j.wake[t] = v
<1> DEFINE j == PastWrap(k, t, v)
           w == [k.wake EXCEPT ![t] = v]
<1>1. /\ DOMAIN j = Fields /\ Routine(k, j) /\ SwitchesAs(k, j) /\ j.missed = k.missed
      /\ j.tick = k.tick /\ j.events = k.events /\ j.wake = w
      /\ j.ready = k.ready /\ j.top = k.top /\ j.dead = k.dead /\ j.suspended = k.suspended
      /\ j.delayed = k.delayed /\ j.unblock = k.unblock
      /\ j.overflow = ListInsert(k.overflow, t, w)
  <2>1. DOMAIN k = Fields BY DEF Good, Sound, Shape
  <2> QED BY <2>1 DEF Fields, Routine, SwitchesAs, PastWrap, Timer
<1> HIDE DEF j
<1>2. /\ k.delayed \in Seq(Task) /\ IsInjective(k.delayed)
      /\ k.overflow \in Seq(Task) /\ IsInjective(k.overflow)
      /\ ~Contains(k.delayed, t) /\ ~Contains(k.overflow, t)
  BY DEF Good, Sound, OtherLists, InAList, Elsewhere
<1>3. /\ k.wake \in [Task -> Ticks] /\ k.tick \in Ticks
      /\ Ordered(k.delayed, k.wake) /\ Ordered(k.overflow, k.wake)
      /\ \A u \in Task : Contains(k.delayed, u) => k.wake[u] >= k.tick + 1
      /\ \A u \in Task : Contains(k.overflow, u) => k.wake[u] < k.tick
  BY DEF Good, OnTime, TimedFrom
<1>4. w \in [Task -> Ticks] /\ w[t] = v /\ \A u \in Task \ {t} : w[u] = k.wake[u] BY <1>3
<1> HIDE DEF w
<1>5. /\ Ordered(k.delayed, w) /\ Ordered(k.overflow, w)
      /\ k.delayed # <<>> => w[Head(k.delayed)] = k.wake[Head(k.delayed)]
  BY <1>2, <1>3, <1>4, OrderedWithout
<1>6. /\ j.overflow \in Seq(Task) /\ IsInjective(j.overflow) /\ Ordered(j.overflow, w)
      /\ \A y : Contains(j.overflow, y) <=> y = t \/ Contains(k.overflow, y)
  BY <1>1, <1>2, <1>4, <1>5, InsertedOrdered
<1>7. Shape(j) BY <1>1, <1>4 DEF Good, Sound, Shape, Routine
<1>8. Rings(j) /\ \A u : IsReady(j, u) <=> IsReady(k, u)
  BY <1>1 DEF Good, Sound, Rings, Routine, IsReady
<1>9. OtherLists(j) BY <1>1, <1>6 DEF Good, Sound, OtherLists
<1>10. Single(j) BY <1>1, <1>6, <1>8 DEF Good, Single, InAList, Elsewhere
<1>11. TimedFrom(j, j.tick + 1)
  <2>1. \A u \in Task : Contains(j.delayed, u) => j.wake[u] >= j.tick + 1
    BY <1>1, <1>2, <1>3, <1>4
  <2>2. \A u \in Task : Contains(j.overflow, u) => j.wake[u] < j.tick
    BY <1>1, <1>3, <1>4, <1>6
  <2> QED BY <1>1, <1>3, <1>4, <1>5, <1>6, <2>1, <2>2 DEF TimedFrom
<1>12. Alarm(j) BY <1>1, <1>5 DEF Good, OnTime, Alarm
<1>13. Moved(k, j, t) BY <1>1, <1>6, <1>8 DEF Moved
<1>14. ~Contains(j.dead, t) /\ Dozes(j, t) /\ ~IsReady(j, t) /\ t \notin j.suspended
  BY <1>1, <1>6, <1>8 DEF InAList, Elsewhere, Dozes
<1>15. j.wake[t] = v /\ \A u \in Task \ {t} : j.wake[u] = k.wake[u] BY <1>1, <1>4
<1> QED BY <1>7, <1>8, <1>9, <1>10, <1>11, <1>1, <1>12, <1>13, <1>14, <1>15 DEF LaidDown, Good, Sound, OnTime, j

LEMMA SleepsThisSide ==
  ASSUME NEW k, Good(k), NEW t \in Task, ~InAList(k, t), NEW v \in Ticks, v > k.tick
  PROVE  LET j == ThisSide(k, t, v)
         IN LaidDown(k, j, t) /\ Dozes(j, t) /\ t \notin j.suspended /\ j.wake[t] = v
<1> DEFINE j == ThisSide(k, t, v)
           w == [k.wake EXCEPT ![t] = v]
<1>1. /\ DOMAIN j = Fields /\ Routine(k, j) /\ SwitchesAs(k, j) /\ j.missed = k.missed
      /\ j.tick = k.tick /\ j.events = k.events /\ j.wake = w
      /\ j.ready = k.ready /\ j.top = k.top /\ j.dead = k.dead /\ j.suspended = k.suspended
      /\ j.overflow = k.overflow /\ j.unblock = IF v < k.unblock THEN v ELSE k.unblock
      /\ j.delayed = ListInsert(k.delayed, t, w)
  <2>1. DOMAIN k = Fields BY DEF Good, Sound, Shape
  <2> QED BY <2>1 DEF Fields, Routine, SwitchesAs, ThisSide, Timer
<1> HIDE DEF j
<1>2. /\ k.delayed \in Seq(Task) /\ IsInjective(k.delayed)
      /\ k.overflow \in Seq(Task) /\ IsInjective(k.overflow)
      /\ ~Contains(k.delayed, t) /\ ~Contains(k.overflow, t)
  BY DEF Good, Sound, OtherLists, InAList, Elsewhere
<1>3. /\ k.wake \in [Task -> Ticks] /\ k.tick \in Ticks
      /\ Ordered(k.delayed, k.wake) /\ Ordered(k.overflow, k.wake)
      /\ \A u \in Task : Contains(k.delayed, u) => k.wake[u] >= k.tick + 1
      /\ \A u \in Task : Contains(k.overflow, u) => k.wake[u] < k.tick
  BY DEF Good, OnTime, TimedFrom
<1>4. w \in [Task -> Ticks] /\ w[t] = v /\ \A u \in Task \ {t} : w[u] = k.wake[u] BY <1>3
<1> HIDE DEF w
<1>5. /\ Ordered(k.delayed, w) /\ Ordered(k.overflow, w)
      /\ k.delayed # <<>> => w[Head(k.delayed)] = k.wake[Head(k.delayed)]
  BY <1>2, <1>3, <1>4, OrderedWithout
<1>6. /\ j.delayed \in Seq(Task) /\ IsInjective(j.delayed) /\ Ordered(j.delayed, w)
      /\ \A y : Contains(j.delayed, y) <=> y = t \/ Contains(k.delayed, y)
      /\ Head(j.delayed) = t \/ (k.delayed # <<>> /\ Head(j.delayed) = Head(k.delayed))
  BY <1>1, <1>2, <1>4, <1>5, InsertedOrdered
<1>7. Shape(j) BY <1>1, <1>4 DEF Good, Sound, Shape, Routine
<1>8. Rings(j) /\ \A u : IsReady(j, u) <=> IsReady(k, u)
  BY <1>1 DEF Good, Sound, Rings, Routine, IsReady
<1>9. OtherLists(j) BY <1>1, <1>6 DEF Good, Sound, OtherLists
<1>10. Single(j) BY <1>1, <1>6, <1>8 DEF Good, Single, InAList, Elsewhere
<1>11. TimedFrom(j, j.tick + 1)
  <2>1. v >= k.tick + 1 BY <1>3 DEF Ticks
  <2>2. \A u \in Task : Contains(j.delayed, u) => j.wake[u] >= j.tick + 1
    BY <1>1, <1>3, <1>4, <1>6, <2>1
  <2>3. \A u \in Task : Contains(j.overflow, u) => j.wake[u] < j.tick
    BY <1>1, <1>2, <1>3, <1>4
  <2> QED BY <1>1, <1>3, <1>4, <1>5, <1>6, <2>2, <2>3 DEF TimedFrom
<1>12. Alarm(j)
  <2>1. k.unblock \in Ticks /\ (k.delayed # <<>> => k.unblock <= k.wake[Head(k.delayed)])
    BY DEF Good, OnTime, Alarm
  <2>2. j.unblock \in Ticks /\ j.unblock <= k.unblock /\ j.unblock <= v BY <1>1, <2>1 DEF Ticks
  <2>3. k.delayed # <<>> => k.wake[Head(k.delayed)] \in Ticks
    <3>1. k.delayed # <<>> => Head(k.delayed) \in Task BY <1>2
    <3> QED BY <3>1, <1>3
  <2>4. j.unblock <= w[Head(j.delayed)]
    <3>1. CASE Head(j.delayed) = t BY <3>1, <1>4, <2>2
    <3>2. CASE k.delayed # <<>> /\ Head(j.delayed) = Head(k.delayed)
      <4>1. w[Head(j.delayed)] = k.wake[Head(k.delayed)] BY <3>2, <1>5
      <4>2. j.unblock \in Int /\ k.unblock \in Int /\ k.wake[Head(k.delayed)] \in Int
        BY <3>2, <2>1, <2>2, <2>3 DEF Ticks
      <4> QED BY <4>1, <4>2, <3>2, <2>1, <2>2
    <3> QED BY <3>1, <3>2, <1>6
  <2> QED BY <1>1, <2>2, <2>4 DEF Alarm
<1>13. Moved(k, j, t) BY <1>1, <1>6, <1>8 DEF Moved
<1>14. ~Contains(j.dead, t) /\ Dozes(j, t) /\ ~IsReady(j, t) /\ t \notin j.suspended
  BY <1>1, <1>6, <1>8 DEF InAList, Elsewhere, Dozes
<1>15. j.wake[t] = v /\ \A u \in Task \ {t} : j.wake[u] = k.wake[u] BY <1>1, <1>4
<1> QED BY <1>1, <1>7, <1>8, <1>9, <1>10, <1>11, <1>12, <1>13, <1>14, <1>15 DEF LaidDown, Good, Sound, OnTime, j

(* prvAddCurrentTaskToDelayedList.                                           *)
LEMMA CurrentSleeps ==
  ASSUME NEW k, Good(k), NEW n \in 1 .. MaxDelay, NEW forever
  PROVE  PutToSleep(k, AddCurrentToDelayed(k, n, forever), n, forever)
<1> DEFINE t == k.cur
           i == Unlist(k, t)
           v == WakeAt(k, n)
           a == ForGood(i, t)
           b == PastWrap(i, t, v)
           c == ThisSide(i, t, v)
           j == AddCurrentToDelayed(k, n, forever)
<1>0. SUFFICES PutToSleep(k, j, n, forever) OBVIOUS
<1>1. j = IF ForEver(n, forever) THEN a ELSE IF v < k.tick THEN b ELSE c
  BY DEF AddCurrentToDelayed, ForEver, WakeAt, ForGood, Timer, PastWrap, ThisSide
<1>2. t \in Task /\ k.tick \in Ticks BY DEF Good, Sound, Shape, OnTime, TimedFrom
<1>3. v \in Ticks /\ v # k.tick BY <1>2, WakeAtFacts
<1> HIDE DEF v, j
<1>4. /\ Sound(i) /\ Kept(k, i) /\ i.events = k.events /\ ~InAList(i, t) /\ Moved(k, i, t)
      /\ Single(i) /\ Without(k, i, t)
  BY <1>2, SoundAnyway, Unlisted, UnlistWithout DEF Good
<1>5. i.tick = k.tick /\ i.unblock = k.unblock /\ i.missed = k.missed BY <1>4 DEF Kept
<1>6. Routine(k, i) /\ SwitchesAs(k, i) BY <1>4, KeptSteady, SteadyRoutine
<1>7. TimedFrom(i, k.tick + 1) /\ Alarm(i)
  BY <1>2, <1>4, <1>5, TimedWithout DEF Good, Sound, OnTime
<1>8. Good(i) BY <1>4, <1>5, <1>7 DEF Good, OnTime
<1>9. \A u \in Task \ {t} : i.wake[u] = k.wake[u]
  BY <1>4, <1>2 DEF Without, Good, OnTime, TimedFrom
<1> HIDE DEF i, t
<1>10. ASSUME NEW x, LaidDown(i, x, t)
       PROVE  /\ Good(x) /\ Routine(k, x) /\ SwitchesAs(k, x) /\ x.missed = k.missed
              /\ x.tick = k.tick /\ x.events = k.events /\ ~IsReady(x, t) /\ Moved(k, x, t)
              /\ ~Contains(x.dead, t) /\ \A u \in Task \ {t} : x.wake[u] = k.wake[u]
  <2>1. /\ Good(x) /\ x.missed = k.missed /\ x.tick = k.tick /\ x.events = k.events
        /\ ~IsReady(x, t) /\ ~Contains(x.dead, t)
    BY <1>10, <1>4, <1>5 DEF LaidDown
  <2>2. Routine(k, x) BY <1>10, <1>6 DEF LaidDown, Routine
  <2>3. SwitchesAs(k, x) BY <1>10, <1>6 DEF LaidDown, SwitchesAs
  <2>4. Moved(k, x, t) BY <1>10, <1>4 DEF LaidDown, Moved
  <2>5. \A u \in Task \ {t} : x.wake[u] = k.wake[u] BY <1>10, <1>9 DEF LaidDown
  <2> QED BY <2>1, <2>2, <2>3, <2>4, <2>5
<1>11. CASE ForEver(n, forever)
  <2>1. LaidDown(i, a, t) /\ ~Dozes(a, t) /\ t \in a.suspended
    BY <1>2, <1>4, <1>8, SleepsForEver
  <2>2. j = a BY <1>1, <1>11
  <2> HIDE DEF a
  <2>3. LaidDown(i, j, t) /\ ~Dozes(j, t) /\ t \in j.suspended BY <2>1, <2>2
  <2> QED BY <2>3, <1>10, <1>11 DEF PutToSleep, t
<1>12. CASE ~ForEver(n, forever) /\ v < k.tick
  <2>1. LaidDown(i, b, t) /\ Dozes(b, t) /\ t \notin b.suspended /\ b.wake[t] = v
    BY <1>2, <1>3, <1>4, <1>5, <1>8, <1>12, SleepsPastWrap
  <2>2. j = b BY <1>1, <1>12
  <2> HIDE DEF b
  <2>3. LaidDown(i, j, t) /\ Dozes(j, t) /\ t \notin j.suspended /\ j.wake[t] = v BY <2>1, <2>2
  <2> QED BY <2>3, <1>10, <1>12 DEF PutToSleep, t, v
<1>13. CASE ~ForEver(n, forever) /\ ~(v < k.tick)
  <2>1. v > k.tick BY <1>2, <1>3, <1>13 DEF Ticks
  <2>2. LaidDown(i, c, t) /\ Dozes(c, t) /\ t \notin c.suspended /\ c.wake[t] = v
    BY <2>1, <1>2, <1>3, <1>4, <1>5, <1>8, SleepsThisSide
  <2>3. j = c BY <1>1, <1>13
  <2> HIDE DEF c
  <2>4. LaidDown(i, j, t) /\ Dozes(j, t) /\ t \notin j.suspended /\ j.wake[t] = v BY <2>2, <2>3
  <2> QED BY <2>4, <1>10, <1>13 DEF PutToSleep, t, v
<1> QED BY <1>11, <1>12, <1>13

-----------------------------------------------------------------------------
(* The operations of the services, each on one task or none: what it leaves  *)
(* as it is of the other tasks.                                              *)
Stays(k, j, u) ==
  /\ IsReady(j, u) <=> IsReady(k, u)
  /\ Dozes(j, u) <=> Dozes(k, u)
  /\ Contains(j.dead, u) <=> Contains(k.dead, u)
  /\ u \in j.suspended <=> u \in k.suspended
  /\ Pend(j, u) <=> Pend(k, u)
AsWas(k, j, u) ==
  Stays(k, j, u) /\ j.wake[u] = k.wake[u] /\ j.prio[u] = k.prio[u] /\ j.nstate[u] = k.nstate[u]
Concerns(k, j, T) == \A u \in Task \ T : AsWas(k, j, u)
(* The running task and what the scheduler counts stay as they are.          *)
Clock(k, j) ==
  /\ j.cur = k.cur /\ j.tick = k.tick /\ j.pended = k.pended /\ j.susp = k.susp
(* And what is not about the lists.                                          *)
Titles(k, j) ==
  /\ j.number = k.number /\ j.prio = k.prio /\ j.base = k.base
  /\ j.nstate = k.nstate /\ j.nval = k.nval

LEMMA ConcernsAs ==
  ASSUME NEW k, NEW j, Good(k), ListsAs(k, j), NEW T, \A u \in Task \ T : j.nstate[u] = k.nstate[u]
  PROVE  Concerns(k, j, T) /\ \A u : Pend(j, u) <=> Pend(k, u)
<1>1. /\ \A u : IsReady(j, u) <=> IsReady(k, u)
      /\ \A u : Dozes(j, u) <=> Dozes(k, u)
  BY GoodAs
<1>2. /\ j.dead = k.dead /\ j.suspended = k.suspended /\ j.wake = k.wake /\ j.events = k.events
      /\ j.prio = k.prio
  BY DEF ListsAs, SameLists
<1> QED BY <1>1, <1>2 DEF Concerns, AsWas, Stays, Pend

LEMMA ConcernsMore ==
  ASSUME NEW k, NEW i, NEW j, NEW T, Concerns(k, i, T), Concerns(i, j, T)
  PROVE  Concerns(k, j, T)
<1> SUFFICES ASSUME NEW u \in Task \ T PROVE AsWas(k, j, u) BY DEF Concerns
<1>1. AsWas(k, i, u) /\ AsWas(i, j, u) BY DEF Concerns
<1> QED BY <1>1 DEF AsWas, Stays

LEMMA KeptClock ==
  ASSUME NEW k, NEW j, Kept(k, j)
  PROVE  Clock(k, j) /\ Titles(k, j) /\ j.missed = k.missed /\ j.pendsv = k.pendsv
BY DEF Kept, Clock, Titles

(* A task is readied.                                                        *)
LEMMA ReadyAgain ==
  ASSUME NEW k, NEW t \in Task, SoundBut(k, t), Single(k), OnTime(k)
  PROVE  LET j == Ready(k, t)
         IN /\ Good(j) /\ Kept(k, j) /\ j.events = k.events
            /\ IsReady(j, t) /\ ~Elsewhere(j, t) /\ Concerns(k, j, {t})
<1> DEFINE j == Ready(k, t)
<1>1. /\ Sound(j) /\ Kept(k, j) /\ j.events = k.events
      /\ \A u \in Task : IsReady(j, u) <=> u = t \/ IsReady(k, u)
      /\ Moved(k, j, t) /\ ~Elsewhere(j, t) /\ Single(j)
  BY MadeReady
<1>2. Without(k, j, t) BY ReadyWithout
<1> HIDE DEF j
<1>3. j.tick = k.tick /\ j.unblock = k.unblock BY <1>1 DEF Kept
<1>4. OnTime(j) BY <1>2, <1>3, TimedWithout DEF OnTime, SoundBut
<1>5. \A u \in Task \ {t} : j.wake[u] = k.wake[u] BY <1>2 DEF Without, SoundBut, Shape
<1>6. Concerns(k, j, {t}) BY <1>1, <1>5 DEF Concerns, AsWas, Stays, Moved, Kept, Dozes, Pend
<1> QED BY <1>1, <1>4, <1>6 DEF Good, j

(* A task is taken out of its list and off the event lists.                  *)
LEMMA TakenOff ==
  ASSUME NEW k, NEW t \in Task, Good(k)
  PROVE  LET j == Unevent(Unlist(k, t), t)
         IN /\ Good(j) /\ Kept(k, j) /\ ~InAList(j, t) /\ Concerns(k, j, {t})
            /\ j.events["pending"] = RemoveFirst(k.events["pending"], t)
<1> DEFINE i == Unlist(k, t)
           j == Unevent(i, t)
<1>1. /\ Sound(i) /\ Kept(k, i) /\ i.events = k.events /\ ~InAList(i, t) /\ Moved(k, i, t)
      /\ Single(i) /\ Without(k, i, t)
  BY SoundAnyway, Unlisted, UnlistWithout DEF Good
<1> HIDE DEF i
<1>2. /\ Sound(j) /\ Kept(i, j) /\ SameLists(i, j)
      /\ \A u : u # t => (Contains(j.events["pending"], u) <=> Contains(i.events["pending"], u))
  BY <1>1, Unevented
<1>3. /\ j.wake = i.wake
      /\ j.events = [e \in EventLists \cup {"pending"} |-> RemoveFirst(i.events[e], t)]
  BY <1>1, UneventFields DEF Sound
<1> HIDE DEF j
<1>4. /\ Single(j) /\ (\A u : IsReady(j, u) <=> IsReady(i, u))
      /\ \A u : Elsewhere(j, u) <=> Elsewhere(i, u)
  BY <1>1, <1>2, SameListsFacts
<1>5. Kept(k, j) BY <1>1, <1>2 DEF Kept
<1>6. ~InAList(j, t) BY <1>1, <1>4 DEF InAList
<1>7. Without(k, j, t) BY <1>1, <1>2, <1>3 DEF Without, SameLists
<1>8. j.tick = k.tick /\ j.unblock = k.unblock BY <1>5 DEF Kept
<1>9. OnTime(j) BY <1>7, <1>8, TimedWithout DEF OnTime, Good, Sound
<1>10. j.events["pending"] = RemoveFirst(k.events["pending"], t) BY <1>1, <1>3
<1>11. \A u \in Task \ {t} : j.wake[u] = k.wake[u] BY <1>7 DEF Without, Good, Sound, Shape
<1>12. Moved(k, j, t) BY <1>1, <1>2, <1>4 DEF Moved, SameLists
<1>13. \A u \in Task \ {t} : Pend(j, u) <=> Pend(k, u) BY <1>1, <1>2 DEF Pend
<1>14. Concerns(k, j, {t})
  BY <1>5, <1>11, <1>12, <1>13 DEF Concerns, AsWas, Stays, Moved, Kept, Dozes
<1> QED BY <1>2, <1>4, <1>5, <1>6, <1>9, <1>10, <1>14 DEF Good, j, i

(* A set of numbers that is not empty and has a bound has a greatest.        *)
LEMMA MaxIsGreatest ==
  ASSUME NEW n \in Nat, NEW S \in SUBSET (0 .. n), S # {}
  PROVE  Max(S) \in S /\ \A y \in S : y <= Max(S)
<1> DEFINE T == {n - y : y \in S}
<1>1. T \in SUBSET Nat /\ T # {} OBVIOUS
<1>2. PICK m \in T : \A y \in T : m <= y BY <1>1, Waking!LeastMember, Zenon
<1>3. PICK x \in S : m = n - x BY <1>2
<1>4. \A y \in S : x >= y
  <2>1. TAKE y \in S
  <2>2. n - x <= n - y BY <1>2, <1>3
  <2> QED BY <2>2
<1>5. Max(S) \in S /\ \A y \in S : Max(S) >= y BY <1>3, <1>4 DEF Max
<1> QED BY <1>5

(* The ready list of a task that is ready holds more than its end marker.    *)
LEMMA ReadyRing ==
  ASSUME NEW k, Sound(k), NEW t \in Task, IsReady(k, t)
  PROVE  /\ k.prio[t] \in 0 .. k.top /\ ReadyCount(k, k.prio[t]) > 0
         /\ Contains(k.ready[k.prio[t]], t)
<1>1. PICK p \in Levels : Contains(k.ready[p], t) BY DEF IsReady
<1>2. p = k.prio[t] /\ p <= k.top /\ k.top \in Levels BY <1>1 DEF Sound, Rings, Shape
<1>3. p \in 0 .. k.top BY <1>2 DEF Levels
<1> DEFINE r == k.ready[p]
<1>4. Ring(r) /\ Contains(r, t) BY <1>1 DEF Sound, Rings
<1> HIDE DEF r
<1>5. PICK a \in 1 .. Len(r) : r[a] = t BY <1>4 DEF Contains
<1>6. PICK b \in 1 .. Len(r) : r[b] = End BY <1>4 DEF Contains, Ring
<1>7. a # b BY <1>5, <1>6, TaskListsAssumption
<1>8. Len(r) \in Nat /\ Len(r) > 1 BY <1>4, <1>7 DEF Ring
<1>9. Len(r) - 1 > 0 BY <1>8
<1> QED BY <1>1, <1>2, <1>3, <1>9 DEF ReadyCount, r

RunsNext(k, p, ring, t) ==
  [k EXCEPT !.missed = FALSE, !.top = p, !.ready[p] = ring, !.cur = t]

(* vTaskSwitchContext: when a task is ready, one that no ready task is more  *)
(* urgent than runs next, and everything else stays as it is.                *)
Switched(k, j) ==
  /\ Good(j) /\ Titles(k, j) /\ SwitchesAs(k, j) /\ j.tick = k.tick /\ j.missed = FALSE
  /\ j.events = k.events
  /\ Concerns(k, j, {}) /\ IsReady(j, j.cur)
  /\ \A u \in Task : IsReady(j, u) => j.prio[u] <= j.prio[j.cur]
LEMMA SwitchedTo ==
  ASSUME NEW k, Good(k), ~(k.susp > 0), NEW x \in Task, IsReady(k, x)
  PROVE  Switched(k, SwitchContext(k))
<1> DEFINE Q == {q \in 0 .. k.top : ReadyCount(k, q) > 0}
           p == Max(Q)
           ring == NextEntry(k.ready[p])
           t == Last(ring)
           j == RunsNext(k, p, ring, t)
<1>1. SwitchContext(k) = j BY DEF SwitchContext, RunsNext
<1>2. /\ DOMAIN k = Fields /\ DOMAIN k.ready = Levels /\ k.top \in Levels
      /\ k.prio \in [Task -> Levels]
  BY DEF Good, Sound, Shape, Rings
<1>3. \A u \in Task : IsReady(k, u) => k.prio[u] \in Q BY ReadyRing DEF Good
<1>4. Q \in SUBSET (0 .. k.top) /\ Q # {} /\ k.top \in Nat BY <1>2, <1>3 DEF Levels
<1>5. \A q \in Q : q \in 0 .. k.top /\ ReadyCount(k, q) > 0 OBVIOUS
<1> HIDE DEF Q
<1>6. p \in Q /\ \A q \in Q : q <= p BY <1>4, MaxIsGreatest
<1> HIDE DEF p
<1>7. p \in Levels /\ ReadyCount(k, p) > 0
  <2>1. p \in 0 .. k.top /\ ReadyCount(k, p) > 0 BY <1>5, <1>6
  <2>2. k.top \in 0 .. Priorities - 1 /\ Priorities \in Int BY <1>2, TaskListsAssumption DEF Levels
  <2>3. p \in 0 .. Priorities - 1 BY <2>1, <2>2
  <2> QED BY <2>1, <2>3 DEF Levels
<1>8. Ring(k.ready[p]) BY <1>7 DEF Good, Sound, Rings
<1>9. Len(k.ready[p]) \in Nat BY <1>8 DEF Ring
<1>10. Len(k.ready[p]) > 1 BY <1>7, <1>9 DEF ReadyCount
<1>11. /\ Ring(ring) /\ (\A y : Contains(ring, y) <=> Contains(k.ready[p], y))
       /\ t \in Task /\ Contains(k.ready[p], t)
  BY <1>8, <1>10, NextEntryFacts
<1> HIDE DEF ring, t
<1>12. /\ DOMAIN j = Fields /\ Titles(k, j) /\ SwitchesAs(k, j) /\ j.tick = k.tick
       /\ j.missed = FALSE /\ j.cur = t /\ j.top = p /\ DOMAIN j.ready = Levels
       /\ \A q \in Levels : j.ready[q] = IF q = p THEN ring ELSE k.ready[q]
       /\ j.delayed = k.delayed /\ j.overflow = k.overflow /\ j.dead = k.dead
       /\ j.suspended = k.suspended /\ j.wake = k.wake /\ j.events = k.events
       /\ j.unblock = k.unblock
  BY <1>2, <1>7 DEF RunsNext, Fields, Titles, SwitchesAs
<1> HIDE DEF j
<1>13. \A q \in Levels : \A y : Contains(j.ready[q], y) <=> Contains(k.ready[q], y)
  BY <1>11, <1>12
<1>14. \A u : IsReady(j, u) <=> IsReady(k, u) BY <1>13 DEF IsReady
<1>15. Shape(j) BY <1>7, <1>11, <1>12 DEF Good, Sound, Shape, Titles
<1>16. Rings(j)
  <2>1. \A q \in Levels : Ring(j.ready[q]) BY <1>11, <1>12 DEF Good, Sound, Rings
  <2>2. ASSUME NEW q \in Levels, NEW u \in Task, Contains(j.ready[q], u)
        PROVE  q = j.prio[u] /\ q <= j.top
    <3>1. Contains(k.ready[q], u) BY <2>2, <1>13
    <3>2. q = k.prio[u] BY <3>1 DEF Good, Sound, Rings
    <3>3. k.prio[u] \in Q BY <3>1, <1>3 DEF IsReady
    <3> QED BY <3>2, <3>3, <1>6, <1>12 DEF Titles
  <2> QED BY <2>1, <2>2, <1>12 DEF Rings
<1>17. OtherLists(j) BY <1>12 DEF Good, Sound, OtherLists
<1>18. Single(j) BY <1>12, <1>14 DEF Good, Single, Elsewhere
<1>19. OnTime(j) BY <1>12 DEF Good, OnTime, TimedFrom, Alarm
<1>20. IsReady(j, j.cur) /\ p = k.prio[t]
  <2>1. IsReady(k, t) BY <1>7, <1>11 DEF IsReady
  <2>2. p = k.prio[t] BY <1>7, <1>11 DEF Good, Sound, Rings
  <2> QED BY <2>1, <2>2, <1>12, <1>14
<1>21. \A u \in Task : IsReady(j, u) => j.prio[u] <= j.prio[j.cur]
  BY <1>3, <1>6, <1>12, <1>14, <1>20 DEF Titles
<1>22. Concerns(k, j, {}) BY <1>12, <1>14 DEF Concerns, AsWas, Stays, Dozes, Pend, Titles
<1>23. Good(j) BY <1>15, <1>16, <1>17, <1>18, <1>19 DEF Good, Sound
<1> QED BY <1>1, <1>12, <1>20, <1>21, <1>22, <1>23 DEF Switched

LEMMA RingLength ==
  ASSUME NEW r, Ring(r), Len(r) # 1
  PROVE  Len(r) > 1
<1>1. r \in Seq(Task \cup {End}) /\ Contains(r, End) BY DEF Ring
<1>2. r # <<>> BY <1>1 DEF Contains
<1>3. ASSUME NEW n \in Nat, n # 0, n # 1 PROVE n > 1 BY <1>3
<1>4. Len(r) \in Nat /\ Len(r) # 0 BY <1>1, <1>2
<1> QED BY <1>3, <1>4, Zenon

(* uxTaskGetSystemState turns the rings and changes nothing else.            *)
LEMMA EnumeratedFields ==
  ASSUME NEW k, DOMAIN k = Fields
  PROVE  LET j == AfterEnumeration(k)
         IN /\ DOMAIN j = Fields /\ Titles(k, j) /\ Clock(k, j) /\ SwitchesAs(k, j)
            /\ j.missed = k.missed /\ j.top = k.top
            /\ j.ready = [p \in Levels |-> IF Len(k.ready[p]) = 1 THEN k.ready[p] ELSE NextEntry(k.ready[p])]
            /\ j.delayed = k.delayed /\ j.overflow = k.overflow /\ j.dead = k.dead
            /\ j.suspended = k.suspended /\ j.wake = k.wake /\ j.events = k.events
            /\ j.unblock = k.unblock
BY DEF AfterEnumeration, Fields, Titles, Clock, SwitchesAs
LEMMA RingsTurned ==
  ASSUME NEW k, Good(k)
  PROVE  LET j == AfterEnumeration(k)
         IN /\ Good(j) /\ Titles(k, j) /\ Clock(k, j) /\ SwitchesAs(k, j) /\ j.missed = k.missed
            /\ j.events = k.events /\ Concerns(k, j, {})
<1> DEFINE j == AfterEnumeration(k)
<1>1. /\ DOMAIN j = Fields /\ Titles(k, j) /\ Clock(k, j) /\ SwitchesAs(k, j)
      /\ j.missed = k.missed /\ j.top = k.top
      /\ j.ready = [p \in Levels |-> IF Len(k.ready[p]) = 1 THEN k.ready[p] ELSE NextEntry(k.ready[p])]
      /\ j.delayed = k.delayed /\ j.overflow = k.overflow /\ j.dead = k.dead
      /\ j.suspended = k.suspended /\ j.wake = k.wake /\ j.events = k.events
      /\ j.unblock = k.unblock
  BY EnumeratedFields DEF Good, Sound, Shape
<1> HIDE DEF j
<1>2. ASSUME NEW p \in Levels
      PROVE  Ring(j.ready[p]) /\ \A y : Contains(j.ready[p], y) <=> Contains(k.ready[p], y)
  <2>1. Ring(k.ready[p]) BY DEF Good, Sound, Rings
  <2>2. j.ready[p] = IF Len(k.ready[p]) = 1 THEN k.ready[p] ELSE NextEntry(k.ready[p]) BY <1>1
  <2>3. CASE Len(k.ready[p]) = 1 BY <2>1, <2>2, <2>3
  <2>4. CASE Len(k.ready[p]) # 1
    <3> DEFINE r == k.ready[p]
    <3>1. Ring(r) /\ Len(r) # 1 BY <2>1, <2>4
    <3> HIDE DEF r
    <3>2. Len(r) > 1 BY <3>1, RingLength
    <3>3. Ring(NextEntry(r)) /\ \A y : Contains(NextEntry(r), y) <=> Contains(r, y)
      BY <3>1, <3>2, NextEntryFacts
    <3> QED BY <3>3, <2>2, <2>4 DEF r
  <2> QED BY <2>3, <2>4
<1>3. \A u : IsReady(j, u) <=> IsReady(k, u) BY <1>2 DEF IsReady
<1>4. Shape(j) BY <1>1 DEF Good, Sound, Shape, Titles, Clock
<1>5. Rings(j) BY <1>1, <1>2 DEF Good, Sound, Rings, Titles
<1>6. OtherLists(j) BY <1>1 DEF Good, Sound, OtherLists
<1>7. Single(j) BY <1>1, <1>3 DEF Good, Single, Elsewhere
<1>8. OnTime(j) BY <1>1 DEF Good, OnTime, TimedFrom, Alarm, Clock
<1>9. Concerns(k, j, {}) BY <1>1, <1>3 DEF Concerns, AsWas, Stays, Dozes, Pend, Titles
<1> QED BY <1>1, <1>4, <1>5, <1>6, <1>7, <1>8, <1>9 DEF Good, Sound, j

(* xNextTaskUnblockTime is looked up again.                                  *)
LEMMA AlarmSet ==
  ASSUME NEW k, Good(k)
  PROVE  LET j == ResetUnblock(k)
         IN /\ Good(j) /\ Titles(k, j) /\ Clock(k, j) /\ SwitchesAs(k, j) /\ j.missed = k.missed
            /\ j.events = k.events /\ Concerns(k, j, {})
<1> DEFINE j == ResetUnblock(k)
<1>1. /\ Sound(j) /\ Steady(k, j) /\ SameLists(k, j) /\ j.wake = k.wake
      /\ j.events = k.events /\ j.missed = k.missed /\ Single(j)
      /\ \A u \in Task : IsReady(j, u) <=> IsReady(k, u)
      /\ \A n : TimedFrom(k, n) => TimedFrom(j, n) /\ Alarm(j)
  BY UnblockReset DEF Good
<1> HIDE DEF j
<1>2. j.tick = k.tick BY <1>1 DEF Steady
<1>3. OnTime(j) BY <1>1, <1>2 DEF Good, OnTime
<1>4. Titles(k, j) /\ Clock(k, j) /\ SwitchesAs(k, j) BY <1>1 DEF Steady, Titles, Clock, SwitchesAs
<1>5. Concerns(k, j, {})
  BY <1>1, <1>4 DEF Concerns, AsWas, Stays, Dozes, Pend, Titles, SameLists
<1> QED BY <1>1, <1>3, <1>4, <1>5 DEF Good, j

(* A list with one more at its end, or without its first.                    *)
LEMMA Appended ==
  ASSUME NEW S, NEW s \in Seq(S), NEW x \in S
  PROVE  /\ Append(s, x) \in Seq(S)
         /\ \A y : Contains(Append(s, x), y) <=> y = x \/ Contains(s, y)
         /\ IsInjective(s) /\ ~Contains(s, x) => IsInjective(Append(s, x))
<1> DEFINE r == Append(s, x)
<1>1. /\ r \in Seq(S) /\ Len(r) = Len(s) + 1 /\ Len(s) \in Nat
      /\ r[Len(s) + 1] = x /\ \A m \in 1 .. Len(s) : r[m] = s[m]
  OBVIOUS
<1> HIDE DEF r
<1>2. \A m \in 1 .. Len(s) + 1 : m \in 1 .. Len(s) \/ m = Len(s) + 1 BY <1>1
<1>3. \A m \in 1 .. Len(s) : m \in 1 .. Len(s) + 1 BY <1>1
<1>4. Len(s) + 1 \in 1 .. Len(s) + 1 BY <1>1
<1>5. ASSUME NEW y PROVE Contains(r, y) <=> y = x \/ Contains(s, y)
  <2>1. ASSUME Contains(r, y) PROVE y = x \/ Contains(s, y)
    <3>1. PICK m \in 1 .. Len(s) + 1 : r[m] = y BY <2>1, <1>1 DEF Contains
    <3> QED BY <3>1, <1>1, <1>2 DEF Contains
  <2>2. Contains(r, x) BY <1>1, <1>4 DEF Contains
  <2>3. Contains(s, y) => Contains(r, y) BY <1>1, <1>3 DEF Contains
  <2> QED BY <2>1, <2>2, <2>3
<1>6. ASSUME IsInjective(s), ~Contains(s, x) PROVE IsInjective(r)
  <2>1. \A m, n \in 1 .. Len(s) : s[m] = s[n] => m = n
    <3>1. DOMAIN s = 1 .. Len(s) OBVIOUS
    <3> QED BY <3>1, <1>6 DEF IsInjective
  <2>2. \A m \in 1 .. Len(s) : s[m] # x BY <1>6 DEF Contains
  <2>3. \A m, n \in 1 .. Len(s) + 1 : r[m] = r[n] => m = n BY <2>1, <2>2, <1>1, <1>2
  <2>4. DOMAIN r = 1 .. Len(s) + 1 BY <1>1
  <2> QED BY <2>3, <2>4 DEF IsInjective
<1> QED BY <1>1, <1>5, <1>6 DEF r

LEMMA TailFacts ==
  ASSUME NEW S, NEW s \in Seq(S), s # <<>>, IsInjective(s)
  PROVE  /\ Tail(s) \in Seq(S) /\ IsInjective(Tail(s)) /\ Head(s) \in S /\ Contains(s, Head(s))
         /\ \A y : Contains(Tail(s), y) <=> Contains(s, y) /\ y # Head(s)
<1> DEFINE r == Tail(s)
<1>1. /\ r \in Seq(S) /\ Len(r) = Len(s) - 1 /\ Len(s) \in Nat /\ Len(s) >= 1
      /\ \A m \in 1 .. Len(s) - 1 : r[m] = s[m + 1]
  OBVIOUS
<1>2. Head(s) = s[1] /\ 1 \in 1 .. Len(s) BY <1>1
<1> HIDE DEF r
<1>3. \A m, n \in 1 .. Len(s) : s[m] = s[n] => m = n
  <2>1. DOMAIN s = 1 .. Len(s) OBVIOUS
  <2> QED BY <2>1 DEF IsInjective
<1>4. IsInjective(r)
  <2>1. SUFFICES ASSUME NEW m \in 1 .. Len(s) - 1, NEW n \in 1 .. Len(s) - 1, r[m] = r[n] PROVE m = n
    <3>1. DOMAIN r = 1 .. Len(s) - 1 BY <1>1
    <3> QED BY <3>1 DEF IsInjective
  <2>2. m + 1 \in 1 .. Len(s) /\ n + 1 \in 1 .. Len(s) /\ s[m + 1] = s[n + 1] BY <2>1, <1>1
  <2>3. m + 1 = n + 1 BY <2>2, <1>3
  <2> QED BY <2>3
<1>5. ASSUME NEW y, Contains(r, y) PROVE Contains(s, y) /\ y # Head(s)
  <2>1. PICK m \in 1 .. Len(s) - 1 : r[m] = y BY <1>5, <1>1 DEF Contains
  <2>2. m + 1 \in 1 .. Len(s) /\ s[m + 1] = y /\ m + 1 # 1 BY <2>1, <1>1
  <2> QED BY <2>2, <1>2, <1>3 DEF Contains
<1>6. ASSUME NEW y, Contains(s, y), y # Head(s) PROVE Contains(r, y)
  <2>1. PICK m \in 1 .. Len(s) : s[m] = y BY <1>6 DEF Contains
  <2>2. m # 1 BY <2>1, <1>6, <1>2
  <2>3. m - 1 \in 1 .. Len(r) /\ r[m - 1] = y BY <2>1, <2>2, <1>1
  <2> QED BY <2>3 DEF Contains
<1>7. Head(s) \in S /\ Contains(s, Head(s)) BY <1>2 DEF Contains
<1> QED BY <1>1, <1>4, <1>5, <1>6, <1>7 DEF r

(* vTaskDelete of the running task, and the idle task that frees it.         *)
Dead(k, t) == [k EXCEPT !.dead = Append(@, t)]
LEMMA LaidToRest ==
  ASSUME NEW k, Good(k), NEW t \in Task, ~InAList(k, t)
  PROVE  LET j == Dead(k, t)
         IN /\ Good(j) /\ Kept(k, j) /\ j.events = k.events /\ Concerns(k, j, {t})
            /\ Contains(j.dead, t) /\ ~IsReady(j, t) /\ ~Dozes(j, t) /\ t \notin j.suspended
<1> DEFINE j == Dead(k, t)
<1>1. /\ DOMAIN j = Fields /\ Kept(k, j) /\ j.events = k.events /\ j.ready = k.ready
      /\ j.top = k.top /\ j.delayed = k.delayed /\ j.overflow = k.overflow
      /\ j.suspended = k.suspended /\ j.wake = k.wake /\ j.dead = Append(k.dead, t)
  BY DEF Dead, Good, Sound, Shape, Fields, Kept
<1> HIDE DEF j
<1>2. /\ k.dead \in Seq(Task) /\ IsInjective(k.dead) /\ ~Contains(k.dead, t)
      /\ ~IsReady(k, t) /\ ~Dozes(k, t) /\ t \notin k.suspended
  BY DEF Good, Sound, OtherLists, InAList, Elsewhere, Dozes
<1>3. /\ j.dead \in Seq(Task) /\ IsInjective(j.dead)
      /\ \A y : Contains(j.dead, y) <=> y = t \/ Contains(k.dead, y)
  BY <1>1, <1>2, Appended
<1>4. Shape(j) BY <1>1 DEF Good, Sound, Shape, Kept
<1>5. Rings(j) /\ \A u : IsReady(j, u) <=> IsReady(k, u)
  BY <1>1 DEF Good, Sound, Rings, IsReady, Kept
<1>6. OtherLists(j) BY <1>1, <1>3 DEF Good, Sound, OtherLists
<1>7. Single(j) BY <1>1, <1>2, <1>3, <1>5 DEF Good, Single, Elsewhere, Dozes
<1>8. OnTime(j) BY <1>1 DEF Good, OnTime, TimedFrom, Alarm, Kept
<1>9. Concerns(k, j, {t}) BY <1>1, <1>3, <1>5 DEF Concerns, AsWas, Stays, Dozes, Pend, Kept
<1>10. Contains(j.dead, t) /\ ~IsReady(j, t) /\ ~Dozes(j, t) /\ t \notin j.suspended
  BY <1>1, <1>2, <1>3, <1>5 DEF Dozes
<1> QED BY <1>1, <1>4, <1>5, <1>6, <1>7, <1>8, <1>9, <1>10 DEF Good, Sound, j

Reaped(k) == [k EXCEPT !.dead = Tail(@), !.number = @ - 1]
LEMMA FirstFreed ==
  ASSUME NEW k, Good(k), k.dead # <<>>
  PROVE  LET j == Reaped(k)
             t == Head(k.dead)
         IN /\ Good(j) /\ Clock(k, j) /\ SwitchesAs(k, j) /\ j.missed = k.missed
            /\ j.prio = k.prio /\ j.base = k.base /\ j.nstate = k.nstate /\ j.nval = k.nval
            /\ j.number = k.number - 1 /\ j.events = k.events /\ Concerns(k, j, {t})
            /\ t \in Task /\ Contains(k.dead, t) /\ ~InAList(j, t)
<1> DEFINE j == Reaped(k)
           t == Head(k.dead)
<1>1. /\ DOMAIN j = Fields /\ Clock(k, j) /\ SwitchesAs(k, j) /\ j.missed = k.missed
      /\ j.prio = k.prio /\ j.base = k.base /\ j.nstate = k.nstate /\ j.nval = k.nval
      /\ j.number = k.number - 1 /\ j.events = k.events /\ j.ready = k.ready
      /\ j.top = k.top /\ j.delayed = k.delayed /\ j.overflow = k.overflow
      /\ j.suspended = k.suspended /\ j.wake = k.wake /\ j.unblock = k.unblock
      /\ j.dead = Tail(k.dead)
  BY DEF Reaped, Good, Sound, Shape, Fields, Clock, SwitchesAs
<1> HIDE DEF j
<1>2. k.dead \in Seq(Task) /\ IsInjective(k.dead) BY DEF Good, Sound, OtherLists
<1>3. /\ j.dead \in Seq(Task) /\ IsInjective(j.dead) /\ t \in Task /\ Contains(k.dead, t)
      /\ \A y : Contains(j.dead, y) <=> Contains(k.dead, y) /\ y # t
  BY <1>1, <1>2, TailFacts
<1> HIDE DEF t
<1>4. Shape(j) BY <1>1 DEF Good, Sound, Shape, Clock
<1>5. Rings(j) /\ \A u : IsReady(j, u) <=> IsReady(k, u)
  BY <1>1 DEF Good, Sound, Rings, IsReady
<1>6. OtherLists(j) BY <1>1, <1>3 DEF Good, Sound, OtherLists
<1>7. Single(j) BY <1>1, <1>3, <1>5 DEF Good, Single, Elsewhere
<1>8. OnTime(j) BY <1>1 DEF Good, OnTime, TimedFrom, Alarm, Clock
<1>9. Concerns(k, j, {t}) BY <1>1, <1>3, <1>5 DEF Concerns, AsWas, Stays, Dozes, Pend
<1>10. ~InAList(j, t) BY <1>1, <1>3, <1>5 DEF InAList, Elsewhere, Good, Single
<1> QED BY <1>1, <1>3, <1>4, <1>5, <1>6, <1>7, <1>8, <1>9, <1>10 DEF Good, Sound, j, t

(* A task is left to be readied when the scheduler resumes.                  *)
PutOff(k, t) == [k EXCEPT !.events["pending"] = Append(@, t)]
LEMMA LeftPending ==
  ASSUME NEW k, Good(k), NEW t \in Task, ~Pend(k, t)
  PROVE  LET j == PutOff(k, t)
         IN /\ Good(j) /\ Kept(k, j) /\ SameLists(k, j) /\ j.wake = k.wake
            /\ \A u : Pend(j, u) <=> u = t \/ Pend(k, u)
            /\ IsInjective(k.events["pending"]) => IsInjective(j.events["pending"])
            /\ Concerns(k, j, {t})
<1> DEFINE j == PutOff(k, t)
           q == k.events["pending"]
<1>1. q \in Seq(Task) /\ ~Contains(q, t) BY DEF Good, Sound, Shape, Pend
<1>2. /\ DOMAIN j = Fields /\ Kept(k, j) /\ SameLists(k, j) /\ j.wake = k.wake
      /\ j.events = [k.events EXCEPT !["pending"] = Append(q, t)]
  BY DEF PutOff, Good, Sound, Shape, Fields, Kept, SameLists
<1>3. DOMAIN k.events = EventLists \cup {"pending"} BY DEF Good, Sound, Shape
<1> HIDE DEF j
<1>4. j.events["pending"] = Append(q, t) BY <1>2, <1>3
<1>5. \A u : Pend(k, u) <=> Contains(q, u) BY DEF Pend
<1> HIDE DEF q
<1>6. /\ Append(q, t) \in Seq(Task)
      /\ \A y : Contains(Append(q, t), y) <=> y = t \/ Contains(q, y)
      /\ IsInjective(q) => IsInjective(Append(q, t))
  BY <1>1, Appended
<1>7. \A u : Pend(j, u) <=> u = t \/ Pend(k, u) BY <1>4, <1>5, <1>6 DEF Pend
<1>8. j.events \in [EventLists \cup {"pending"} -> Seq(Task)] BY <1>2, <1>6 DEF Good, Sound, Shape
<1>9. Shape(j) BY <1>2, <1>8 DEF Good, Sound, Shape, Kept, SameLists
<1>10. /\ \A u : IsReady(j, u) <=> IsReady(k, u)
       /\ OtherLists(j) /\ Rings(j) /\ Single(j)
  BY <1>2, SameListsFacts DEF Good, Sound, Kept
<1>11. OnTime(j) BY <1>2 DEF Good, OnTime, TimedFrom, Alarm, Kept, SameLists
<1>12. Concerns(k, j, {t})
  BY <1>2, <1>7, <1>10, SMTT(30) DEF Concerns, AsWas, Stays, Dozes, Kept, SameLists
<1> QED BY <1>2, <1>4, <1>6, <1>7, <1>9, <1>10, <1>11, <1>12 DEF Good, Sound, j, q
(* prvInitialiseNewTask writes into the control block, which is in no list.   *)
Urgency(p) == IF p < Priorities THEN p ELSE Priorities - 1
LEMMA InitialiseFields ==
  ASSUME NEW k, DOMAIN k = Fields, NEW t, NEW p
  PROVE  LET j == InitialiseTask(k, t, p)
         IN /\ DOMAIN j = Fields /\ SameLists(k, j) /\ Clock(k, j) /\ SwitchesAs(k, j)
            /\ j.missed = k.missed /\ j.wake = k.wake /\ j.events = k.events
            /\ j.unblock = k.unblock /\ j.number = k.number
            /\ j.prio = [k.prio EXCEPT ![t] = Urgency(p)]
            /\ j.base = [k.base EXCEPT ![t] = Urgency(p)]
            /\ j.nstate = [k.nstate EXCEPT ![t] = "no"] /\ j.nval = [k.nval EXCEPT ![t] = {}]
BY DEF InitialiseTask, Urgency, Fields, SameLists, Clock, SwitchesAs
Counts(k, c) == [k EXCEPT !.cur = c, !.number = @ + 1]
LEMMA CountsFields ==
  ASSUME NEW k, DOMAIN k = Fields, NEW c
  PROVE  LET j == Counts(k, c)
         IN /\ DOMAIN j = Fields /\ SameLists(k, j) /\ SwitchesAs(k, j)
            /\ j.missed = k.missed /\ j.wake = k.wake /\ j.events = k.events
            /\ j.unblock = k.unblock /\ j.number = k.number + 1 /\ j.cur = c
            /\ j.prio = k.prio /\ j.base = k.base /\ j.tick = k.tick
            /\ j.nstate = k.nstate /\ j.nval = k.nval
BY DEF Counts, Fields, SameLists, SwitchesAs

(* prvAddNewTaskToReadyList: the new task is ready; before the scheduler     *)
(* runs it is the current one when no task is more urgent.                   *)
Arrived(k, j, t, p) ==
  /\ Good(j) /\ SwitchesAs(k, j) /\ j.missed = k.missed /\ j.tick = k.tick
  /\ j.events = k.events /\ j.number = k.number + 1
  /\ j.prio = [k.prio EXCEPT ![t] = Urgency(p)] /\ j.base = [k.base EXCEPT ![t] = Urgency(p)]
  /\ j.nstate = [k.nstate EXCEPT ![t] = "no"] /\ j.nval = [k.nval EXCEPT ![t] = {}]
  /\ IsReady(j, t) /\ ~Elsewhere(j, t) /\ Concerns(k, j, {t})
LEMMA NewTaskArrived ==
  ASSUME NEW k, Good(k), NEW t \in Task, ~InAList(k, t), NEW p \in Nat, NEW running \in BOOLEAN,
         DOMAIN k.nstate = Task
  PROVE  LET j == NewTask(k, t, p, running)
         IN /\ Arrived(k, j, t, p)
            /\ j.cur = IF ~running /\ j.prio[k.cur] <= j.prio[t] THEN t ELSE k.cur
<1> DEFINE i == InitialiseTask(k, t, p)
           c == IF ~running /\ i.prio[k.cur] <= i.prio[t] THEN t ELSE k.cur
           m == Counts(i, c)
           j == AddReady(m, t)
<1>0. SUFFICES /\ Arrived(k, NewTask(k, t, p, running), t, p)
               /\ NewTask(k, t, p, running).cur =
                    IF ~running /\ NewTask(k, t, p, running).prio[k.cur] <= NewTask(k, t, p, running).prio[t]
                      THEN t ELSE k.cur
  OBVIOUS
<1>1. DOMAIN k = Fields /\ k.cur \in Task /\ k.prio \in [Task -> Levels] /\ k.base \in [Task -> Levels]
  BY DEF Good, Sound, Shape
<1>2. /\ DOMAIN i = Fields /\ SameLists(k, i) /\ Clock(k, i) /\ SwitchesAs(k, i)
      /\ i.missed = k.missed /\ i.wake = k.wake /\ i.events = k.events
      /\ i.unblock = k.unblock /\ i.number = k.number
      /\ i.prio = [k.prio EXCEPT ![t] = Urgency(p)]
      /\ i.base = [k.base EXCEPT ![t] = Urgency(p)]
      /\ i.nstate = [k.nstate EXCEPT ![t] = "no"] /\ i.nval = [k.nval EXCEPT ![t] = {}]
  BY <1>1, InitialiseFields
<1>3. NewTask(k, t, p, running) = j
  <2>1. DOMAIN i = Fields /\ i.cur = k.cur /\ k.cur \in Task BY <1>1, <1>2 DEF Clock
  <2>2. Counts(i, i.cur) = [i EXCEPT !.number = @ + 1]
    <3> HIDE DEF i
    <3> QED BY <2>1 DEF Counts, Fields
  <2>3. NewTask(k, t, p, running) =
          AddReady(IF ~running /\ (i.cur \notin Task \/ i.prio[i.cur] <= i.prio[t])
                     THEN Counts(i, t) ELSE Counts(i, i.cur), t)
    BY <2>2 DEF NewTask, AddNewTask, Counts
  <2> HIDE DEF i
  <2> QED BY <2>1, <2>3
<1> HIDE DEF i
<1>4. c \in Task BY <1>1
<1> HIDE DEF c
<1>5. /\ DOMAIN m = Fields /\ SameLists(i, m) /\ SwitchesAs(i, m)
      /\ m.missed = i.missed /\ m.wake = i.wake /\ m.events = i.events
      /\ m.unblock = i.unblock /\ m.number = i.number + 1 /\ m.cur = c
      /\ m.prio = i.prio /\ m.base = i.base /\ m.tick = i.tick
      /\ m.nstate = i.nstate /\ m.nval = i.nval
  BY <1>2, CountsFields
<1> HIDE DEF m
<1>6. /\ DOMAIN m = Fields /\ SameLists(k, m) /\ SwitchesAs(k, m)
      /\ m.missed = k.missed /\ m.wake = k.wake /\ m.events = k.events
      /\ m.unblock = k.unblock /\ m.number = k.number + 1 /\ m.tick = k.tick
  BY <1>2, <1>5 DEF SameLists, SwitchesAs, Clock
<1>7. Urgency(p) \in Levels BY TaskListsAssumption DEF Urgency, Levels
<1>8. /\ m.prio \in [Task -> Levels] /\ m.base \in [Task -> Levels]
      /\ \A u \in Task \ {t} : m.prio[u] = k.prio[u] /\ m.nstate[u] = k.nstate[u]
  BY <1>1, <1>2, <1>5, <1>7
<1>9. Shape(m) BY <1>4, <1>5, <1>6, <1>8 DEF Good, Sound, Shape, SameLists
<1>10. /\ \A u : IsReady(m, u) <=> IsReady(k, u)
       /\ \A u : Elsewhere(m, u) <=> Elsewhere(k, u)
       /\ OtherLists(m) /\ Single(m)
  BY <1>6, SameListsFacts DEF Good, Sound
<1>11. Rings(m)
  <2>1. m.ready = k.ready /\ m.top = k.top BY <1>6 DEF SameLists
  <2>2. \A q \in Levels : ~Contains(k.ready[q], t) BY DEF InAList, IsReady
  <2> QED BY <2>1, <2>2, <1>8 DEF Good, Sound, Rings
<1>12. Sound(m) /\ ~InAList(m, t) BY <1>9, <1>10, <1>11 DEF Sound, InAList
<1>13. /\ Sound(j) /\ Kept(m, j) /\ j.events = m.events
       /\ \A u \in Task : IsReady(j, u) <=> u = t \/ IsReady(m, u)
       /\ \A u \in Task : Elsewhere(j, u) <=> Elsewhere(m, u)
       /\ Moved(m, j, t) /\ Single(j)
  BY <1>10, <1>12, AddedReady
<1>14. j.wake = m.wake /\ j.delayed = m.delayed /\ j.overflow = m.overflow
  BY <1>12, AddReadyFields
<1> HIDE DEF j
<1>15. OnTime(j) BY <1>6, <1>13, <1>14 DEF Good, OnTime, TimedFrom, Alarm, Kept, SameLists
<1>16. Good(j) BY <1>13, <1>15 DEF Good
<1>17. Concerns(k, j, {t})
  <2>1. Moved(k, j, t) BY <1>6, <1>10, <1>13 DEF Moved, SameLists
  <2> QED BY <2>1, <1>6, <1>8, <1>13, <1>14 DEF Concerns, AsWas, Stays, Moved, Kept, Dozes, Pend
<1>18. IsReady(j, t) /\ ~Elsewhere(j, t) BY <1>10, <1>13 DEF InAList
<1>19. j.cur = IF ~running /\ j.prio[k.cur] <= j.prio[t] THEN t ELSE k.cur
  BY <1>5, <1>13 DEF Kept, c
<1>20. /\ SwitchesAs(k, j) /\ j.missed = k.missed /\ j.tick = k.tick /\ j.events = k.events
       /\ j.number = k.number + 1 /\ j.prio = i.prio /\ j.base = i.base
       /\ j.nstate = i.nstate /\ j.nval = i.nval
  BY <1>5, <1>6, <1>13 DEF Kept, SwitchesAs
<1>21. Arrived(k, j, t, p) BY <1>2, <1>16, <1>17, <1>18, <1>20 DEF Arrived
<1> QED BY <1>3, <1>19, <1>21

(* A priority changes: a task that is ready moves to the ring of its new one. *)
Ranked(k, t, p, b, o) == [k EXCEPT !.prio[t] = p, !.base[t] = b, !.order[t] = o]
Reranked(k, t, p, b, o) ==
  IF Contains(k.ready[k.prio[t]], t) THEN Ready(Ranked(k, t, p, b, o), t) ELSE Ranked(k, t, p, b, o)
Repriced(k, j, t, p, b, o) ==
  /\ Good(j) /\ Clock(k, j) /\ SwitchesAs(k, j) /\ j.missed = k.missed
  /\ j.number = k.number /\ j.nstate = k.nstate /\ j.nval = k.nval
  /\ j.prio = [k.prio EXCEPT ![t] = p] /\ j.events = k.events
  /\ j.base = [k.base EXCEPT ![t] = b] /\ j.order = [k.order EXCEPT ![t] = o]
  /\ j.held = k.held /\ j.flags = k.flags
  /\ Stays(k, j, t) /\ Concerns(k, j, {t}) /\ (Dozes(k, t) => j.wake[t] = k.wake[t])
LEMMA PriorityChanged ==
  ASSUME NEW k, Good(k), NEW t \in Task, NEW p \in Levels, NEW b \in Levels, NEW o
  PROVE  Repriced(k, Reranked(k, t, p, b, o), t, p, b, o)
<1> DEFINE m == Ranked(k, t, p, b, o)
           j == Reranked(k, t, p, b, o)
           r == Ready(m, t)
<1>0. SUFFICES /\ Good(j) /\ Clock(k, j) /\ SwitchesAs(k, j) /\ j.missed = k.missed
               /\ j.number = k.number /\ j.nstate = k.nstate /\ j.nval = k.nval
               /\ j.prio = [k.prio EXCEPT ![t] = p] /\ j.events = k.events
               /\ j.base = [k.base EXCEPT ![t] = b] /\ j.order = [k.order EXCEPT ![t] = o]
               /\ j.held = k.held /\ j.flags = k.flags
               /\ Stays(k, j, t) /\ Concerns(k, j, {t}) /\ (Dozes(k, t) => j.wake[t] = k.wake[t])
  BY DEF Repriced
<1>1. j = IF Contains(k.ready[k.prio[t]], t) THEN r ELSE m BY DEF Reranked
<1>2. DOMAIN k = Fields /\ k.prio \in [Task -> Levels] /\ k.base \in [Task -> Levels]
  BY DEF Good, Sound, Shape
<1>3. /\ DOMAIN m = Fields /\ SameLists(k, m) /\ Clock(k, m) /\ SwitchesAs(k, m)
      /\ m.missed = k.missed /\ m.number = k.number /\ m.nstate = k.nstate /\ m.nval = k.nval
      /\ m.prio = [k.prio EXCEPT ![t] = p] /\ m.base = [k.base EXCEPT ![t] = b]
      /\ m.events = k.events /\ m.wake = k.wake /\ m.unblock = k.unblock
      /\ m.order = [k.order EXCEPT ![t] = o] /\ m.held = k.held /\ m.flags = k.flags
  BY <1>2 DEF Ranked, Fields, SameLists, Clock, SwitchesAs
<1> HIDE DEF m, j
<1>4. Shape(m) BY <1>2, <1>3 DEF Good, Sound, Shape, SameLists, Clock
<1>5. /\ \A u : IsReady(m, u) <=> IsReady(k, u)
      /\ \A u : Elsewhere(m, u) <=> Elsewhere(k, u)
      /\ OtherLists(m) /\ Single(m)
  BY <1>3, SameListsFacts DEF Good, Sound
<1>6. OnTime(m) BY <1>3 DEF Good, OnTime, TimedFrom, Alarm, SameLists, Clock
<1>7. m.ready = k.ready /\ m.top = k.top /\ \A u \in Task \ {t} : m.prio[u] = k.prio[u]
  BY <1>2, <1>3 DEF SameLists
<1>8. SoundBut(m, t) BY <1>4, <1>5, <1>7 DEF Good, Sound, Rings, RingsBut, SoundBut
<1>9. Concerns(k, m, {t}) /\ Stays(k, m, t)
  BY <1>3, <1>5, <1>7 DEF Concerns, AsWas, Stays, Dozes, Pend, SameLists
<1>10. CASE Contains(k.ready[k.prio[t]], t)
  <2>1. IsReady(k, t) BY <1>2, <1>10 DEF IsReady
  <2>2. ~Elsewhere(k, t) /\ ~Dozes(k, t) BY <2>1 DEF Good, Single, Elsewhere, Dozes
  <2>3. /\ Good(r) /\ Kept(m, r) /\ r.events = m.events
        /\ IsReady(r, t) /\ ~Elsewhere(r, t) /\ Concerns(m, r, {t})
    BY <1>5, <1>6, <1>8, ReadyAgain
  <2> HIDE DEF r
  <2>4. Stays(k, r, t) BY <1>3, <2>1, <2>2, <2>3 DEF Stays, Elsewhere, Dozes, Pend
  <2>5. Concerns(k, r, {t}) BY <1>9, <2>3, ConcernsMore
  <2>6. /\ Clock(k, r) /\ SwitchesAs(k, r) /\ r.missed = k.missed
        /\ r.number = k.number /\ r.nstate = k.nstate /\ r.nval = k.nval
        /\ r.prio = [k.prio EXCEPT ![t] = p] /\ r.events = k.events
        /\ r.base = [k.base EXCEPT ![t] = b] /\ r.order = [k.order EXCEPT ![t] = o]
        /\ r.held = k.held /\ r.flags = k.flags
    BY <1>3, <2>3 DEF Kept, Clock, SwitchesAs
  <2>7. j = r BY <1>1, <1>10
  <2> QED BY <2>2, <2>3, <2>4, <2>5, <2>6, <2>7
<1>11. CASE ~Contains(k.ready[k.prio[t]], t)
  <2>1. \A q \in Levels : ~Contains(k.ready[q], t) BY <1>11 DEF Good, Sound, Rings
  <2>2. Rings(m) BY <2>1, <1>7 DEF Good, Sound, Rings
  <2>3. Good(m) BY <2>2, <1>4, <1>5, <1>6 DEF Good, Sound
  <2>4. j = m BY <1>1, <1>11
  <2> QED BY <2>3, <2>4, <1>3, <1>9
<1> QED BY <1>10, <1>11
(* The state item stays where it is when the scheduler is suspended.         *)
LEMMA ReadyOrPended ==
  ASSUME NEW k, Good(k), NEW t \in Task, k.susp # 0 => ~Pend(k, t)
  PROVE  LET j == ReadyOrPend(k, t)
         IN /\ Good(j) /\ Kept(k, j) /\ Concerns(k, j, {t})
            /\ k.susp = 0 => IsReady(j, t) /\ ~Elsewhere(j, t) /\ j.events = k.events
            /\ k.susp # 0 => /\ SameLists(k, j) /\ j.wake = k.wake /\ Pend(j, t)
                             /\ IsInjective(k.events["pending"]) => IsInjective(j.events["pending"])
<1> DEFINE r == Ready(k, t)
           p == PutOff(k, t)
           j == ReadyOrPend(k, t)
<1>1. j = IF k.susp = 0 THEN r ELSE p BY DEF ReadyOrPend, PutOff
<1>2. CASE k.susp = 0
  <2>1. /\ Good(r) /\ Kept(k, r) /\ r.events = k.events
        /\ IsReady(r, t) /\ ~Elsewhere(r, t) /\ Concerns(k, r, {t})
    BY ReadyAgain, SoundAnyway DEF Good
  <2>2. j = r BY <1>1, <1>2
  <2> HIDE DEF r
  <2> QED BY <2>1, <2>2, <1>2
<1>3. CASE k.susp # 0
  <2>1. /\ Good(p) /\ Kept(k, p) /\ SameLists(k, p) /\ p.wake = k.wake
        /\ \A u : Pend(p, u) <=> u = t \/ Pend(k, u)
        /\ IsInjective(k.events["pending"]) => IsInjective(p.events["pending"])
        /\ Concerns(k, p, {t})
    BY <1>3, LeftPending
  <2>2. j = p BY <1>1, <1>3
  <2> HIDE DEF p
  <2> QED BY <2>1, <2>2, <1>3
<1> QED BY <1>2, <1>3

(* Before the first task exists.                                             *)
LEMMA NoTasksGood ==
  ASSUME NEW c \in Task
  PROVE  LET j == NoTasks(c)
         IN /\ Good(j) /\ j.cur = c /\ j.number = 0 /\ j.tick = 0 /\ j.pended = 0 /\ j.susp = 0
            /\ j.missed = FALSE /\ j.pendsv = FALSE /\ j.events["pending"] = <<>>
            /\ j.nstate = [t \in Task |-> "no"] /\ j.nval = [t \in Task |-> {}]
            /\ j.prio = [t \in Task |-> 0] /\ \A t \in Task : ~InAList(j, t)
<1> DEFINE j == NoTasks(c)
<1>0. SUFFICES /\ Good(j) /\ j.cur = c /\ j.number = 0 /\ j.tick = 0 /\ j.pended = 0 /\ j.susp = 0
               /\ j.missed = FALSE /\ j.pendsv = FALSE /\ j.events["pending"] = <<>>
               /\ j.nstate = [t \in Task |-> "no"] /\ j.nval = [t \in Task |-> {}]
               /\ j.prio = [t \in Task |-> 0] /\ \A t \in Task : ~InAList(j, t)
  OBVIOUS
<1>1. /\ DOMAIN j = Fields /\ j.cur = c /\ j.number = 0 /\ j.tick = 0 /\ j.pended = 0 /\ j.susp = 0
      /\ j.missed = FALSE /\ j.pendsv = FALSE
      /\ j.events = [e \in EventLists \cup {"pending"} |-> <<>>]
      /\ j.nstate = [t \in Task |-> "no"] /\ j.nval = [t \in Task |-> {}]
      /\ j.prio = [t \in Task |-> 0] /\ j.base = [t \in Task |-> 0] /\ j.wake = [t \in Task |-> 0]
      /\ j.ready = [p \in Levels |-> <<End>>] /\ j.top = 0 /\ j.delayed = <<>> /\ j.overflow = <<>>
      /\ j.suspended = {} /\ j.dead = <<>> /\ j.unblock = MaxDelay
  BY DEF NoTasks, EmptyReadyLists, Fields
<1> HIDE DEF j
<1>2. 0 \in Levels /\ 0 \in Ticks /\ MaxDelay \in Ticks
  BY TaskListsAssumption DEF Levels, Ticks, MaxDelay
<1>3. <<>> \in Seq(Task) /\ IsInjective(<<>>) /\ \A t : ~Contains(<<>>, t)
  BY DEF IsInjective, Contains
<1>4. Ring(<<End>>) /\ \A t \in Task : ~Contains(<<End>>, t)
  <2>1. <<End>> \in Seq(Task \cup {End}) OBVIOUS
  <2>2. IsInjective(<<End>>) BY DEF IsInjective
  <2>3. Contains(<<End>>, End) BY DEF Contains
  <2>4. \A t \in Task : ~Contains(<<End>>, t) BY TaskListsAssumption DEF Contains
  <2> QED BY <2>1, <2>2, <2>3, <2>4 DEF Ring
<1>5. j.events \in [EventLists \cup {"pending"} -> Seq(Task)] /\ j.events["pending"] = <<>>
  BY <1>1, <1>3
<1>6. Shape(j) BY <1>1, <1>2, <1>5 DEF Shape
<1>7. Rings(j) BY <1>1, <1>4 DEF Rings
<1>8. OtherLists(j) BY <1>1, <1>3 DEF OtherLists
<1>9. \A t \in Task : ~InAList(j, t) BY <1>1, <1>3, <1>4 DEF InAList, IsReady, Elsewhere
<1>10. Single(j) BY <1>9 DEF Single, InAList, Elsewhere
<1>11. OnTime(j)
  <2>1. TimedFrom(j, j.tick + 1)
    <3>1. j.wake \in [Task -> Ticks] /\ j.tick \in Ticks BY <1>1, <1>2
    <3>2. Ordered(j.delayed, j.wake) /\ Ordered(j.overflow, j.wake) BY <1>1 DEF Ordered
    <3>3. \A t \in Task : ~Contains(j.delayed, t) /\ ~Contains(j.overflow, t) BY <1>1, <1>3
    <3> QED BY <3>1, <3>2, <3>3 DEF TimedFrom
  <2>2. Alarm(j) BY <1>1, <1>2 DEF Alarm
  <2> QED BY <2>1, <2>2 DEF OnTime
<1>12. Good(j) BY <1>6, <1>7, <1>8, <1>10, <1>11 DEF Good, Sound
<1> QED BY <1>1, <1>5, <1>9, <1>12

-----------------------------------------------------------------------------
(* The operations as the services compose them: what each needs of the       *)
(* kernel it is given, and that the next one is given as much.  A task x     *)
(* that does not sleep, the idle task, stays ready.                          *)
Urgencies == 1 .. Priorities
Calm(k, x) ==
  /\ Good(k) /\ IsReady(k, x)
  /\ k.susp \in Nat /\ k.pended \in Nat /\ k.missed \in BOOLEAN /\ k.pendsv \in BOOLEAN
  /\ k.held \in [Task -> Int] /\ k.order \in [Task -> Urgencies] /\ DOMAIN k.flags = Task
  /\ DOMAIN k.nstate = Task
(* The running task, the priorities, the mutexes held and the suspensions    *)
(* are those they were.                                                      *)
Ranks(k, j) ==
  /\ j.cur = k.cur /\ j.prio = k.prio /\ j.base = k.base /\ j.held = k.held /\ j.susp = k.susp
Smooth(k, j, x) == Calm(j, x) /\ Ranks(k, j)
LEMMA SmoothMore ==
  ASSUME NEW k, NEW i, NEW j, NEW x, Smooth(k, i, x), Smooth(i, j, x)
  PROVE  Smooth(k, j, x)
BY DEF Smooth, Ranks

LEMMA CalmYield ==
  ASSUME NEW k, NEW x \in Task, Calm(k, x)
  PROVE  Smooth(k, Yield(k), x) /\ Yield(k).pendsv = TRUE
<1> DEFINE j == Yield(k)
<1>1. DOMAIN k = Fields BY DEF Calm, Good, Sound, Shape
<1>2. /\ ListsAs(k, j) /\ Routine(k, j) /\ j.susp = k.susp /\ j.pended = k.pended
      /\ j.missed = k.missed /\ j.pendsv = TRUE
  BY <1>1, PendsvFields DEF Yield
<1> HIDE DEF j
<1>3. Good(j) /\ IsReady(j, x) BY <1>2, GoodAs DEF Calm
<1> QED BY <1>2, <1>3 DEF Smooth, Calm, Ranks, Routine, j

LEMMA CalmPendsv ==
  ASSUME NEW k, NEW x \in Task, Calm(k, x), NEW b \in BOOLEAN
  PROVE  Smooth(k, [k EXCEPT !.pendsv = b], x)
<1> DEFINE j == [k EXCEPT !.pendsv = b]
<1>1. DOMAIN k = Fields BY DEF Calm, Good, Sound, Shape
<1>2. /\ ListsAs(k, j) /\ Routine(k, j) /\ j.susp = k.susp /\ j.pended = k.pended
      /\ j.missed = k.missed /\ j.pendsv = b
  BY <1>1, PendsvFields
<1> HIDE DEF j
<1>3. Good(j) /\ IsReady(j, x) BY <1>2, GoodAs DEF Calm
<1> QED BY <1>2, <1>3 DEF Smooth, Calm, Ranks, Routine, j

LEMMA CalmMissed ==
  ASSUME NEW k, NEW x \in Task, Calm(k, x), NEW b \in BOOLEAN
  PROVE  Smooth(k, [k EXCEPT !.missed = b], x)
<1> DEFINE j == [k EXCEPT !.missed = b]
<1>1. DOMAIN k = Fields BY DEF Calm, Good, Sound, Shape
<1>2. /\ ListsAs(k, j) /\ Routine(k, j) /\ j.susp = k.susp /\ j.pended = k.pended
      /\ j.missed = b /\ j.pendsv = k.pendsv
  BY <1>1, JustMissedFields
<1> HIDE DEF j
<1>3. Good(j) /\ IsReady(j, x) BY <1>2, GoodAs DEF Calm
<1> QED BY <1>2, <1>3 DEF Smooth, Calm, Ranks, Routine, j

LEMMA CalmSuspended ==
  ASSUME NEW k, NEW x \in Task, Calm(k, x)
  PROVE  LET j == SuspendAll(k)
         IN /\ Calm(j, x) /\ j.susp = k.susp + 1 /\ j.cur = k.cur /\ j.prio = k.prio
            /\ j.base = k.base /\ j.held = k.held /\ j.events = k.events /\ j.flags = k.flags
<1> DEFINE j == SuspendAll(k)
<1>1. DOMAIN k = Fields BY DEF Calm, Good, Sound, Shape
<1>2. /\ ListsAs(k, j) /\ Routine(k, j) /\ j.susp = k.susp + 1 /\ j.pended = k.pended
      /\ j.missed = k.missed /\ j.pendsv = k.pendsv
  BY <1>1, SuspFields DEF SuspendAll
<1> HIDE DEF j
<1>3. Good(j) /\ IsReady(j, x) BY <1>2, GoodAs DEF Calm
<1>4. j.susp \in Nat BY <1>2 DEF Calm
<1> QED BY <1>2, <1>3, <1>4 DEF Calm, Routine, ListsAs, j

(* A task's control block is written into.                                   *)
Noted(k, u, v, nval) == [k EXCEPT !.nstate[u] = v, !.nval = nval]
LEMMA CalmNoted ==
  ASSUME NEW k, NEW x \in Task, Calm(k, x), NEW u, NEW v, NEW nval
  PROVE  Smooth(k, Noted(k, u, v, nval), x)
<1> DEFINE j == Noted(k, u, v, nval)
<1>1. DOMAIN k = Fields BY DEF Calm, Good, Sound, Shape
<1>2. /\ ListsAs(k, j) /\ Ranks(k, j) /\ j.pended = k.pended
      /\ j.missed = k.missed /\ j.pendsv = k.pendsv /\ j.order = k.order /\ j.flags = k.flags
      /\ j.nstate = [k.nstate EXCEPT ![u] = v]
  BY <1>1 DEF Noted, ListsAs, Fields, SameLists, Ranks
<1> HIDE DEF j
<1>3. Good(j) /\ IsReady(j, x) BY <1>2, GoodAs DEF Calm
<1> QED BY <1>2, <1>3 DEF Smooth, Calm, Ranks, j

Flagged(k, t, flags, order) == [k EXCEPT !.flags[t] = flags, !.order[t] = order]
LEMMA LevelUrgency ==
  ASSUME NEW p \in Levels PROVE Priorities - p \in Urgencies
BY TaskListsAssumption DEF Levels, Urgencies
LEMMA CalmFlagged ==
  ASSUME NEW k, NEW x \in Task, Calm(k, x), NEW t, NEW flags, NEW order \in Urgencies
  PROVE  Smooth(k, Flagged(k, t, flags, order), x)
<1> DEFINE j == Flagged(k, t, flags, order)
<1>1. DOMAIN k = Fields BY DEF Calm, Good, Sound, Shape
<1>2. /\ ListsAs(k, j) /\ Ranks(k, j) /\ j.pended = k.pended
      /\ j.missed = k.missed /\ j.pendsv = k.pendsv /\ j.nstate = k.nstate
      /\ j.flags = [k.flags EXCEPT ![t] = flags] /\ j.order = [k.order EXCEPT ![t] = order]
  BY <1>1 DEF Flagged, ListsAs, Fields, SameLists, Ranks
<1> HIDE DEF j
<1>3. Good(j) /\ IsReady(j, x) BY <1>2, GoodAs DEF Calm
<1> QED BY <1>2, <1>3 DEF Smooth, Calm, Ranks, j
Tells(k, t, flags) == [k EXCEPT !.flags[t] = flags]
LEMMA CalmTold ==
  ASSUME NEW k, NEW x \in Task, Calm(k, x), NEW t, NEW flags
  PROVE  Smooth(k, Tells(k, t, flags), x)
<1> DEFINE j == Tells(k, t, flags)
<1>1. DOMAIN k = Fields BY DEF Calm, Good, Sound, Shape
<1>2. /\ ListsAs(k, j) /\ Ranks(k, j) /\ j.pended = k.pended
      /\ j.missed = k.missed /\ j.pendsv = k.pendsv /\ j.nstate = k.nstate
      /\ j.flags = [k.flags EXCEPT ![t] = flags] /\ j.order = k.order
  BY <1>1 DEF Tells, ListsAs, Fields, SameLists, Ranks
<1> HIDE DEF j
<1>3. Good(j) /\ IsReady(j, x) BY <1>2, GoodAs DEF Calm
<1> QED BY <1>2, <1>3 DEF Smooth, Calm, Ranks, j
LEMMA CalmReset ==
  ASSUME NEW k, NEW x \in Task, Calm(k, x)
  PROVE  Smooth(k, ResetEventItemValue(k), x)
<1> DEFINE o == Priorities - k.prio[k.cur]
<1>1. k.prio[k.cur] \in Levels BY DEF Calm, Good, Sound, Shape
<1>2. o \in Urgencies BY <1>1, LevelUrgency
<1> HIDE DEF o
<1>3. Smooth(k, Flagged(k, k.cur, {}, o), x) BY <1>2, CalmFlagged
<1> QED BY <1>3 DEF ResetEventItemValue, Flagged, o

(* Event lists come to hold other tasks.                                     *)
LEMMA CalmEvents ==
  ASSUME NEW k, NEW x \in Task, Calm(k, x), NEW j, DOMAIN j = Fields, Ranks(k, j), SameLists(k, j),
         j.wake = k.wake, j.tick = k.tick, j.unblock = k.unblock,
         j.pended = k.pended, j.missed = k.missed, j.pendsv = k.pendsv,
         j.order = k.order, DOMAIN j.flags = DOMAIN k.flags, j.nstate = k.nstate,
         j.events \in [EventLists \cup {"pending"} -> Seq(Task)]
  PROVE  Smooth(k, j, x)
<1>1. Shape(j) BY DEF Calm, Good, Sound, Shape, Ranks, SameLists
<1>2. /\ \A u : IsReady(j, u) <=> IsReady(k, u)
      /\ OtherLists(j) /\ Rings(j) /\ Single(j)
  BY SameListsFacts DEF Calm, Good, Sound, Ranks
<1>3. OnTime(j) BY DEF Calm, Good, OnTime, TimedFrom, Alarm, SameLists
<1> QED BY <1>1, <1>2, <1>3 DEF Smooth, Calm, Good, Sound, Ranks

Relisted(k, e, s) == [k EXCEPT !.events[e] = s]
LEMMA CalmRelisted ==
  ASSUME NEW k, NEW x \in Task, Calm(k, x), NEW e, NEW s \in Seq(Task)
  PROVE  Smooth(k, Relisted(k, e, s), x)
<1> DEFINE j == Relisted(k, e, s)
<1>1. DOMAIN k = Fields /\ k.events \in [EventLists \cup {"pending"} -> Seq(Task)]
  BY DEF Calm, Good, Sound, Shape
<1>2. /\ DOMAIN j = Fields /\ Ranks(k, j) /\ SameLists(k, j)
      /\ j.wake = k.wake /\ j.tick = k.tick /\ j.unblock = k.unblock
      /\ j.pended = k.pended /\ j.missed = k.missed /\ j.pendsv = k.pendsv
      /\ j.order = k.order /\ j.flags = k.flags /\ j.nstate = k.nstate
      /\ j.events = [k.events EXCEPT ![e] = s]
  BY <1>1 DEF Relisted, Fields, Ranks, SameLists
<1> HIDE DEF j
<1>3. j.events \in [EventLists \cup {"pending"} -> Seq(Task)] BY <1>1, <1>2
<1>4. Smooth(k, j, x) BY <1>2, <1>3, CalmEvents
<1> QED BY <1>4 DEF j

LEMMA CalmUnevented ==
  ASSUME NEW k, NEW x \in Task, Calm(k, x), NEW t
  PROVE  Smooth(k, Unevent(k, t), x)
<1> DEFINE j == Unevent(k, t)
<1>1. Sound(k) BY DEF Calm, Good
<1>2. /\ Sound(j) /\ Kept(k, j) /\ SameLists(k, j) /\ j.wake = k.wake
  BY <1>1, Unevented, UneventFields DEF Sound
<1> HIDE DEF j
<1>3. Smooth(k, j, x) BY <1>2, CalmEvents DEF Kept, Ranks, Sound, Shape
<1> QED BY <1>3 DEF j

LEMMA CalmReady ==
  ASSUME NEW k, NEW x \in Task, Calm(k, x), NEW t \in Task
  PROVE  Smooth(k, Ready(k, t), x)
<1> DEFINE j == Ready(k, t)
<1>1. /\ Good(j) /\ Kept(k, j) /\ IsReady(j, t) /\ Concerns(k, j, {t})
  BY ReadyAgain, SoundAnyway DEF Calm, Good
<1> HIDE DEF j
<1>2. IsReady(j, x) BY <1>1 DEF Concerns, AsWas, Stays, Calm
<1> QED BY <1>1, <1>2 DEF Smooth, Calm, Kept, Ranks, j

LEMMA CalmReadyOrPend ==
  ASSUME NEW k, NEW x \in Task, Calm(k, x), NEW t \in Task
  PROVE  Smooth(k, ReadyOrPend(k, t), x)
<1>1. k.events["pending"] \in Seq(Task) BY DEF Calm, Good, Sound, Shape
<1>2. Append(k.events["pending"], t) \in Seq(Task) BY <1>1
<1>3. ReadyOrPend(k, t) = IF k.susp = 0 THEN Ready(k, t)
                          ELSE Relisted(k, "pending", Append(k.events["pending"], t))
  BY DEF ReadyOrPend, Relisted
<1> QED BY <1>2, <1>3, CalmReady, CalmRelisted

(* The first task on an event list is taken off it.                          *)
LEMMA CalmRemoved ==
  ASSUME NEW k, NEW x \in Task, Calm(k, x), NEW e \in EventLists, k.events[e] # <<>>
  PROVE  Smooth(k, RemoveFromEventList(k, e), x)
<1> DEFINE t == Head(k.events[e])
           i == Unevent(k, t)
           j == ReadyOrPend(i, t)
           b == j.missed \/ k.prio[t] > k.prio[k.cur]
<1>1. k.events[e] \in Seq(Task) BY DEF Calm, Good, Sound, Shape
<1>2. t \in Task BY <1>1
<1> HIDE DEF t
<1>3. Smooth(k, i, x) BY CalmUnevented
<1> HIDE DEF i
<1>4. Smooth(i, j, x) BY <1>2, <1>3, CalmReadyOrPend DEF Smooth
<1> HIDE DEF j
<1>5. RemoveFromEventList(k, e) = [j EXCEPT !.missed = b]
  <2>1. DOMAIN j = Fields BY <1>4 DEF Smooth, Calm, Good, Sound, Shape
  <2> QED BY <2>1 DEF RemoveFromEventList, j, i, t, Fields
<1>6. j.missed \in BOOLEAN BY <1>4 DEF Smooth, Calm
<1>7. b \in BOOLEAN BY <1>6
<1> HIDE DEF b
<1>8. Smooth(j, [j EXCEPT !.missed = b], x) BY <1>4, <1>7, CalmMissed DEF Smooth
<1> QED BY <1>3, <1>4, <1>5, <1>8, SmoothMore

(* A task is taken off an unordered event list, with what it is to be told.  *)
LEMMA CalmRemovedUnordered ==
  ASSUME NEW k, NEW x \in Task, Calm(k, x), NEW t \in Task, NEW flags
  PROVE  Smooth(k, RemoveFromUnorderedEventList(k, t, flags), x)
<1> DEFINE i == Unevent(k, t)
           j == Ready(i, t)
           b == j.missed \/ k.prio[t] > k.prio[k.cur]
           m == Tells(j, t, flags \cup {"used"})
<1>1. Smooth(k, i, x) BY CalmUnevented
<1> HIDE DEF i
<1>2. Smooth(i, j, x) BY <1>1, CalmReady DEF Smooth
<1>3. RemoveFromUnorderedEventList(k, t, flags) = [m EXCEPT !.missed = b]
  BY <1>2 DEF RemoveFromUnorderedEventList, WakeUp, i, Smooth, Calm, Good, Sound, Shape, Fields, Tells
<1> HIDE DEF j
<1>4. Smooth(j, m, x) BY <1>2, CalmTold DEF Smooth
<1> HIDE DEF m
<1>6. j.missed \in BOOLEAN BY <1>2 DEF Smooth, Calm
<1>7. b \in BOOLEAN BY <1>6
<1> HIDE DEF b
<1>8. Smooth(m, [m EXCEPT !.missed = b], x) BY <1>4, <1>7, CalmMissed DEF Smooth
<1> QED BY <1>1, <1>2, <1>3, <1>4, <1>8, SmoothMore

(* The running task, which is not x, goes to sleep.                          *)
LEMMA CalmSleeps ==
  ASSUME NEW k, NEW x \in Task, Calm(k, x), NEW n \in 1 .. MaxDelay, NEW forever, k.cur # x
  PROVE  Smooth(k, AddCurrentToDelayed(k, n, forever), x)
<1> DEFINE j == AddCurrentToDelayed(k, n, forever)
<1>1. PutToSleep(k, j, n, forever) BY CurrentSleeps DEF Calm
<1> HIDE DEF j
<1>2. IsReady(j, x) BY <1>1 DEF PutToSleep, Moved, Calm
<1> QED BY <1>1, <1>2 DEF PutToSleep, Smooth, Calm, Ranks, Routine, SwitchesAs, j

LEMMA CalmListInsert ==
  ASSUME NEW S, NEW l \in Seq(S), NEW t \in S, NEW value
  PROVE  ListInsert(l, t, value) \in Seq(S)
<1>1. PICK i \in 1 .. Len(l) + 1 : ListInsert(l, t, value) = InsertAt(l, i, t)
  BY InsertPlace
<1> QED BY <1>1, InsertAtFacts

(* And waits on an event list.                                               *)
LEMMA CalmPlaced ==
  ASSUME NEW k, NEW x \in Task, Calm(k, x), NEW n \in 1 .. MaxDelay, k.cur # x, NEW e \in EventLists
  PROVE  /\ Smooth(k, PlaceOnEventList(k, e, n), x)
         /\ \A flags : Smooth(k, PlaceOnUnorderedEventList(k, e, flags, n), x)
<1>1. k.cur \in Task /\ k.events[e] \in Seq(Task) BY DEF Calm, Good, Sound, Shape
<1> DEFINE l == ListInsert(k.events[e], k.cur, k.order)
           i == Relisted(k, e, l)
<1>2. l \in Seq(Task) BY <1>1, CalmListInsert
<1>3. PlaceOnEventList(k, e, n) = AddCurrentToDelayed(i, n, TRUE)
  BY DEF PlaceOnEventList, Relisted
<1> HIDE DEF l
<1>4. Smooth(k, i, x) BY <1>2, CalmRelisted
<1> HIDE DEF i
<1>5. Smooth(i, AddCurrentToDelayed(i, n, TRUE), x) BY <1>4, CalmSleeps DEF Smooth, Ranks
<1>6. Smooth(k, PlaceOnEventList(k, e, n), x) BY <1>3, <1>4, <1>5, SmoothMore
<1>7. ASSUME NEW flags PROVE Smooth(k, PlaceOnUnorderedEventList(k, e, flags, n), x)
  <2> DEFINE a == Append(k.events[e], k.cur)
             g == Relisted(k, e, a)
             h == Tells(g, g.cur, flags \cup {"used"})
  <2>1. a \in Seq(Task) BY <1>1
  <2> HIDE DEF a
  <2>2. Smooth(k, g, x) BY <2>1, CalmRelisted
  <2>3. PlaceOnUnorderedEventList(k, e, flags, n) = AddCurrentToDelayed(h, n, TRUE)
    <3>1. g.cur = k.cur BY <2>2 DEF Smooth, Ranks
    <3>2. DOMAIN k = Fields BY DEF Calm, Good, Sound, Shape
    <3>3. h = [k EXCEPT !.events[e] = a, !.flags[k.cur] = flags \cup {"used"}]
      <4> DEFINE c == g.cur
      <4>1. c = k.cur BY <3>1
      <4> HIDE DEF c
      <4>2. h = [[k EXCEPT !.events[e] = a] EXCEPT !.flags[c] = flags \cup {"used"}]
        BY DEF c, Tells, Relisted
      <4> QED BY <4>1, <4>2, <3>2 DEF Fields
    <3> QED BY <3>3 DEF PlaceOnUnorderedEventList, a
  <2> HIDE DEF g
  <2>4. Smooth(g, h, x) BY <2>2, CalmTold DEF Smooth
  <2> HIDE DEF h
  <2>5. Smooth(h, AddCurrentToDelayed(h, n, TRUE), x)
    BY <2>2, <2>4, CalmSleeps DEF Smooth, Ranks
  <2> QED BY <2>2, <2>3, <2>4, <2>5, SmoothMore
<1> QED BY <1>6, <1>7

LEMMA CalmPlacedRestricted ==
  ASSUME NEW k, NEW x \in Task, Calm(k, x), NEW n, NEW forever \in BOOLEAN, forever \/ n \in 1 .. MaxDelay,
         k.cur # x, NEW e \in EventLists
  PROVE  Smooth(k, PlaceOnEventListRestricted(k, e, n, forever), x)
<1>1. k.cur \in Task /\ k.events[e] \in Seq(Task) BY DEF Calm, Good, Sound, Shape
<1> DEFINE a == Append(k.events[e], k.cur)
           g == Relisted(k, e, a)
           m == IF forever THEN MaxDelay ELSE n
<1>2. PlaceOnEventListRestricted(k, e, n, forever) = AddCurrentToDelayed(g, m, forever)
  BY DEF PlaceOnEventListRestricted, Relisted
<1>3. a \in Seq(Task) BY <1>1
<1>4. m \in 1 .. MaxDelay
  <2>1. MaxDelay \in 1 .. MaxDelay BY TaskListsAssumption DEF MaxDelay
  <2>2. CASE forever BY <2>1, <2>2, Zenon
  <2>3. CASE ~forever BY <2>3, Zenon
  <2> QED BY <2>2, <2>3, Zenon
<1> HIDE DEF a, m
<1>5. Smooth(k, g, x) BY <1>3, CalmRelisted
<1> HIDE DEF g
<1>6. Smooth(g, AddCurrentToDelayed(g, m, forever), x) BY <1>4, <1>5, CalmSleeps DEF Smooth, Ranks
<1> QED BY <1>2, <1>5, <1>6, SmoothMore

(* The scheduler runs again.                                                 *)
LEMMA CalmResumed ==
  ASSUME NEW k, NEW x \in Task, Calm(k, x), k.susp = 1
  PROVE  LET j == ResumeAll(k)
         IN /\ Calm(j, x) /\ j.susp = 0 /\ j.cur = k.cur /\ j.prio = k.prio
            /\ j.base = k.base /\ j.held = k.held
<1> DEFINE j == ResumeAll(k)
<1>1. Resumed(k, j) BY ResumedAll DEF Calm
<1> HIDE DEF j
<1>2. Good(j) /\ Routine(k, j) /\ j.susp = 0 /\ j.pended = 0 /\ j.missed \in BOOLEAN
      /\ j.pendsv = (k.pendsv \/ j.missed) /\ IsReady(j, x)
  BY <1>1 DEF Resumed, Calm
<1>3. j.pendsv \in BOOLEAN BY <1>2 DEF Calm
<1> QED BY <1>2, <1>3 DEF Calm, Routine, j

(* A tick, and the switch it asks for.                                       *)
LEMMA CalmTicked ==
  ASSUME NEW k, NEW x \in Task, Calm(k, x)
  PROVE  LET r == IncrementTick(k) IN Smooth(k, [r.kernel EXCEPT !.pendsv = r.switch], x)
<1> DEFINE r == IncrementTick(k)
           i == r.kernel
           j == [i EXCEPT !.pendsv = r.switch]
<1>0. DOMAIN k = Fields BY DEF Calm, Good, Sound, Shape
<1>1. CASE k.susp > 0
  <2>1. i = [k EXCEPT !.pended = @ + 1] /\ r.switch = FALSE BY <1>1 DEF IncrementTick
  <2>2. /\ ListsAs(k, i) /\ Routine(k, i) /\ i.susp = k.susp /\ i.pended = k.pended + 1
        /\ i.missed = k.missed /\ i.pendsv = k.pendsv
    BY <1>0, <2>1, PendedFields
  <2>3. Good(i) /\ IsReady(i, x) BY <2>2, GoodAs DEF Calm
  <2>4. i.pended \in Nat BY <2>2 DEF Calm
  <2>5. r.switch \in BOOLEAN BY <2>1
  <2> HIDE DEF r
  <2>6. Calm(i, x) /\ Ranks(k, i) BY <2>2, <2>3, <2>4 DEF Calm, Routine, Ranks
  <2>7. Smooth(i, j, x) BY <2>5, <2>6, CalmPendsv DEF Smooth
  <2> HIDE DEF i, j
  <2>8. Smooth(k, j, x) BY <2>6, <2>7 DEF Smooth, Ranks
  <2> QED BY <2>8 DEF j, i, r
<1>2. CASE ~(k.susp > 0)
  <2>1. /\ Lapsed(k, i, DueAt(k, NextTick(k))) /\ OnTime(i) /\ r.switch \in BOOLEAN
    BY <1>2, TickCounted DEF Calm
  <2> HIDE DEF r
  <2>2. Good(i) /\ IsReady(i, x) BY <2>1 DEF Lapsed, Good, Calm
  <2>3. Calm(i, x) /\ Ranks(k, i) BY <2>1, <2>2 DEF Lapsed, Calm, Routine, SwitchesAs, Ranks
  <2>4. Smooth(i, j, x) BY <2>1, <2>3, CalmPendsv DEF Smooth
  <2> HIDE DEF i, j
  <2>5. Smooth(k, j, x) BY <2>3, <2>4 DEF Smooth, Ranks
  <2> QED BY <2>5 DEF j, i, r
<1> QED BY <1>1, <1>2

(* Another task, or the same, runs.                                          *)
LEMMA CalmSwitched ==
  ASSUME NEW k, NEW x \in Task, Calm(k, x)
  PROVE  LET j == SwitchContext([k EXCEPT !.pendsv = FALSE])
         IN /\ Calm(j, x) /\ j.susp = k.susp /\ (k.susp > 0 => j.cur = k.cur) /\ j.prio = k.prio
            /\ j.base = k.base /\ j.held = k.held
<1> DEFINE i == [k EXCEPT !.pendsv = FALSE]
           j == SwitchContext(i)
<1>1. Smooth(k, i, x) BY CalmPendsv
<1> HIDE DEF i
<1>2. CASE k.susp > 0
  <2>1. j = [i EXCEPT !.missed = TRUE] BY <1>1, <1>2 DEF SwitchContext, Smooth, Ranks
  <2>2. Smooth(i, j, x) BY <1>1, <2>1, CalmMissed DEF Smooth
  <2> HIDE DEF j
  <2> QED BY <1>1, <2>2 DEF Smooth, Ranks, j, i
<1>3. CASE ~(k.susp > 0)
  <2>1. Good(i) /\ IsReady(i, x) /\ ~(i.susp > 0) BY <1>1, <1>3 DEF Smooth, Calm, Ranks
  <2>2. Switched(i, j) BY <2>1, SwitchedTo
  <2>3. DOMAIN i = Fields BY <2>1 DEF Good, Sound, Shape
  <2>4. j.held = i.held /\ j.order = i.order /\ j.flags = i.flags
    BY <2>1, <2>3 DEF SwitchContext, Fields
  <2> HIDE DEF j
  <2>5. IsReady(j, x) BY <2>1, <2>2 DEF Switched, Concerns, AsWas, Stays
  <2> QED BY <1>1, <1>3, <2>2, <2>4, <2>5 DEF Smooth, Ranks, Calm, Switched, Titles, SwitchesAs, j, i
<1> QED BY <1>2, <1>3

(* A priority changes: that of the holder of a mutex.                        *)
Regraded(k, j, t, p) ==
  /\ j.cur = k.cur /\ j.prio = [k.prio EXCEPT ![t] = p] /\ j.base = k.base /\ j.held = k.held
  /\ j.susp = k.susp
LEMMA CalmReranked ==
  ASSUME NEW k, NEW x \in Task, Calm(k, x), NEW t \in Task, NEW p \in Levels, NEW b \in Levels,
         NEW o, o \in Urgencies
  PROVE  LET j == Reranked(k, t, p, b, o)
         IN /\ Calm(j, x) /\ j.cur = k.cur /\ j.prio = [k.prio EXCEPT ![t] = p]
            /\ j.base = [k.base EXCEPT ![t] = b] /\ j.held = k.held /\ j.susp = k.susp
<1> DEFINE j == Reranked(k, t, p, b, o)
<1>1. Good(k) BY DEF Calm
<1>2. Repriced(k, j, t, p, b, o) BY <1>1, PriorityChanged
<1> HIDE DEF j
<1>3. IsReady(j, x) BY <1>2 DEF Repriced, Stays, Concerns, AsWas, Calm
<1>4. /\ j.order \in [Task -> Urgencies] /\ DOMAIN j.flags = Task /\ DOMAIN j.nstate = Task
      /\ j.held \in [Task -> Int]
  <2>1. k.order \in [Task -> Urgencies] BY DEF Calm
  <2>2. j.order \in [Task -> Urgencies] BY <1>2, <2>1 DEF Repriced
  <2> QED BY <1>2, <2>2 DEF Repriced, Calm
<1>5. /\ j.susp = k.susp /\ j.pended = k.pended /\ j.pendsv = k.pendsv /\ j.cur = k.cur
  BY <1>2 DEF Repriced, Clock, SwitchesAs
<1>6. Calm(j, x) BY <1>2, <1>3, <1>4, <1>5 DEF Repriced, Calm
<1> QED BY <1>2, <1>5, <1>6 DEF Repriced, j

LEMMA CalmChanged ==
  ASSUME NEW k, NEW x \in Task, Calm(k, x), NEW t \in Task, NEW p \in Levels
  PROVE  LET j == ChangePriority(k, t, p) IN Calm(j, x) /\ Regraded(k, j, t, p)
<1> DEFINE b == k.base[t]
           o == IF k.flags[t] = {} THEN Priorities - p ELSE k.order[t]
           j == Reranked(k, t, p, b, o)
<1>1. DOMAIN k = Fields /\ k.base \in [Task -> Levels] BY DEF Calm, Good, Sound, Shape
<1>2. [k.base EXCEPT ![t] = b] = k.base /\ b \in Levels BY <1>1
<1>3. ChangePriority(k, t, p) = j
  <2>1. Ranked(k, t, p, b, o) = [k EXCEPT !.prio[t] = p, !.order[t] = o]
    <3> HIDE DEF o
    <3> QED BY <1>1, <1>2 DEF Ranked, Fields
  <2>2. [k EXCEPT !.prio[t] = p, !.order[t] = IF k.flags[t] = {} THEN Priorities - p ELSE @] =
          [k EXCEPT !.prio[t] = p, !.order[t] = o]
    OBVIOUS
  <2> QED BY <2>1, <2>2 DEF ChangePriority, Reranked
<1>5. o \in Urgencies
  <2>1. k.order[t] \in Urgencies BY DEF Calm
  <2> QED BY <2>1, LevelUrgency
<1> HIDE DEF b, o
<1>4. /\ Calm(j, x) /\ j.cur = k.cur /\ j.prio = [k.prio EXCEPT ![t] = p]
      /\ j.base = [k.base EXCEPT ![t] = b] /\ j.held = k.held /\ j.susp = k.susp
  BY <1>2, <1>5, CalmReranked
<1> HIDE DEF j
<1> QED BY <1>2, <1>3, <1>4 DEF Regraded

LEMMA CalmInherits ==
  ASSUME NEW k, NEW x \in Task, Calm(k, x), NEW t
  PROVE  LET j == Inherit(k, t)
         IN Calm(j, x) /\ (j = k \/ (t \in Task /\ \E p \in Levels : Regraded(k, j, t, p)))
<1>1. k.prio[k.cur] \in Levels BY DEF Calm, Good, Sound, Shape
<1> QED BY <1>1, CalmChanged DEF Inherit

LEMMA CalmDisinheritsLate ==
  ASSUME NEW k, NEW x \in Task, Calm(k, x), NEW t, NEW w \in Levels
  PROVE  LET j == DisinheritAfterTimeout(k, t, w)
         IN Calm(j, x) /\ (j = k \/ (t \in Task /\ k.held[t] = 1 /\ \E p \in Levels : Regraded(k, j, t, p)))
<1>1. ASSUME t \in Task PROVE (IF k.base[t] < w THEN w ELSE k.base[t]) \in Levels
  BY <1>1 DEF Calm, Good, Sound, Shape
<1> QED BY <1>1, CalmChanged DEF DisinheritAfterTimeout

(* The count of the mutexes the running task holds.                          *)
Holds(k, n) == [k EXCEPT !.held[k.cur] = n]
LEMMA CalmHolds ==
  ASSUME NEW k, NEW x \in Task, Calm(k, x), NEW n \in Int
  PROVE  LET j == Holds(k, n)
         IN /\ Calm(j, x) /\ j.cur = k.cur /\ j.susp = k.susp /\ j.prio = k.prio /\ j.base = k.base
            /\ j.held = [k.held EXCEPT ![k.cur] = n] /\ j.events = k.events /\ j.flags = k.flags
<1> DEFINE j == Holds(k, n)
<1>1. DOMAIN k = Fields BY DEF Calm, Good, Sound, Shape
<1>2. /\ ListsAs(k, j) /\ j.pended = k.pended /\ j.susp = k.susp
      /\ j.missed = k.missed /\ j.pendsv = k.pendsv /\ j.nstate = k.nstate
      /\ j.flags = k.flags /\ j.order = k.order /\ j.held = [k.held EXCEPT ![k.cur] = n]
  BY <1>1 DEF Holds, ListsAs, Fields, SameLists
<1> HIDE DEF j
<1>3. Good(j) /\ IsReady(j, x) BY <1>2, GoodAs DEF Calm
<1>4. j.held \in [Task -> Int] BY <1>2 DEF Calm
<1> QED BY <1>2, <1>3, <1>4 DEF Calm, ListsAs, j

(* A mutex is given back, and with the last one the priority it lent.        *)
LEMMA CalmDisinherits ==
  ASSUME NEW k, NEW x \in Task, Calm(k, x)
  PROVE  LET j == Disinherit(k)
         IN /\ Calm(j, x) /\ j.cur = k.cur /\ j.susp = k.susp /\ j.base = k.base
            /\ j.held = [k.held EXCEPT ![k.cur] = @ - 1]
            /\ j.prio = IF MustDisinherit(k) THEN [k.prio EXCEPT ![k.cur] = k.base[k.cur]] ELSE k.prio
<1> DEFINE c == k.cur
           i == Holds(k, k.held[c] - 1)
           b == k.base[c]
           o == Priorities - b
<1>1. /\ DOMAIN k = Fields /\ c \in Task /\ k.held[c] \in Int /\ b \in Levels
      /\ k.base \in [Task -> Levels] /\ k.prio \in [Task -> Levels] /\ k.order \in [Task -> Urgencies]
      /\ c = k.cur /\ b = k.base[c]
  BY DEF Calm, Good, Sound, Shape
<1>2. /\ Calm(i, x) /\ i.cur = k.cur /\ i.susp = k.susp /\ i.prio = k.prio /\ i.base = k.base
      /\ i.held = [k.held EXCEPT ![k.cur] = k.held[c] - 1] /\ i.events = k.events /\ i.flags = k.flags
  <2>1. k.held[c] - 1 \in Int BY <1>1
  <2> HIDE DEF c
  <2> QED BY <2>1, CalmHolds
<1>3. i = [k EXCEPT !.held[k.cur] = @ - 1] BY DEF Holds
<1>6. o \in Urgencies BY <1>1, LevelUrgency
<1>4. CASE ~MustDisinherit(k)
  BY <1>2, <1>3, <1>4 DEF Disinherit
<1>5. CASE MustDisinherit(k)
  <2> HIDE DEF i, b, c
  <2> DEFINE g == [i EXCEPT !.prio[c] = b]
  <2>2. DOMAIN i = Fields BY <1>2 DEF Calm, Good, Sound, Shape
  <2>3. /\ DOMAIN g = Fields /\ SameLists(i, g) /\ g.wake = i.wake /\ g.events = i.events
        /\ g.tick = i.tick /\ g.unblock = i.unblock /\ g.cur = i.cur /\ g.base = i.base
        /\ g.prio = [i.prio EXCEPT ![c] = b] /\ g.held = i.held /\ g.susp = i.susp
        /\ g.pended = i.pended /\ g.missed = i.missed /\ g.pendsv = i.pendsv
        /\ g.order = i.order /\ g.flags = i.flags /\ g.nstate = i.nstate
    BY <2>2 DEF SameLists, Fields
  <2> HIDE DEF g
  <2>4. Shape(g) BY <1>1, <1>2, <2>3 DEF Calm, Good, Sound, Shape, SameLists
  <2>5. /\ OtherLists(g) /\ Single(g) /\ \A u : IsReady(g, u) <=> IsReady(i, u)
    BY <1>2, <2>3, SameListsFacts DEF Calm, Good, Sound
  <2>6. RingsBut(g, c)
    <3>1. \A u \in Task \ {c} : g.prio[u] = i.prio[u] BY <1>1, <1>2, <2>3
    <3> QED BY <1>2, <2>3, <3>1 DEF Calm, Good, Sound, Rings, RingsBut, SameLists
  <2>7. OnTime(g) BY <1>2, <2>3 DEF Calm, Good, OnTime, TimedFrom, Alarm, SameLists
  <2> DEFINE h == Ready(g, c)
  <2>8. Good(h) /\ Kept(g, h) /\ IsReady(h, c) /\ Concerns(g, h, {c})
    BY <1>1, <2>4, <2>5, <2>6, <2>7, ReadyAgain DEF SoundBut
  <2>9. Disinherit(k) = [h EXCEPT !.order[c] = o]
    BY <1>1, <1>3, <1>5, <2>2 DEF Disinherit, g, c
  <2> HIDE DEF h, o
  <2>10. IsReady(h, x) BY <1>2, <2>5, <2>8 DEF Concerns, AsWas, Stays, Calm
  <2>11. Calm(h, x) BY <1>1, <1>2, <2>3, <2>8, <2>10 DEF Calm, Kept
  <2> DEFINE f == [h EXCEPT !.order[c] = o]
  <2>12. DOMAIN h = Fields BY <2>8 DEF Good, Sound, Shape
  <2>13. /\ ListsAs(h, f) /\ Ranks(h, f) /\ f.pended = h.pended
         /\ f.missed = h.missed /\ f.pendsv = h.pendsv /\ f.nstate = h.nstate
         /\ f.flags = h.flags /\ f.order = [h.order EXCEPT ![c] = o]
    BY <2>12 DEF ListsAs, Fields, SameLists, Ranks
  <2> HIDE DEF f
  <2>14. Good(f) /\ IsReady(f, x) BY <2>8, <2>10, <2>13, GoodAs
  <2>15. Calm(f, x)
    <3>1. f.order \in [Task -> Urgencies] BY <1>6, <2>11, <2>13 DEF Calm
    <3> QED BY <2>11, <2>13, <2>14, <3>1 DEF Calm, Ranks
  <2>16. /\ f.cur = k.cur /\ f.susp = k.susp /\ f.base = k.base /\ f.held = i.held
         /\ f.prio = [k.prio EXCEPT ![c] = b]
    BY <1>2, <2>3, <2>8, <2>13 DEF Kept, Ranks
  <2> QED BY <1>1, <1>2, <1>5, <2>9, <2>15, <2>16 DEF f
<1> QED BY <1>4, <1>5
=============================================================================
