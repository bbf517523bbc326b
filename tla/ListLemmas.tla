------------------------------ MODULE ListLemmas ------------------------------
(***************************************************************************)
(* Facts about lists without repetition, such as those of free and of      *)
(* deployed SGroups (appending, taking the last element, concatenation,    *)
(* length), and about loops, as functions on the numbers of their rounds,  *)
(* with the induction they need.                                           *)
(***************************************************************************)
EXTENDS SequencesExt, SequenceTheorems, FiniteSetTheorems, WellFoundedInduction, TLAPS

\* Appending any element.
LEMMA RangeOfAppend ==
  ASSUME NEW S, NEW s \in Seq(S), NEW x \in S
  PROVE  Range(Append(s, x)) = Range(s) \cup {x}
  <1> DEFINE t == Append(s, x)
  <1>1. /\ t \in Seq(S) /\ Len(t) = Len(s) + 1 /\ t[Len(s) + 1] = x
        /\ \A i \in 1..Len(s) : t[i] = s[i]
    BY AppendProperties
  <1>2. Len(s) \in Nat /\ DOMAIN s = 1..Len(s) /\ DOMAIN t = 1..(Len(s) + 1)
    BY <1>1, LenProperties
  <1> HIDE DEF t
  <1>3. ASSUME NEW y \in Range(t) PROVE y \in Range(s) \cup {x}
    BY <1>1, <1>2 DEF Range
  <1>4. ASSUME NEW y \in Range(s) PROVE y \in Range(t)
    <2>1. PICK i \in 1..Len(s) : y = s[i] BY <1>2 DEF Range
    <2> QED BY <2>1, <1>1, <1>2 DEF Range
  <1>5. x \in Range(t) BY <1>1, <1>2 DEF Range
  <1> QED BY <1>3, <1>4, <1>5 DEF t

\* Appending an element a list does not have.
LEMMA AppendFresh ==
  ASSUME NEW S, NEW s \in Seq(S), NEW x \in S, IsInjective(s), x \notin Range(s)
  PROVE  /\ Append(s, x) \in Seq(S) /\ IsInjective(Append(s, x))
         /\ Range(Append(s, x)) = Range(s) \cup {x}
  <1> DEFINE t == Append(s, x)
  <1>1. /\ t \in Seq(S) /\ Len(t) = Len(s) + 1 /\ t[Len(s) + 1] = x
        /\ \A i \in 1..Len(s) : t[i] = s[i]
    BY AppendProperties
  <1>2. Len(s) \in Nat /\ DOMAIN s = 1..Len(s) /\ DOMAIN t = 1..(Len(s) + 1)
    BY <1>1, LenProperties
  <1> HIDE DEF t
  <1>3. \A i \in 1..Len(s) : s[i] # x BY <1>2 DEF Range
  <1>4. IsInjective(t) BY <1>1, <1>2, <1>3 DEF IsInjective
  <1>5. Range(t) = Range(s) \cup {x} BY RangeOfAppend DEF t
  <1> QED BY <1>1, <1>4, <1>5 DEF t

\* Taking the last element off.
LEMMA FrontAndLast ==
  ASSUME NEW S, NEW s \in Seq(S), s # <<>>, IsInjective(s)
  PROVE  /\ Last(s) \in S /\ Last(s) \in Range(s)
         /\ Front(s) \in Seq(S) /\ IsInjective(Front(s))
         /\ Range(Front(s)) = Range(s) \ {Last(s)}
  <1> DEFINE n == Len(s)
             t == SubSeq(s, 1, n - 1)
  <1>1. n \in Nat \ {0} /\ DOMAIN s = 1..n /\ \A i \in 1..n : s[i] \in S
    BY EmptySeq, LenProperties, ElementOfSeq
  <1>2. t \in Seq(S) /\ Len(t) = n - 1 /\ \A i \in 1..(n - 1) : t[i] = s[i]
    BY <1>1, SubSeqProperties
  <1>3. DOMAIN t = 1..(n - 1) BY <1>2, LenProperties
  <1>4. Front(s) = t /\ Last(s) = s[n] BY DEF Front, Last
  <1> HIDE DEF t, n
  <1>5. s[n] \in S /\ s[n] \in Range(s) BY <1>1 DEF Range
  <1>6. IsInjective(t) BY <1>1, <1>2, <1>3 DEF IsInjective
  <1>7. Range(t) = Range(s) \ {s[n]}
    <2>1. ASSUME NEW y \in Range(t) PROVE y \in Range(s) \ {s[n]}
      <3>1. PICK i \in 1..(n - 1) : y = t[i] BY <1>3 DEF Range
      <3>2. y = s[i] /\ i \in 1..n /\ i # n BY <3>1, <1>1, <1>2
      <3> QED BY <3>2, <1>1 DEF Range, IsInjective
    <2>2. ASSUME NEW y \in Range(s) \ {s[n]} PROVE y \in Range(t)
      <3>1. PICK i \in 1..n : y = s[i] BY <1>1 DEF Range
      <3>2. i \in 1..(n - 1) BY <3>1, <2>2, <1>1
      <3> QED BY <3>1, <3>2, <1>2, <1>3 DEF Range
    <2> QED BY <2>1, <2>2
  <1> QED BY <1>2, <1>4, <1>5, <1>6, <1>7

\* Two lists without a common element.
LEMMA ConcatInjective ==
  ASSUME NEW S, NEW s \in Seq(S), NEW t \in Seq(S),
         IsInjective(s), IsInjective(t), Range(s) \cap Range(t) = {}
  PROVE  IsInjective(s \o t)
  <1> DEFINE u == s \o t
  <1>1. /\ u \in Seq(S) /\ Len(u) = Len(s) + Len(t)
        /\ \A i \in 1..Len(s) + Len(t) : u[i] = IF i <= Len(s) THEN s[i] ELSE t[i - Len(s)]
    BY ConcatProperties
  <1>2. /\ Len(s) \in Nat /\ Len(t) \in Nat /\ DOMAIN s = 1..Len(s) /\ DOMAIN t = 1..Len(t)
        /\ DOMAIN u = 1..Len(s) + Len(t)
    BY <1>1, LenProperties
  <1> HIDE DEF u
  <1>3. \A i \in 1..Len(s), j \in 1..Len(t) : s[i] # t[j] BY <1>2 DEF Range
  <1>4. IsInjective(u)
    <2> SUFFICES ASSUME NEW i \in 1..Len(s) + Len(t), NEW j \in 1..Len(s) + Len(t),
                        u[i] = u[j]
                 PROVE  i = j
      BY <1>2 DEF IsInjective
    <2>1. CASE i <= Len(s) /\ j <= Len(s)
      BY <1>1, <1>2, <2>1 DEF IsInjective
    <2>2. CASE i > Len(s) /\ j > Len(s)
      <3>1. i - Len(s) \in 1..Len(t) /\ j - Len(s) \in 1..Len(t) BY <1>2, <2>2
      <3>2. t[i - Len(s)] = t[j - Len(s)] BY <1>1, <1>2, <2>2
      <3>3. i - Len(s) = j - Len(s) BY <3>1, <3>2, <1>2 DEF IsInjective
      <3> QED BY <3>3, <1>2
    <2>3. CASE i <= Len(s) /\ j > Len(s)
      <3>1. i \in 1..Len(s) /\ j - Len(s) \in 1..Len(t) BY <1>2, <2>3
      <3> QED BY <3>1, <1>1, <1>2, <1>3, <2>3
    <2>4. CASE i > Len(s) /\ j <= Len(s)
      <3>1. j \in 1..Len(s) /\ i - Len(s) \in 1..Len(t) BY <1>2, <2>4
      <3> QED BY <3>1, <1>1, <1>2, <1>3, <2>4
    <2> QED BY <1>2, <2>1, <2>2, <2>3, <2>4
  <1> QED BY <1>4 DEF u

\* A list without repetition is as long as its range has elements.
LEMMA LenIsCardinality ==
  ASSUME NEW S, NEW s \in Seq(S), IsInjective(s)
  PROVE  IsFiniteSet(Range(s)) /\ Cardinality(Range(s)) = Len(s)
  <1>1. Len(s) \in Nat /\ DOMAIN s = 1..Len(s) /\ s \in [1..Len(s) -> Range(s)]
    BY LenProperties DEF Range
  <1>2. IsFiniteSet(1..Len(s)) /\ Cardinality(1..Len(s)) = Len(s) BY <1>1, FS_Interval
  <1>3. ExistsBijection(1..Len(s), Range(s))
    <2>1. s \in Injection(1..Len(s), Range(s)) BY <1>1 DEF Injection, IsInjective
    <2>2. s \in Surjection(1..Len(s), Range(s)) BY <1>1 DEF Surjection, Range
    <2> QED BY <2>1, <2>2 DEF ExistsBijection, Bijection
  <1> QED BY <1>2, <1>3, FS_Bijection

-----------------------------------------------------------------------------
(* Induction. *)

\* Every set of natural numbers has a least element.
LEMMA LeastNumber ==
  ASSUME NEW P \in SUBSET Nat, P # {}
  PROVE  \E m \in P : \A n \in P : m <= n
  <1>1. PICK R : R = OpToRel(<, Nat) /\ IsWellFoundedOn(R, Nat)
    BY NatLessThanWellFounded, Zenon
  <1>2. \A x, y \in Nat : <<x, y>> \in R <=> x < y BY <1>1, Zenon DEF OpToRel
  <1>3. PICK m \in P : \A n \in P : <<n, m>> \notin R BY <1>1, WFMin
  <1>4. \A n \in P : n \in Nat /\ m \in Nat OBVIOUS
  <1>5. \A n \in P : ~(n < m) BY <1>2, <1>3, <1>4
  <1> QED BY <1>4, <1>5

\* Induction: a set with 0 and every successor has all natural numbers.
LEMMA Induction ==
  ASSUME NEW P, 0 \in P, \A n \in Nat : n \in P => n + 1 \in P
  PROVE  \A n \in Nat : n \in P
  <1> SUFFICES ASSUME Nat \ P # {} PROVE FALSE OBVIOUS
  <1>1. PICK m \in Nat \ P : \A n \in Nat \ P : m <= n BY LeastNumber
  <1>2. m - 1 \in Nat /\ m - 1 \in P BY <1>1
  <1>3. m - 1 + 1 = m BY <1>1
  <1> QED BY <1>1, <1>2, <1>3

-----------------------------------------------------------------------------
(* Loops. *)

\* The states of a loop from init, in S, whose round n + 1 is f[n + 1].
IsLoop(g, S, init, f) ==
    /\ g \in [Nat -> S] /\ g[0] = init
    /\ \A n \in Nat : g[n + 1] = f[n + 1][g[n]]

\* A loop that keeps to a set of states has a state after every round.
LEMMA LoopExists ==
  ASSUME NEW S, NEW init \in S, NEW f \in [Nat -> [S -> S]]
  PROVE  \E g : IsLoop(g, S, init, f)
  <1> DEFINE Upto(n, g) == \A k \in 0..n : g[k] = IF k = 0 THEN init ELSE f[k][g[k - 1]]
             P == {n \in Nat : \E g \in [0..n -> S] : Upto(n, g)}
  <1>1. 0 \in P
    <2>1. [k \in 0..0 |-> init] \in [0..0 -> S] /\ Upto(0, [k \in 0..0 |-> init]) OBVIOUS
    <2> QED BY <2>1
  <1>2. ASSUME NEW n \in Nat, n \in P PROVE n + 1 \in P
    <2>1. PICK g \in [0..n -> S] : Upto(n, g) BY <1>2
    <2>2. PICK h : h = [k \in 0..(n + 1) |-> IF k = n + 1 THEN f[n + 1][g[n]] ELSE g[k]] OBVIOUS
    <2>3. f[n + 1] \in [S -> S] /\ g[n] \in S OBVIOUS
    <2>4. h \in [0..(n + 1) -> S] BY <2>2, <2>3
    <2>5. Upto(n + 1, h)
      <3> SUFFICES ASSUME NEW k \in 0..(n + 1)
                   PROVE  h[k] = IF k = 0 THEN init ELSE f[k][h[k - 1]]
        OBVIOUS
      <3>1. CASE k = n + 1
        <4>1. h[k] = f[k][g[n]] /\ h[n] = g[n] /\ k - 1 = n BY <2>2, <3>1
        <4> QED BY <4>1, <3>1
      <3>2. CASE k # n + 1
        <4>1. k \in 0..n /\ h[k] = g[k] BY <2>2, <3>2
        <4>2. k # 0 => k - 1 \in 0..n /\ h[k - 1] = g[k - 1] BY <2>2, <4>1
        <4> QED BY <2>1, <4>1, <4>2
      <3> QED BY <3>1, <3>2
    <2> QED BY <2>4, <2>5
  <1>3. \A n \in Nat : \E g \in [0..n -> S] : Upto(n, g)
    <2> HIDE DEF P, Upto
    <2>1. \A n \in Nat : n \in P BY <1>1, <1>2, Induction
    <2> QED BY <2>1 DEF P
  <1>4. \A n \in Nat : \A g, h : g \in [0..n -> S] /\ Upto(n, g) /\ Upto(n, h) => g[n] = h[n]
    <2> DEFINE Q == {n \in Nat : \A g, h : Upto(n, g) /\ Upto(n, h) => g[n] = h[n]}
    <2>1. 0 \in Q OBVIOUS
    <2>2. ASSUME NEW n \in Nat, n \in Q PROVE n + 1 \in Q
      <3> SUFFICES ASSUME NEW g, NEW h, Upto(n + 1, g), Upto(n + 1, h)
                   PROVE  g[n + 1] = h[n + 1]
        OBVIOUS
      <3>1. Upto(n, g) /\ Upto(n, h) OBVIOUS
      <3>2. g[n] = h[n] BY <2>2, <3>1
      <3>3. g[n + 1] = f[n + 1][g[n]] /\ h[n + 1] = f[n + 1][h[n]] OBVIOUS
      <3> QED BY <3>2, <3>3
    <2> HIDE DEF Q, Upto
    <2>3. \A n \in Nat : n \in Q BY <2>1, <2>2, Induction
    <2> QED BY <2>3 DEF Q
  <1> DEFINE upto == [n \in Nat |-> CHOOSE g \in [0..n -> S] : Upto(n, g)]
             loop == [n \in Nat |-> upto[n][n]]
  <1>5. \A n \in Nat : upto[n] \in [0..n -> S] /\ Upto(n, upto[n])
    <2> HIDE DEF Upto
    <2> QED BY <1>3
  <1> HIDE DEF upto
  <1>6. loop \in [Nat -> S] BY <1>5
  <1>7. ASSUME NEW n \in Nat PROVE loop[n] = IF n = 0 THEN init ELSE f[n][loop[n - 1]]
    <2>1. upto[n][n] = IF n = 0 THEN init ELSE f[n][upto[n][n - 1]] BY <1>5
    <2>2. ASSUME n # 0 PROVE upto[n][n - 1] = loop[n - 1]
      <3>1. n - 1 \in Nat BY <2>2
      <3>2. Upto(n - 1, upto[n]) BY <1>5, <3>1
      <3>3. upto[n - 1] \in [0..(n - 1) -> S] /\ Upto(n - 1, upto[n - 1]) BY <1>5, <3>1
      <3> HIDE DEF Upto
      <3>4. upto[n - 1][n - 1] = upto[n][n - 1] BY <1>4, <3>1, <3>2, <3>3
      <3> QED BY <3>1, <3>4
    <2> QED BY <2>1, <2>2
  <1> HIDE DEF loop
  <1>8. ASSUME NEW n \in Nat PROVE loop[n + 1] = f[n + 1][loop[n]]
    <2>1. n + 1 \in Nat /\ n + 1 # 0 /\ n + 1 - 1 = n OBVIOUS
    <2> QED BY <1>7, <2>1
  <1>9. loop[0] = init BY <1>7
  <1> QED BY <1>6, <1>8, <1>9 DEF IsLoop
===============================================================================
