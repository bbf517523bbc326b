--------------------------- MODULE IndexPoolProofs ---------------------------
(***************************************************************************)
(* That the slice of an IndexPool is a heap after each of its operations,  *)
(* that a push adds and a pop removes exactly one number, and that the     *)
(* number a pop takes is the least.  The loops of container/heap are       *)
(* functions on the natural numbers; induction is over sets of numbers.    *)
(***************************************************************************)
EXTENDS IndexPool, ListLemmas

(* Heaps. *)

\* Every element but the first is at least as large as its parent.
Ordered(h) == \A k \in 2..Len(h) : h[k \div 2] <= h[k]

\* The slice of a pool has no number twice and is a heap.
IsPool(h) == h \in Seq(Int) /\ IsInjective(h) /\ Ordered(h)

\* Exchanging two elements keeps the numbers of a slice.
LEMMA SwapKeeps ==
  ASSUME NEW h \in Seq(Int), NEW i \in 1..Len(h), NEW j \in 1..Len(h)
  PROVE  /\ Swap(h, i, j) \in Seq(Int) /\ Len(Swap(h, i, j)) = Len(h)
         /\ Swap(h, i, j)[i] = h[j] /\ Swap(h, i, j)[j] = h[i]
         /\ \A k \in 1..Len(h) : k # i /\ k # j => Swap(h, i, j)[k] = h[k]
         /\ Range(Swap(h, i, j)) = Range(h)
         /\ IsInjective(h) => IsInjective(Swap(h, i, j))
  <1> DEFINE t == Swap(h, i, j)
  <1>1. Len(h) \in Nat /\ DOMAIN h = 1..Len(h) /\ \A k \in 1..Len(h) : h[k] \in Int
    BY LenProperties, ElementOfSeq
  <1>2. /\ t \in [1..Len(h) -> Int]
        /\ \A k \in 1..Len(h) : t[k] = IF k = j THEN h[i] ELSE IF k = i THEN h[j] ELSE h[k]
    BY <1>1 DEF Swap
  <1>3. t \in Seq(Int) /\ Len(t) = Len(h) BY <1>1, <1>2, SeqDef, LenProperties
  <1> HIDE DEF t
  <1>4. Range(t) = Range(h)
    <2>1. ASSUME NEW k \in 1..Len(h) PROVE t[k] \in Range(h) BY <1>1, <1>2 DEF Range
    <2>2. ASSUME NEW k \in 1..Len(h) PROVE h[k] \in Range(t)
      <3>1. PICK m \in 1..Len(h) : t[m] = h[k]
        <4>1. CASE k = i BY <1>2, <4>1
        <4>2. CASE k = j BY <1>2, <4>2
        <4>3. CASE k # i /\ k # j BY <1>2, <4>3
        <4> QED BY <4>1, <4>2, <4>3
      <3> QED BY <3>1, <1>2 DEF Range
    <2> QED BY <2>1, <2>2, <1>1, <1>2 DEF Range
  <1>5. IsInjective(h) => IsInjective(t) BY <1>1, <1>2 DEF IsInjective
  <1> QED BY <1>2, <1>3, <1>4, <1>5 DEF t

\* A heap but for the element at j, which may be less than its parent.
OrderedBut(h, j) ==
    /\ \A k \in 2..Len(h) : k # j => h[k \div 2] <= h[k]
    /\ \A k \in 2..Len(h) : k \div 2 = j /\ j > 1 => h[j \div 2] <= h[k]

\* States of up from a slice h.
UpStates(h) ==
    {s \in [nums : Seq(Int), j : Nat] :
        /\ Len(s.nums) = Len(h) /\ Range(s.nums) = Range(h) /\ IsInjective(s.nums)
        /\ s.j \in 1..Len(h) /\ OrderedBut(s.nums, s.j)}

\* A round of up exchanges two elements, nearer to the root than before, or the
\* slice is a heap.
LEMMA UpRoundKeeps ==
  ASSUME NEW h \in Seq(Int), NEW s \in UpStates(h)
  PROVE  /\ UpRound(s) \in UpStates(h)
         /\ UpRound(s).j < s.j \/ (UpRound(s) = s /\ Ordered(s.nums))
  <1> DEFINE a == s.nums
             j == s.j
             p == j \div 2
  <1>1. /\ s = [nums |-> a, j |-> j] /\ a \in Seq(Int) /\ Len(a) = Len(h)
        /\ Range(a) = Range(h) /\ IsInjective(a) /\ j \in 1..Len(h) /\ OrderedBut(a, j)
    BY DEF UpStates
  <1>2. Len(h) \in Nat /\ DOMAIN a = 1..Len(h) /\ \A k \in 1..Len(h) : a[k] \in Int
    BY <1>1, LenProperties, ElementOfSeq
  <1> HIDE DEF a, j
  <1>3. CASE j = 1 \/ ~(a[j] < a[p])
    <2>1. UpRound(s) = s BY <1>3 DEF UpRound, Less, a, j
    <2>2. Ordered(a)
      <3> SUFFICES ASSUME NEW k \in 2..Len(a) PROVE a[k \div 2] <= a[k] BY DEF Ordered
      <3>1. CASE k # j BY <1>1, <3>1 DEF OrderedBut
      <3>2. CASE k = j
        <4>1. k \div 2 \in 1..Len(h) BY <1>1, <1>2
        <4> QED BY <1>1, <1>2, <1>3, <3>2, <4>1
      <3> QED BY <3>1, <3>2
    <2> QED BY <2>1, <2>2 DEF a
  <1>4. CASE j # 1 /\ a[j] < a[p]
    <2>1. p \in 1..Len(h) /\ p < j BY <1>1, <1>2, <1>4
    <2>2. PICK t : t = Swap(a, j, p) OBVIOUS
    <2>3. UpRound(s) = [nums |-> t, j |-> p] BY <1>4, <2>2 DEF UpRound, Less, a, j
    <2>4. /\ t \in Seq(Int) /\ Len(t) = Len(h) /\ Range(t) = Range(h) /\ IsInjective(t)
          /\ t[p] = a[j] /\ t[j] = a[p]
          /\ \A k \in 1..Len(h) : k # p /\ k # j => t[k] = a[k]
      <3>1. a \in Seq(Int) /\ j \in 1..Len(a) /\ p \in 1..Len(a) BY <1>1, <2>1
      <3> HIDE DEF p
      <3>2. t \in Seq(Int) /\ Len(t) = Len(a) BY ONLY <2>2, <3>1, SwapKeeps
      <3>3. Range(t) = Range(a) BY ONLY <2>2, <3>1, SwapKeeps
      <3>4. IsInjective(a) => IsInjective(t) BY ONLY <2>2, <3>1, SwapKeeps
      <3>5. /\ t[p] = a[j] /\ t[j] = a[p]
            /\ \A k \in 1..Len(a) : k # p /\ k # j => t[k] = a[k]
        BY ONLY <2>2, <3>1, SwapKeeps
      <3> QED BY <1>1, <3>2, <3>3, <3>4, <3>5
    <2>5. OrderedBut(t, p)
      <3>1. ASSUME NEW k \in 2..Len(h), k # p PROVE t[k \div 2] <= t[k]
        <4>1. k \div 2 \in 1..Len(h) /\ k \in 1..Len(h) BY <1>2
        <4>2. CASE k = j BY <1>2, <1>4, <2>1, <2>4, <4>1, <4>2
        <4>3. CASE k # j /\ k \div 2 = j
          <5>1. j > 1 /\ a[p] <= a[k] BY <1>1, <1>2, <1>4, <4>3 DEF OrderedBut
          <5> QED BY <2>1, <2>4, <3>1, <4>1, <4>3, <5>1
        <4>4. CASE k # j /\ k \div 2 = p
          <5>1. a[p] <= a[k] BY <1>1, <4>4 DEF OrderedBut
          <5>2. t[k \div 2] = a[j] /\ t[k] = a[k] BY <2>4, <3>1, <4>1, <4>4
          <5>3. a[j] \in Int /\ a[p] \in Int /\ a[k] \in Int BY <1>1, <1>2, <2>1, <4>1
          <5> QED BY <1>4, <5>1, <5>2, <5>3
        <4>5. CASE k # j /\ k \div 2 # j /\ k \div 2 # p
          <5>1. a[k \div 2] <= a[k] BY <1>1, <4>5 DEF OrderedBut
          <5> QED BY <2>4, <3>1, <4>1, <4>5, <5>1
        <4> QED BY <4>2, <4>3, <4>4, <4>5
      <3>2. ASSUME NEW k \in 2..Len(h), k \div 2 = p, p > 1 PROVE t[p \div 2] <= t[k]
        <4>1. /\ p \div 2 \in 1..Len(h) /\ k \in 1..Len(h) /\ p \div 2 < p
              /\ p \in 2..Len(h) /\ p # j /\ j # 1 /\ k # p /\ p \div 2 # j
          <5>1. p \in 2..Len(h) /\ k \in 1..Len(h) /\ p < j /\ j \in Nat BY <1>1, <1>2, <2>1, <3>2
          <5> HIDE DEF p
          <5>2. p \div 2 \in 1..Len(h) /\ p \div 2 < p BY <1>2, <5>1
          <5>3. k # p BY <3>2, <5>1, <5>2
          <5> QED BY <5>1, <5>2, <5>3
        <4>2. a[p \div 2] <= a[p] BY <1>1, <4>1 DEF OrderedBut
        <4>3. t[p \div 2] = a[p \div 2]
          <5>1. p \div 2 # p BY <1>1, <1>2, <2>1, <4>1
          <5>2. PICK q \in 1..Len(h) : q = p \div 2 BY <4>1
          <5> QED BY ONLY <2>4, <4>1, <5>1, <5>2
        <4>4. CASE k = j BY <2>4, <4>1, <4>2, <4>3, <4>4
        <4>5. CASE k # j
          <5>1. a[p] <= a[k] BY <1>1, <3>2, <4>5 DEF OrderedBut
          <5>2. t[k] = a[k] BY <2>4, <4>1, <4>5
          <5>3. a[p \div 2] \in Int /\ a[p] \in Int /\ a[k] \in Int BY <1>2, <2>1, <4>1
          <5> QED BY <4>2, <4>3, <5>1, <5>2, <5>3
        <4> QED BY <4>4, <4>5
      <3> QED BY <2>4, <3>1, <3>2 DEF OrderedBut
    <2> QED BY <1>1, <2>1, <2>3, <2>4, <2>5 DEF UpStates, j
  <1> QED BY <1>1, <1>3, <1>4

\* Nothing rises in a heap.
LEMMA OrderedStops ==
  ASSUME NEW h \in Seq(Int), NEW s \in UpStates(h), Ordered(s.nums)
  PROVE  UpRound(s) = s
  <1>1. /\ s.nums \in Seq(Int) /\ Len(s.nums) = Len(h) /\ s.j \in 1..Len(h)
        /\ Len(h) \in Nat
    BY LenProperties DEF UpStates
  <1>2. CASE s.j = 1 BY <1>2 DEF UpRound
  <1>3. CASE s.j # 1
    <2>1. s.j \in 2..Len(s.nums) /\ s.j \div 2 \in 1..Len(s.nums) BY <1>1, <1>3
    <2>2. s.nums[s.j \div 2] <= s.nums[s.j] BY <2>1 DEF Ordered
    <2>3. s.nums[s.j \div 2] \in Int /\ s.nums[s.j] \in Int
      BY <1>1, <2>1, ElementOfSeq
    <2> QED BY <2>2, <2>3 DEF UpRound, Less
  <1> QED BY <1>2, <1>3

\* The loop of up, round by round.
LEMMA UpLoop ==
  ASSUME NEW S, NEW init \in S, \A s \in S : UpRound(s) \in S
  PROVE  /\ UpRounds(init)[0] = init
         /\ \A n \in Nat : UpRounds(init)[n + 1] = UpRound(UpRounds(init)[n])
  <1> DEFINE rounds[n \in Nat] == IF n = 0 THEN init ELSE UpRound(rounds[n - 1])
  <1>1. PICK f \in [Nat -> [S -> S]] : \A n \in Nat : \A s \in S : f[n][s] = UpRound(s)
    <2>1. [n \in Nat |-> [s \in S |-> UpRound(s)]] \in [Nat -> [S -> S]] OBVIOUS
    <2> QED BY <2>1
  <1>2. \E g : g = [n \in Nat |-> IF n = 0 THEN init ELSE UpRound(g[n - 1])]
    <2>0. PICK g : IsLoop(g, S, init, f) BY LoopExists, Zenon
    <2>1. g \in [Nat -> S] /\ g[0] = init /\ \A n \in Nat : g[n + 1] = f[n + 1][g[n]]
      BY <2>0 DEF IsLoop
    <2>2. ASSUME NEW n \in Nat
          PROVE  g[n] = IF n = 0 THEN init ELSE UpRound(g[n - 1])
      <3>1. CASE n = 0 BY <2>1, <3>1
      <3>2. CASE n # 0
        <4>1. n - 1 \in Nat /\ n - 1 + 1 = n BY <3>2
        <4> QED BY <1>1, <2>1, <3>2, <4>1
      <3> QED BY <3>1, <3>2
    <2> QED BY <2>1, <2>2
  <1>3. rounds = [n \in Nat |-> IF n = 0 THEN init ELSE UpRound(rounds[n - 1])]
    BY <1>2
  <1> HIDE DEF rounds
  <1>4. rounds[0] = init /\ \A n \in Nat : rounds[n + 1] = UpRound(rounds[n])
    BY <1>3
  <1>5. UpRounds(init) = rounds BY DEF UpRounds, rounds
  <1> QED BY <1>4, <1>5

\* After as many rounds as the element can rise, the slice is a heap.
LEMMA HeapUpKeeps ==
  ASSUME NEW h \in Seq(Int), NEW j0 \in 1..Len(h), IsInjective(h), OrderedBut(h, j0)
  PROVE  IsPool(HeapUp(h, j0)) /\ Range(HeapUp(h, j0)) = Range(h)
  <1> DEFINE S == UpStates(h)
             init == [nums |-> h, j |-> j0]
             rounds == UpRounds(init)
  <1>1. Len(h) \in Nat /\ j0 \in Nat BY LenProperties
  <1>2. init \in S BY <1>1 DEF UpStates
  <1>3. \A s \in S : UpRound(s) \in S BY UpRoundKeeps
  <1>4. HeapUp(h, j0) = rounds[j0].nums BY DEF HeapUp
  <1> HIDE DEF S
  <1>5. rounds[0] = init /\ \A n \in Nat : rounds[n + 1] = UpRound(rounds[n])
    BY <1>2, <1>3, UpLoop
  <1> HIDE DEF rounds
  <1> DEFINE Progress(n) == rounds[n].j <= j0 - n \/ Ordered(rounds[n].nums)
             P == {n \in Nat : rounds[n] \in S /\ Progress(n)}
  <1>8. 0 \in P
    <2>1. rounds[0] \in S /\ rounds[0].j = j0 BY <1>2, <1>5
    <2> QED BY <1>1, <2>1
  <1>9. ASSUME NEW n \in Nat, n \in P PROVE n + 1 \in P
    <2>1. PICK s \in S : s = rounds[n] /\ rounds[n + 1] = UpRound(s) BY <1>5, <1>9
    <2>2. /\ UpRound(s) \in S
          /\ UpRound(s).j < s.j \/ (UpRound(s) = s /\ Ordered(s.nums))
      BY UpRoundKeeps DEF S
    <2>3. s.j \in Int /\ UpRound(s).j \in Int BY <2>2 DEF S, UpStates
    <2>4. Progress(n + 1)
      <3>1. CASE UpRound(s) = s /\ Ordered(s.nums) BY <2>1, <3>1
      <3>2. CASE UpRound(s).j < s.j
        <4>1. CASE s.j <= j0 - n BY <1>1, <2>1, <2>3, <3>2, <4>1
        <4>2. CASE Ordered(s.nums)
          <5>1. UpRound(s) = s BY <2>1, <4>2, OrderedStops DEF S
          <5> QED BY <2>3, <3>2, <5>1
        <4> QED BY <1>9, <2>1, <4>1, <4>2
      <3> QED BY <2>2, <3>1, <3>2
    <2> QED BY <2>1, <2>2, <2>4
  <1> HIDE DEF P
  <1>10. \A n \in Nat : n \in P BY <1>8, <1>9, Induction
  <1>11. rounds[j0] \in S /\ (rounds[j0].j <= 0 \/ Ordered(rounds[j0].nums))
    BY <1>1, <1>10 DEF P
  <1> QED BY <1>1, <1>4, <1>11 DEF S, UpStates, IsPool

\* A heap but for the element at i, which may be larger than its children.
OrderedUnder(h, i) ==
    /\ \A k \in 2..Len(h) : k \div 2 # i => h[k \div 2] <= h[k]
    /\ \A k \in 2..Len(h) : k \div 2 = i /\ i > 1 => h[i \div 2] <= h[k]

\* States of down from a slice h.
DownStates(h) ==
    {s \in [nums : Seq(Int), i : Nat] :
        /\ Len(s.nums) = Len(h) /\ Range(s.nums) = Range(h) /\ IsInjective(s.nums)
        /\ s.i \in 1..Len(h) /\ OrderedUnder(s.nums, s.i)}

\* A round of down exchanges two elements, farther from the root than before, or
\* the slice is a heap.
LEMMA DownRoundKeeps ==
  ASSUME NEW h \in Seq(Int), NEW s \in DownStates(h)
  PROVE  /\ DownRound(s) \in DownStates(h)
         /\ DownRound(s).i > s.i \/ (DownRound(s) = s /\ Ordered(s.nums))
  <1>1. PICK a, i : /\ s = [nums |-> a, i |-> i] /\ a = s.nums /\ i = s.i
                    /\ a \in Seq(Int) /\ Len(a) = Len(h)
                    /\ Range(a) = Range(h) /\ IsInjective(a) /\ i \in 1..Len(h)
                    /\ OrderedUnder(a, i)
    BY DEF DownStates
  <1>2. Len(h) \in Nat /\ i \in Nat /\ DOMAIN a = 1..Len(h) /\ \A k \in 1..Len(h) : a[k] \in Int
    BY <1>1, LenProperties, ElementOfSeq
  <1>3. PICK left \in Nat : left = 2 * i BY <1>2
  <1>4. PICK c \in {left, left + 1} :
            c = IF left < Len(a) /\ a[left + 1] < a[left] THEN left + 1 ELSE left
    OBVIOUS
  <1>5. DownRound(s) = IF left > Len(a) \/ ~(a[c] < a[i]) THEN s
                       ELSE [nums |-> Swap(a, i, c), i |-> c]
    BY <1>1, <1>3, <1>4 DEF DownRound, Less
  <1>6. \A k \in 2..Len(h) : k \div 2 = i => k = left \/ k = left + 1
    <2>1. \A k \in Nat : k \div 2 = i => k = 2 * i \/ k = 2 * i + 1 BY ONLY <1>2
    <2> QED BY <1>2, <1>3, <2>1
  <1>7. left <= Len(h) => c \in 1..Len(h) /\ c > i /\ c \div 2 = i /\ c # 1
    <2>1. (2 * i) \div 2 = i /\ (2 * i + 1) \div 2 = i BY ONLY <1>2
    <2>2. i >= 1 BY <1>1, <1>2
    <2>3. c = 2 * i \/ c = 2 * i + 1 BY <1>3
    <2>4. ASSUME left <= Len(h) PROVE c <= Len(h)
      <3>1. CASE left < Len(a) BY <1>1, <1>2, <3>1
      <3>2. CASE ~(left < Len(a)) BY <1>4, <2>4, <3>2
      <3> QED BY <3>1, <3>2
    <2> QED BY <1>2, <2>1, <2>2, <2>3, <2>4
  \* The child is the smaller of the two.
  <1>8. \A k \in 2..Len(h) : k \div 2 = i => a[c] <= a[k]
    <2> SUFFICES ASSUME NEW k \in 2..Len(h), k \div 2 = i PROVE a[c] <= a[k] OBVIOUS
    <2>1. k = left \/ k = left + 1 BY <1>6
    <2>2. k \in 1..Len(h) /\ left \in 1..Len(h)
      <3>1. left >= 1 BY <1>1, <1>2, <1>3
      <3> QED BY <1>2, <2>1, <3>1
    <2>3. a[k] \in Int /\ a[left] \in Int BY <1>2, <2>2
    <2>4. CASE left < Len(a) /\ a[left + 1] < a[left]
      <3>1. c = left + 1 /\ a[left + 1] \in Int BY <1>1, <1>2, <1>4, <2>2, <2>4
      <3> QED BY <2>1, <2>3, <2>4, <3>1
    <2>5. CASE ~(left < Len(a) /\ a[left + 1] < a[left])
      <3>1. c = left BY <1>4, <2>5
      <3>2. CASE k = left BY <2>3, <3>1, <3>2
      <3>3. CASE k = left + 1
        <4>1. left < Len(a) BY <1>1, <1>2, <2>2, <3>3
        <4> QED BY <2>3, <2>5, <3>1, <3>3, <4>1
      <3> QED BY <2>1, <3>2, <3>3
    <2> QED BY <2>4, <2>5
  <1>9. CASE left > Len(a) \/ ~(a[c] < a[i])
    <2>1. DownRound(s) = s BY <1>5, <1>9
    <2>2. Ordered(a)
      <3> SUFFICES ASSUME NEW k \in 2..Len(a) PROVE a[k \div 2] <= a[k] BY DEF Ordered
      <3>1. CASE k \div 2 # i BY <1>1, <3>1 DEF OrderedUnder
      <3>2. CASE k \div 2 = i
        <4>1. left <= Len(h) BY <1>1, <1>2, <1>6, <3>2
        <4>2. a[i] \in Int /\ a[c] \in Int /\ a[k] \in Int BY <1>1, <1>2, <1>7, <4>1
        <4>3. ~(a[c] < a[i]) BY <1>1, <1>2, <1>9, <4>1
        <4>4. a[c] <= a[k] BY <1>1, <1>8, <3>2
        <4> QED BY <3>2, <4>2, <4>3, <4>4
      <3> QED BY <3>1, <3>2
    <2> QED BY <1>1, <2>1, <2>2
  <1>10. CASE ~(left > Len(a)) /\ a[c] < a[i]
    <2>1. /\ c \in 1..Len(h) /\ c > i /\ c \div 2 = i /\ c \in 2..Len(h)
          /\ i \in 1..Len(a) /\ c \in 1..Len(a)
      BY <1>1, <1>2, <1>7, <1>10
    <2>2. PICK t : t = Swap(a, i, c) OBVIOUS
    <2>3. DownRound(s) = [nums |-> t, i |-> c] BY <1>5, <1>10, <2>2
    <2>4. /\ t \in Seq(Int) /\ Len(t) = Len(h) /\ Range(t) = Range(h) /\ IsInjective(t)
          /\ t[i] = a[c] /\ t[c] = a[i]
          /\ \A k \in 1..Len(h) : k # i /\ k # c => t[k] = a[k]
      <3>0. a \in Seq(Int) /\ i \in 1..Len(a) /\ c \in 1..Len(a) BY <1>1, <2>1
      <3>1. t \in Seq(Int) /\ Len(t) = Len(a) BY ONLY <2>2, <3>0, SwapKeeps
      <3>2. Range(t) = Range(a) BY ONLY <2>2, <3>0, SwapKeeps
      <3>3. IsInjective(a) => IsInjective(t) BY ONLY <2>2, <3>0, SwapKeeps
      <3>4. t[i] = a[c] /\ t[c] = a[i] BY ONLY <2>2, <3>0, SwapKeeps
      <3>5. \A k \in 1..Len(a) : k # i /\ k # c => t[k] = a[k]
        BY <1>1, <1>2, <2>1, <2>2 DEF Swap
      <3> QED BY <1>1, <3>1, <3>2, <3>3, <3>4, <3>5
    <2>5. a[c] \in Int /\ a[i] \in Int BY <1>1, <1>2, <2>1
    <2>6. ASSUME NEW k \in 2..Len(h), k \div 2 # c PROVE t[k \div 2] <= t[k]
      <3>1. k \div 2 \in 1..Len(h) /\ k \in 1..Len(h) BY <1>2
      <3>2. a[k] \in Int BY <1>2, <3>1
      <3>3. CASE k = c
        <4>1. t[k \div 2] = a[c] /\ t[k] = a[i] BY <2>1, <2>4, <3>3
        <4> QED BY <1>10, <2>5, <4>1
      <3>4. CASE k # c /\ k \div 2 = i
        <4>1. k # i BY <1>1, <1>2, <3>4
        <4>2. t[k \div 2] = a[c] /\ t[k] = a[k] BY <2>4, <3>1, <3>4, <4>1
        <4>3. a[c] <= a[k] BY <1>8, <3>4
        <4> QED BY <4>2, <4>3
      <3>5. CASE k # c /\ k \div 2 # i /\ k = i
        <4>1. i > 1 /\ i \div 2 # i /\ i \div 2 # c BY <1>2, <2>1, <3>1, <3>5
        <4>2. a[i \div 2] <= a[c] BY <1>1, <2>1, <4>1 DEF OrderedUnder
        <4>3. t[i \div 2] = a[i \div 2] BY <2>4, <3>1, <3>5, <4>1
        <4> QED BY <2>4, <3>5, <4>2, <4>3
      <3>6. CASE k # c /\ k \div 2 # i /\ k # i
        <4>1. a[k \div 2] <= a[k] BY <1>1, <3>6 DEF OrderedUnder
        <4>2. t[k \div 2] = a[k \div 2] BY <2>4, <2>6, <3>1, <3>6
        <4>3. t[k] = a[k] BY <2>4, <3>1, <3>6
        <4> QED BY <4>1, <4>2, <4>3
      <3> QED BY <3>3, <3>4, <3>5, <3>6
    <2>7. ASSUME NEW k \in 2..Len(h), k \div 2 = c, c > 1 PROVE t[c \div 2] <= t[k]
      <3>1. k \in 1..Len(h) /\ k # i /\ k # c BY <1>2, <2>1, <2>7
      <3>2. t[c \div 2] = a[c] /\ t[k] = a[k] BY <2>1, <2>4, <3>1
      <3>3. c # i BY <2>1, <1>2
      <3>4. a[c] <= a[k] BY <1>1, <2>7, <3>3 DEF OrderedUnder
      <3> QED BY <3>2, <3>4
    <2>8. OrderedUnder(t, c) BY <2>4, <2>6, <2>7 DEF OrderedUnder
    <2>9. DownRound(s) \in DownStates(h) BY <2>1, <2>3, <2>4, <2>8 DEF DownStates
    <2> QED BY <1>1, <2>1, <2>3, <2>9
  <1> QED BY <1>1, <1>9, <1>10

\* Nothing sinks in a heap.
LEMMA OrderedStays ==
  ASSUME NEW h \in Seq(Int), NEW s \in DownStates(h), Ordered(s.nums)
  PROVE  DownRound(s) = s
  <1>1. PICK a, i : /\ a = s.nums /\ i = s.i /\ a \in Seq(Int) /\ i \in 1..Len(a)
    BY DEF DownStates
  <1>2. Len(a) \in Nat /\ \A k \in 1..Len(a) : a[k] \in Int
    BY <1>1, LenProperties, ElementOfSeq
  <1>3. PICK c \in {2 * i, 2 * i + 1} :
            c = IF 2 * i < Len(a) /\ Less(a, 2 * i + 1, 2 * i) THEN 2 * i + 1 ELSE 2 * i
    OBVIOUS
  <1>4. DownRound(s) = IF 2 * i > Len(a) \/ ~Less(a, c, i) THEN s
                       ELSE [nums |-> Swap(a, i, c), i |-> c]
    BY <1>1, <1>3 DEF DownRound
  <1>5. ASSUME 2 * i <= Len(a) PROVE ~Less(a, c, i)
    <2>0. i \in Nat /\ i >= 1 BY <1>1, <1>2
    <2>1. c \in 2..Len(a)
      <3>1. CASE c = 2 * i BY <1>2, <1>5, <2>0, <3>1
      <3>2. CASE c # 2 * i
        <4>1. c = 2 * i + 1 /\ 2 * i < Len(a) BY <1>3, <3>2
        <4> QED BY <1>2, <2>0, <4>1
      <3> QED BY <3>1, <3>2
    <2>2. c \div 2 = i
      <3>0. i \in Nat BY <1>1, <1>2
      <3>1. (2 * i) \div 2 = i /\ (2 * i + 1) \div 2 = i BY ONLY <3>0
      <3> QED BY <3>1
    <2>3. a[i] <= a[c] BY <1>1, <2>1, <2>2 DEF Ordered
    <2>4. a[i] \in Int /\ a[c] \in Int BY <1>1, <1>2, <2>1
    <2> QED BY <2>3, <2>4 DEF Less
  <1> QED BY <1>1, <1>2, <1>4, <1>5

\* The loop of down, round by round.
LEMMA DownLoop ==
  ASSUME NEW S, NEW init \in S, \A s \in S : DownRound(s) \in S
  PROVE  /\ DownRounds(init)[0] = init
         /\ \A n \in Nat : DownRounds(init)[n + 1] = DownRound(DownRounds(init)[n])
  <1> DEFINE rounds[n \in Nat] == IF n = 0 THEN init ELSE DownRound(rounds[n - 1])
  <1>1. PICK f \in [Nat -> [S -> S]] : \A n \in Nat : \A s \in S : f[n][s] = DownRound(s)
    <2>1. [n \in Nat |-> [s \in S |-> DownRound(s)]] \in [Nat -> [S -> S]] OBVIOUS
    <2> QED BY <2>1
  <1>2. \E g : g = [n \in Nat |-> IF n = 0 THEN init ELSE DownRound(g[n - 1])]
    <2>0. PICK g : IsLoop(g, S, init, f) BY LoopExists, Zenon
    <2>1. g \in [Nat -> S] /\ g[0] = init /\ \A n \in Nat : g[n + 1] = f[n + 1][g[n]]
      BY <2>0 DEF IsLoop
    <2>2. ASSUME NEW n \in Nat
          PROVE  g[n] = IF n = 0 THEN init ELSE DownRound(g[n - 1])
      <3>1. CASE n = 0 BY <2>1, <3>1
      <3>2. CASE n # 0
        <4>1. n - 1 \in Nat /\ n - 1 + 1 = n BY <3>2
        <4> QED BY <1>1, <2>1, <3>2, <4>1
      <3> QED BY <3>1, <3>2
    <2> QED BY <2>1, <2>2
  <1>3. rounds = [n \in Nat |-> IF n = 0 THEN init ELSE DownRound(rounds[n - 1])]
    BY <1>2
  <1> HIDE DEF rounds
  <1>4. rounds[0] = init /\ \A n \in Nat : rounds[n + 1] = DownRound(rounds[n])
    BY <1>3
  <1>5. DownRounds(init) = rounds BY DEF DownRounds, rounds
  <1> QED BY <1>4, <1>5

\* After as many rounds as the element can sink, the slice is a heap.
LEMMA HeapDownKeeps ==
  ASSUME NEW h \in Seq(Int), h # <<>>, IsInjective(h), OrderedUnder(h, 1)
  PROVE  IsPool(HeapDown(h, 1)) /\ Range(HeapDown(h, 1)) = Range(h)
  <1> DEFINE S == DownStates(h)
             init == [nums |-> h, i |-> 1]
             rounds == DownRounds(init)
  <1>1. Len(h) \in Nat /\ 1 \in 1..Len(h) BY LenProperties, EmptySeq
  <1>2. init \in S BY <1>1 DEF DownStates
  <1>3. \A s \in S : DownRound(s) \in S BY DownRoundKeeps
  <1>4. HeapDown(h, 1) = rounds[Len(h)].nums BY DEF HeapDown
  <1> HIDE DEF S
  <1>5. rounds[0] = init /\ \A n \in Nat : rounds[n + 1] = DownRound(rounds[n])
    BY <1>2, <1>3, DownLoop
  <1> HIDE DEF rounds
  <1> DEFINE Progress(n) == rounds[n].i >= 1 + n \/ Ordered(rounds[n].nums)
             P == {n \in Nat : rounds[n] \in S /\ Progress(n)}
  <1>6. 0 \in P
    <2>1. rounds[0] \in S /\ rounds[0].i = 1 BY <1>2, <1>5
    <2> QED BY <2>1
  <1>7. ASSUME NEW n \in Nat, n \in P PROVE n + 1 \in P
    <2>1. PICK s \in S : s = rounds[n] /\ rounds[n + 1] = DownRound(s) BY <1>5, <1>7
    <2>2. /\ DownRound(s) \in S
          /\ DownRound(s).i > s.i \/ (DownRound(s) = s /\ Ordered(s.nums))
      BY DownRoundKeeps DEF S
    <2>3. s.i \in Int /\ DownRound(s).i \in Int BY <2>2 DEF S, DownStates
    <2>4. Progress(n + 1)
      <3>1. CASE DownRound(s) = s /\ Ordered(s.nums) BY <2>1, <3>1
      <3>2. CASE DownRound(s).i > s.i
        <4>1. CASE s.i >= 1 + n BY <2>1, <2>3, <3>2, <4>1
        <4>2. CASE Ordered(s.nums)
          <5>1. DownRound(s) = s BY <2>1, <4>2, OrderedStays DEF S
          <5> QED BY <2>3, <3>2, <5>1
        <4> QED BY <1>7, <2>1, <4>1, <4>2
      <3> QED BY <2>2, <3>1, <3>2
    <2> QED BY <2>1, <2>2, <2>4
  <1> HIDE DEF P
  <1>8. \A n \in Nat : n \in P BY <1>6, <1>7, Induction
  <1>9. /\ rounds[Len(h)] \in S
        /\ rounds[Len(h)].i >= 1 + Len(h) \/ Ordered(rounds[Len(h)].nums)
    BY <1>1, <1>8 DEF P
  <1> QED BY <1>1, <1>4, <1>9 DEF S, DownStates, IsPool

-----------------------------------------------------------------------------
(* Operations of a pool. *)

\* The first element of a heap is its least.
LEMMA RootIsLeast ==
  ASSUME NEW h \in Seq(Int), Ordered(h), NEW k0 \in 1..Len(h)
  PROVE  h[1] <= h[k0]
  <1>1. Len(h) \in Nat /\ \A k \in 1..Len(h) : h[k] \in Int BY LenProperties, ElementOfSeq
  <1> DEFINE P == {n \in Nat : \A k \in 1..Len(h) : k <= n => h[1] <= h[k]}
  <1>2. 0 \in P BY <1>1
  <1>3. ASSUME NEW n \in Nat, n \in P PROVE n + 1 \in P
    <2> SUFFICES ASSUME NEW k \in 1..Len(h), k <= n + 1 PROVE h[1] <= h[k] OBVIOUS
    <2>1. CASE k <= n BY <1>3, <2>1
    <2>2. CASE k = 1 BY <1>1, <2>2
    <2>3. CASE ~(k <= n) /\ k # 1
      <3>1. k \in 2..Len(h) /\ k \div 2 \in 1..Len(h) /\ k \div 2 <= n BY <1>1, <2>3
      <3>2. h[1] <= h[k \div 2] BY <1>3, <3>1
      <3>3. h[k \div 2] <= h[k] BY <3>1 DEF Ordered
      <3>4. h[1] \in Int /\ h[k] \in Int /\ h[k \div 2] \in Int BY <1>1, <3>1
      <3> QED BY <3>2, <3>3, <3>4
    <2> QED BY <2>1, <2>2, <2>3
  <1> HIDE DEF P
  <1>4. \A n \in Nat : n \in P BY <1>2, <1>3, Induction
  <1> QED BY <1>1, <1>4 DEF P

\* Push adds one number.
LEMMA PushAdds ==
  ASSUME NEW h, IsPool(h), NEW x \in Int, x \notin Range(h)
  PROVE  IsPool(HeapPush(h, x)) /\ Range(HeapPush(h, x)) = Range(h) \cup {x}
  <1>1. h \in Seq(Int) /\ IsInjective(h) /\ Ordered(h) BY DEF IsPool
  <1>2. PICK t : t = Append(h, x) OBVIOUS
  <1>3. /\ t \in Seq(Int) /\ Len(t) = Len(h) + 1 /\ \A k \in 1..Len(h) : t[k] = h[k]
        /\ Len(h) \in Nat
    BY <1>1, <1>2, AppendProperties, LenProperties
  <1>4. IsInjective(t) /\ Range(t) = Range(h) \cup {x} BY <1>1, <1>2, AppendFresh
  <1>5. OrderedBut(t, Len(t))
    <2>1. ASSUME NEW k \in 2..Len(t), k # Len(t) PROVE t[k \div 2] <= t[k]
      <3>1. k \in 2..Len(h) /\ k \in 1..Len(h) /\ k \div 2 \in 1..Len(h) BY <1>3, <2>1
      <3>2. h[k \div 2] <= h[k] BY <1>1, <3>1 DEF Ordered
      <3> QED BY <1>3, <3>1, <3>2
    <2>2. \A k \in 2..Len(t) : k \div 2 # Len(t) BY <1>3
    <2> QED BY <2>1, <2>2 DEF OrderedBut
  <1>6. Len(t) \in 1..Len(t) BY <1>3
  <1>7. HeapPush(h, x) = HeapUp(t, Len(t)) BY <1>2, <1>3 DEF HeapPush
  <1> QED BY <1>3, <1>4, <1>5, <1>6, <1>7, HeapUpKeeps

\* Pop takes the least number.
LEMMA PopTakesLeast ==
  ASSUME NEW h, IsPool(h), h # <<>>
  PROVE  /\ IsPool(HeapPop(h)) /\ Range(HeapPop(h)) = Range(h) \ {h[1]}
         /\ h[1] \in Range(h) /\ \A x \in Range(h) : h[1] <= x
  <1>1. h \in Seq(Int) /\ IsInjective(h) /\ Ordered(h) BY DEF IsPool
  <1>2. PICK n \in Nat \ {0} : n = Len(h) BY <1>1, LenProperties, EmptySeq
  <1>3. DOMAIN h = 1..n /\ 1 \in 1..n /\ n \in 1..n BY <1>1, <1>2, LenProperties
  <1>4. h[1] \in Range(h) /\ \A x \in Range(h) : h[1] <= x
    BY <1>1, <1>2, <1>3, RootIsLeast DEF Range
  <1>5. PICK t : t = Swap(h, 1, n) OBVIOUS
  <1>6. t \in Seq(Int) /\ Len(t) = n BY <1>1, <1>2, <1>3, <1>5, SwapKeeps
  <1>7. Range(t) = Range(h) /\ IsInjective(t) BY <1>1, <1>2, <1>3, <1>5, SwapKeeps
  <1>8. /\ t[1] = h[n] /\ t[n] = h[1]
        /\ \A k \in 2..(n - 1) : t[k] = h[k]
    BY <1>2, <1>3, <1>5 DEF Swap
  <1>9. PICK u : u = Front(t) OBVIOUS
  <1>10. t # <<>> BY <1>6, <1>2
  <1>11. Last(t) = h[1] BY <1>6, <1>8 DEF Last
  <1>12. /\ u \in Seq(Int) /\ IsInjective(u) /\ Range(u) = Range(h) \ {h[1]}
    BY <1>6, <1>7, <1>9, <1>10, <1>11, FrontAndLast
  <1>13. Len(u) = n - 1 /\ \A k \in 1..(n - 1) : u[k] = t[k]
    <2>1. u = SubSeq(t, 1, n - 1) BY <1>6, <1>9 DEF Front
    <2> QED BY <1>2, <1>6, <2>1, SubSeqProperties
  <1>14. HeapPop(h) = HeapDown(u, 1) BY <1>2, <1>5, <1>9 DEF HeapPop
  <1>15. CASE u = <<>>
    <2>1. HeapDown(u, 1) = DownRounds([nums |-> u, i |-> 1])[0].nums BY <1>15 DEF HeapDown
    <2>2. DownRound([nums |-> u, i |-> 1]) = [nums |-> u, i |-> 1] BY <1>15 DEF DownRound
    <2>3. DownRounds([nums |-> u, i |-> 1])[0] = [nums |-> u, i |-> 1]
      <3> DEFINE s == [nums |-> u, i |-> 1]
      <3>1. s \in {s} /\ \A r \in {s} : DownRound(r) \in {s} BY <2>2
      <3> HIDE DEF s
      <3>2. DownRounds(s)[0] = s BY <3>1, DownLoop
      <3> QED BY <3>2 DEF s
    <2>4. HeapPop(h) = u BY <1>14, <2>1, <2>3
    <2>5. IsPool(u) BY <1>12, <1>15 DEF IsPool, Ordered
    <2> QED BY <1>4, <1>12, <2>4, <2>5
  <1>16. CASE u # <<>>
    <2>1. OrderedUnder(u, 1)
      <3>1. ASSUME NEW k \in 2..Len(u), k \div 2 # 1 PROVE u[k \div 2] <= u[k]
        <4>1. /\ k \in 2..(n - 1) /\ k \div 2 \in 2..(n - 1) /\ k \in 2..Len(h)
              /\ k \in 1..(n - 1) /\ k \div 2 \in 1..(n - 1)
          BY <1>2, <1>13, <3>1
        <4>2. h[k \div 2] <= h[k] BY <1>1, <4>1 DEF Ordered
        <4>3. u[k] = h[k] BY <1>8, <1>13, <4>1
        <4>4. u[k \div 2] = h[k \div 2] BY <1>8, <1>13, <4>1
        <4> QED BY <4>2, <4>3, <4>4
      <3> QED BY <3>1 DEF OrderedUnder
    <2> QED BY <1>4, <1>12, <1>14, <1>16, <2>1, HeapDownKeeps
  <1> QED BY <1>15, <1>16

\* A new pool has the numbers from base on.
LEMMA NewPool ==
  ASSUME NEW base \in Int, NEW count \in Nat
  PROVE  /\ IsPool(NewIndexPool(base, count))
         /\ Range(NewIndexPool(base, count)) = base..base + count - 1
  <1> DEFINE Filled(n) == {h \in Seq(Int) : IsPool(h) /\ Range(h) = base..base + n - 1}
             pool[n \in Nat] == IF n = 0 THEN <<>> ELSE HeapPush(pool[n - 1], base + n - 1)
  <1>1. <<>> \in Filled(0)
    BY EmptySeq DEF IsPool, Ordered, IsInjective, Range
  <1>2. ASSUME NEW n \in Nat, NEW h \in Filled(n)
        PROVE  base + n \notin Range(h) /\ HeapPush(h, base + n) \in Filled(n + 1)
    <2>1. IsPool(h) /\ Range(h) = base..base + n - 1 /\ base + n \in Int OBVIOUS
    <2>2. base + n \notin Range(h) BY <2>1
    <2>3. /\ IsPool(HeapPush(h, base + n))
          /\ Range(HeapPush(h, base + n)) = (base..base + n - 1) \cup {base + n}
      BY <2>1, <2>2, PushAdds
    <2>4. (base..base + n - 1) \cup {base + n} = base..base + (n + 1) - 1 OBVIOUS
    <2> QED BY <2>2, <2>3, <2>4 DEF IsPool
  <1>3. PICK S : S = {h \in Seq(Int) : IsPool(h)} OBVIOUS
  <1>4. PICK f \in [Nat -> [S -> S]] :
            \A n \in Nat : \A h \in S :
                base + n - 1 \notin Range(h) => f[n][h] = HeapPush(h, base + n - 1)
    <2> DEFINE Fresh(n, h) == base + n - 1 \notin Range(h)
               Push(n, h) == IF Fresh(n, h) THEN HeapPush(h, base + n - 1) ELSE h
    <2>1. ASSUME NEW n \in Nat, NEW h \in S PROVE Push(n, h) \in S
      <3>1. base + n - 1 \in Int OBVIOUS
      <3> QED BY <1>3, <3>1, PushAdds DEF IsPool
    <2>2. PICK g : g = [n \in Nat |-> [h \in S |-> Push(n, h)]] OBVIOUS
    <2>3. g \in [Nat -> [S -> S]] BY <2>1, <2>2
    <2>4. \A n \in Nat : \A h \in S :
              base + n - 1 \notin Range(h) => g[n][h] = HeapPush(h, base + n - 1)
      BY <2>2
    <2> QED BY <2>3, <2>4
  <1>5. <<>> \in S BY <1>1, <1>3
  <1>6. PICK g : IsLoop(g, S, <<>>, f) BY <1>5, LoopExists, Zenon
  <1>7. \A n \in Nat : g[n] \in Filled(n)
    <2> DEFINE P == {n \in Nat : g[n] \in Filled(n)}
    <2>1. 0 \in P BY <1>1, <1>6 DEF IsLoop
    <2>2. ASSUME NEW n \in Nat, n \in P PROVE n + 1 \in P
      <3>1. PICK h : h = g[n] /\ h \in Filled(n) /\ h \in S BY <1>3, <2>2
      <3>2. base + n \notin Range(h) /\ HeapPush(h, base + n) \in Filled(n + 1) BY <1>2, <3>1
      <3>3. n + 1 \in Nat /\ base + (n + 1) - 1 = base + n OBVIOUS
      <3>4. f[n + 1][h] = HeapPush(h, base + n) BY <1>4, <3>1, <3>2, <3>3
      <3>5. g[n + 1] = f[n + 1][h] BY <1>6, <3>1 DEF IsLoop
      <3> QED BY <3>2, <3>4, <3>5
    <2> HIDE DEF P
    <2>3. \A n \in Nat : n \in P BY <2>1, <2>2, Induction
    <2> QED BY <2>3 DEF P
  <1>8. \A n \in Nat : g[n + 1] = HeapPush(g[n], base + n)
    <2> SUFFICES ASSUME NEW n \in Nat PROVE g[n + 1] = HeapPush(g[n], base + n) OBVIOUS
    <2>1. PICK h : h = g[n] /\ h \in Filled(n) /\ h \in S BY <1>3, <1>7
    <2>2. n + 1 \in Nat /\ base + (n + 1) - 1 = base + n OBVIOUS
    <2>3. f[n + 1][h] = HeapPush(h, base + n) BY <1>2, <1>4, <2>1, <2>2
    <2> QED BY <1>6, <2>1, <2>3 DEF IsLoop
  <1>9. \E r : r = [n \in Nat |-> IF n = 0 THEN <<>> ELSE HeapPush(r[n - 1], base + n - 1)]
    <2>1. ASSUME NEW n \in Nat
          PROVE  g[n] = IF n = 0 THEN <<>> ELSE HeapPush(g[n - 1], base + n - 1)
      <3>1. CASE n = 0 BY <1>6, <3>1 DEF IsLoop
      <3>2. CASE n # 0
        <4>1. n - 1 \in Nat /\ n - 1 + 1 = n /\ base + (n - 1) = base + n - 1 BY <3>2
        <4>2. g[n - 1 + 1] = HeapPush(g[n - 1], base + (n - 1)) BY <1>8, <4>1
        <4> QED BY <3>2, <4>1, <4>2
      <3> QED BY <3>1, <3>2
    <2>2. DOMAIN g = Nat /\ g = [n \in Nat |-> g[n]] BY <1>6 DEF IsLoop
    <2> QED BY <2>1, <2>2
  <1>10. pool = [n \in Nat |-> IF n = 0 THEN <<>> ELSE HeapPush(pool[n - 1], base + n - 1)]
    BY <1>9
  <1>11. NewIndexPool(base, count) = pool[count] BY DEF NewIndexPool
  <1> HIDE DEF pool
  <1>12. pool[0] = <<>> /\ \A n \in Nat : pool[n + 1] = HeapPush(pool[n], base + n)
    <2>1. pool[0] = <<>> BY <1>10
    <2>2. ASSUME NEW n \in Nat PROVE pool[n + 1] = HeapPush(pool[n], base + n)
      <3>1. n + 1 \in Nat /\ n + 1 # 0 /\ n + 1 - 1 = n /\ base + (n + 1) - 1 = base + n OBVIOUS
      <3>2. pool[n + 1] = HeapPush(pool[n + 1 - 1], base + (n + 1) - 1) BY <1>10, <3>1
      <3> QED BY <3>1, <3>2
    <2> QED BY <2>1, <2>2
  <1>13. pool[count] \in Filled(count)
    <2> DEFINE P == {n \in Nat : pool[n] \in Filled(n)}
    <2>1. 0 \in P BY <1>1, <1>12
    <2>2. ASSUME NEW n \in Nat, n \in P PROVE n + 1 \in P
      <3>1. PICK h \in Filled(n) : h = pool[n] BY <2>2
      <3>2. pool[n + 1] = HeapPush(h, base + n) BY <1>12, <3>1
      <3> QED BY <1>2, <3>1, <3>2
    <2> HIDE DEF P
    <2>3. \A n \in Nat : n \in P BY <2>1, <2>2, Induction
    <2> QED BY <2>3 DEF P
  <1> QED BY <1>11, <1>13

\* GetNextAvailable answers the least number of a pool that has one, and takes
\* exactly this number out (heap.Pop).
THEOREM GetTakesLeast ==
  ASSUME NEW h, IsPool(h), h # <<>>
  PROVE  /\ NextAvailable(h) \in Range(h) /\ \A x \in Range(h) : NextAvailable(h) <= x
         /\ IsPool(AfterGet(h)) /\ Range(AfterGet(h)) = Range(h) \ {NextAvailable(h)}
  BY PopTakesLeast DEF NextAvailable, AfterGet, Least

\* Free gives a number back, once: the pool has it afterwards and no other more.
THEOREM FreeAdds ==
  ASSUME NEW h, IsPool(h), NEW x \in Int
  PROVE  IsPool(Free(h, x)) /\ Range(Free(h, x)) = Range(h) \cup {x}
  <1>1. DOMAIN h = 1..Len(h) BY LenProperties DEF IsPool
  <1>2. Contain(h, x) <=> x \in Range(h) BY <1>1 DEF Contain, Range
  <1>3. CASE Contain(h, x) BY <1>2, <1>3 DEF Free
  <1>4. CASE ~Contain(h, x) BY <1>2, <1>4, PushAdds DEF Free
  <1> QED BY <1>3, <1>4
==============================================================================
