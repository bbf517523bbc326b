------------------------------ MODULE IndexPool ------------------------------
(***************************************************************************)
(* utils.IndexPool: a mutex around a container/heap over utils.MinHeap.    *)
(* The mutex makes each operation one step, so these are operators on the  *)
(* slice of the heap, whose elements TLA+ numbers from 1.                  *)
(***************************************************************************)
EXTENDS Integers, Sequences, SequencesExt

\* Less: h.nums[i] < h.nums[j].
Less(h, i, j) == h[i] < h[j]

\* Swap of two elements of the slice.
Swap(h, i, j) == [h EXCEPT ![i] = h[j], ![j] = h[i]]

\* container/heap up, a round of its loop: the element at j rises when it is less
\* than its parent; otherwise the loop is over.
UpRound(s) ==
    LET parent == s.j \div 2 IN
    IF s.j = 1 \/ ~Less(s.nums, s.j, parent) THEN s
    ELSE [nums |-> Swap(s.nums, s.j, parent), j |-> parent]

UpRounds(s) == LET after[n \in Nat] == IF n = 0 THEN s ELSE UpRound(after[n - 1])
               IN after

HeapUp(h, j) == UpRounds([nums |-> h, j |-> j])[j].nums

\* container/heap down: the element at i sinks below its smaller child.
DownRound(s) ==
    LET h == s.nums
        left == 2 * s.i
        child == IF left < Len(h) /\ Less(h, left + 1, left) THEN left + 1 ELSE left
    IN IF left > Len(h) \/ ~Less(h, child, s.i) THEN s
       ELSE [nums |-> Swap(h, s.i, child), i |-> child]

DownRounds(s) == LET after[n \in Nat] == IF n = 0 THEN s ELSE DownRound(after[n - 1])
                 IN after

HeapDown(h, i) == DownRounds([nums |-> h, i |-> i])[Len(h)].nums

\* heap.Push: MinHeap.Push appends, then the element rises.
\* Mutant: the element stays where it was appended.
AppendOnly(h, x) == Append(h, x)
HeapPush(h, x) == HeapUp(Append(h, x), Len(h) + 1)

\* heap.Pop: the least element goes last, the one in its place sinks, and
\* MinHeap.Pop takes the last off.
Least(h) == h[1]
HeapPop(h) == HeapDown(Front(Swap(h, 1, Len(h))), 1)

\* MinHeap.Contain, a linear search.
Contain(h, x) == \E i \in 1..Len(h) : h[i] = x

\* Mutant: the range is closed above instead of below.
NewIndexPoolFromOne(base, count) ==
    LET pool[n \in Nat] == IF n = 0 THEN <<>> ELSE HeapPush(pool[n - 1], base + n)
    IN pool[count]

\* NewIndexPool pushes base .. base + count - 1 in this order.
NewIndexPool(base, count) ==
    LET pool[n \in Nat] == IF n = 0 THEN <<>> ELSE HeapPush(pool[n - 1], base + n - 1)
    IN pool[count]

\* GetNextAvailable: the answer, and the pool it leaves; -1 from an empty pool.
NextAvailable(h) == IF h = <<>> THEN -1 ELSE Least(h)
AfterGet(h) == IF h = <<>> THEN h ELSE HeapPop(h)

\* Free: pushes an index the pool does not have.
Free(h, x) == IF Contain(h, x) THEN h ELSE HeapPush(h, x)
=============================================================================
