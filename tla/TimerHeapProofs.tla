-------------------------- MODULE TimerHeapProofs --------------------------
(***************************************************************************)
(* Proofs about the timer heap, for every number of timers and slots and   *)
(* every range of the tick counter: the indices stay right, the heap stays *)
(* ordered, and the heap implements the abstract timers of TimerSpec.      *)
(*                                                                         *)
(* Everything compares deadlines through Left(t), the signed distance of   *)
(* expires[t] from ticks.  The deadlines of pending timers are less than   *)
(* Half apart, so that time_after(), which only sees numbers modulo        *)
(* 2 * Half, orders them like their distances.                             *)
(***************************************************************************)
EXTENDS TimerHeap, FiniteSetTheorems, WellFoundedInduction, TLAPS

-----------------------------------------------------------------------------
(***************************************************************************)
(* Arithmetic modulo 2 * Half.                                             *)
(***************************************************************************)
LEMMA HalfPositive == Half \in Nat /\ Half >= 1 /\ 2 * Half \in Nat /\ 2 * Half > 0
BY HeapAssumption

\* A number and its remainder differ by a multiple of the modulus.
LEMMA Remainder ==
    ASSUME NEW x \in Int, NEW m \in Nat, m > 0
    PROVE  /\ x % m \in 0..(m - 1)
           /\ \E k \in Int : (x % m) = x + m * k
<1>1. x % m \in 0..(m - 1) /\ x \div m \in Int
  OBVIOUS
<1>2. x = m * (x \div m) + (x % m)
  OBVIOUS
<1>3. -(x \div m) \in Int /\ m * (-(x \div m)) = -(m * (x \div m))
  BY <1>1
<1>4. m * (x \div m) \in Int
  BY <1>1
<1>5. (x % m) = x + m * (-(x \div m))
  BY <1>1, <1>2, <1>3, <1>4
<1> QED BY <1>1, <1>3, <1>5

\* Two numbers of the same range of m that differ by a multiple of m are equal.
LEMMA SameResidue ==
    ASSUME NEW m \in Nat, m > 0, NEW k \in Int, m * k < m, -m < m * k
    PROVE  k = 0
<1>1. CASE k >= 1
  BY <1>1
<1>2. CASE k <= -1
  BY <1>2
<1> QED BY <1>1, <1>2

\* An unsigned long is its argument modulo the range.
LEMMA WrapValue ==
    ASSUME NEW x \in Int
    PROVE  /\ Wrap(x) \in 0..(2 * Half - 1)
           /\ \E k \in Int : Wrap(x) = x + (2 * Half) * k
BY HalfPositive, Remainder DEF Wrap

\* A long is the number of the signed range that its argument is congruent to.
LEMMA LongValue ==
    ASSUME NEW x \in Int
    PROVE  /\ Long(x) \in (-Half)..(Half - 1)
           /\ \E k \in Int : Long(x) = x + (2 * Half) * k
<1>1. PICK k \in Int : Wrap(x) = x + (2 * Half) * k
  BY WrapValue
<1>2. Wrap(x) \in 0..(2 * Half - 1)
  BY WrapValue
<1>3. CASE Wrap(x) < Half
  BY <1>1, <1>2, <1>3, HalfPositive DEF Long
<1>4. CASE ~(Wrap(x) < Half)
  <2>1. Long(x) = Wrap(x) - 2 * Half /\ Long(x) \in (-Half)..(Half - 1)
    BY <1>2, <1>4, HalfPositive DEF Long
  <2>2. (2 * Half) * (k - 1) = (2 * Half) * k - 2 * Half /\ (2 * Half) * k \in Int
    BY HalfPositive
  <2> QED BY <1>1, <2>1, <2>2, HalfPositive
<1> QED BY <1>3, <1>4

\* A number of the signed range that is congruent to x is (long)x.
LEMMA LongUnique ==
    ASSUME NEW x \in Int, NEW y \in (-Half)..(Half - 1), NEW k \in Int,
           y = x + (2 * Half) * k
    PROVE  Long(x) = y
<1>1. PICK l \in Int : Long(x) = x + (2 * Half) * l
  BY LongValue
<1>2. Long(x) \in (-Half)..(Half - 1)
  BY LongValue
<1> DEFINE m == 2 * Half
<1>3. m \in Nat /\ m > 0
  BY HalfPositive
<1>4. m * (k - l) = m * k - m * l /\ m * k \in Int /\ m * l \in Int
  BY <1>3
<1>5. y - Long(x) = m * (k - l)
  BY <1>1, <1>2, <1>4
<1>6. m * (k - l) < m /\ -m < m * (k - l)
  BY <1>2, <1>5, HalfPositive
<1>7. k - l = 0
  <2> HIDE DEF m
  <2> QED BY <1>3, <1>6, SameResidue
<1> QED BY <1>1, <1>7

\* The sum of two distances, when it stays in the range, is the distance.
LEMMA LongSum ==
    ASSUME NEW x \in Int, NEW y \in Int, Long(x) + Long(y) \in (-Half)..(Half - 1)
    PROVE  Long(x + y) = Long(x) + Long(y)
<1>1. PICK k \in Int : Long(x) = x + (2 * Half) * k
  BY LongValue
<1>2. PICK l \in Int : Long(y) = y + (2 * Half) * l
  BY LongValue
<1>3. (2 * Half) * (k + l) = (2 * Half) * k + (2 * Half) * l /\ (2 * Half) * k \in Int /\ (2 * Half) * l \in Int
  BY HalfPositive
<1>4. Long(x) + Long(y) = (x + y) + (2 * Half) * (k + l)
  BY <1>1, <1>2, <1>3
<1> QED BY <1>4, LongUnique

\* (long) of the negative of a number that is not the least one.
LEMMA LongNegative ==
    ASSUME NEW x \in Int, -Half < Long(x)
    PROVE  Long(-x) = -Long(x)
<1>1. PICK k \in Int : Long(x) = x + (2 * Half) * k
  BY LongValue
<1>2. (2 * Half) * (-k) = -((2 * Half) * k) /\ (2 * Half) * k \in Int
  BY HalfPositive
<1>3. -Long(x) = (-x) + (2 * Half) * (-k)
  BY <1>1, <1>2
<1>4. -Long(x) \in (-Half)..(Half - 1)
  BY LongValue, HalfPositive
<1> QED BY <1>3, <1>4, LongUnique

\* Wrapping an operand around does not change the distance.
LEMMA LongWrap ==
    ASSUME NEW x \in Int, NEW y \in Int
    PROVE  Long(Wrap(x) - y) = Long(x - y) /\ Long(y - Wrap(x)) = Long(y - x)
<1>1. PICK k \in Int : Wrap(x) = x + (2 * Half) * k
  BY WrapValue
<1>2. Wrap(x) \in Int
  BY WrapValue
<1>3. PICK a \in Int : Long(Wrap(x) - y) = (Wrap(x) - y) + (2 * Half) * a
  BY <1>2, LongValue
<1>4. PICK b \in Int : Long(y - Wrap(x)) = (y - Wrap(x)) + (2 * Half) * b
  BY <1>2, LongValue
<1>5. /\ (2 * Half) * (k + a) = (2 * Half) * k + (2 * Half) * a
      /\ (2 * Half) * (b - k) = (2 * Half) * b - (2 * Half) * k
      /\ (2 * Half) * k \in Int /\ (2 * Half) * a \in Int /\ (2 * Half) * b \in Int
  BY HalfPositive
<1>6. /\ Long(Wrap(x) - y) = (x - y) + (2 * Half) * (k + a)
      /\ Long(y - Wrap(x)) = (y - x) + (2 * Half) * (b - k)
  BY <1>1, <1>2, <1>3, <1>4, <1>5
<1>7. /\ Long(Wrap(x) - y) \in (-Half)..(Half - 1)
      /\ Long(y - Wrap(x)) \in (-Half)..(Half - 1)
  BY <1>2, LongValue
<1>8. Long(x - y) = Long(Wrap(x) - y)
  BY <1>6, <1>7, LongUnique
<1>9. Long(y - x) = Long(y - Wrap(x))
  BY <1>6, <1>7, LongUnique
<1> QED BY <1>8, <1>9

\* (long)0 is 0.
LEMMA LongZero == Long(0) = 0
<1>1. 0 = 0 + (2 * Half) * 0 /\ 0 \in (-Half)..(Half - 1)
  BY HalfPositive
<1> QED BY <1>1, LongUnique

\* A distance that fits is itself.
LEMMA LongOfSmall ==
    ASSUME NEW x \in (-Half)..(Half - 1)
    PROVE  Long(x) = x
<1>1. x = x + (2 * Half) * 0 /\ x \in Int
  BY HalfPositive
<1> QED BY <1>1, LongUnique

-----------------------------------------------------------------------------
(***************************************************************************)
(* The inductive invariant.                                                *)
(***************************************************************************)
Left == [t \in Timer |-> Long(expires[t] - ticks)]

TypeInv ==
    /\ ticks \in 0..(2 * Half - 1)
    /\ n \in 0..MaxNum
    /\ heap \in [Slots -> Timer \cup {NULL}]
    /\ index \in [Timer -> Slots \cup {NULL}]
    /\ expires \in [Timer -> 0..(2 * Half - 1)]
    /\ phase \in [Timer -> {"none", "set", "added"}]
    /\ at \in {"free", "pull_up", "push_down", "expire"}
    /\ i \in Nat
    /\ ticking \in BOOLEAN

\* A timer in the heap is one whose thread is between timer_add() and the end
\* of timer_delete(); its index is the slot it is in.
Placed ==
    /\ \A k \in 0..(n - 1) : heap[k] \in Timer /\ index[heap[k]] = k
    /\ \A t \in Timer : index[t] # NULL => /\ index[t] \in 0..(n - 1)
                                           /\ heap[index[t]] = t
                                           /\ phase[t] = "added"

Control ==
    /\ at = "free" => ~ticking
    /\ at = "expire" => ticking
    /\ at \in {"pull_up", "push_down"} => i < n

\* Deadlines this close to ticks can be compared.
Close(l) == -MaxLag - 1 <= l /\ l + MaxLag + 1 < Half /\ MaxLag + 1 < Half

\* A tick leaves a pending timer at most one tick later than timer_add() may
\* find it, and timer_update() then removes every timer that is due.
Deadlines ==
    /\ \A t \in Timer : index[t] # NULL => Close(Left[t])
    /\ \A t \in Timer : index[t] # NULL /\ ~ticking => -MaxLag <= Left[t]
    /\ \A t \in Timer : phase[t] = "set" => Close(Left[t]) /\ -MaxLag <= Left[t]

\* The order of the heap h of m timers with the distances L: everywhere, while
\* the timer in slot j is pulled up, and while it is pushed down.
Ordered(h, m, L) == \A k \in 1..(m - 1) : L[h[Parent(k)]] <= L[h[k]]

Bridged(h, m, L, j) ==
    \A k \in 1..(m - 1) : Parent(k) = j /\ j > 0 => L[h[Parent(j)]] <= L[h[k]]

PullOrdered(h, m, L, j) ==
    /\ \A k \in 1..(m - 1) : k # j => L[h[Parent(k)]] <= L[h[k]]
    /\ Bridged(h, m, L, j)

PushOrdered(h, m, L, j) ==
    /\ \A k \in 1..(m - 1) : Parent(k) # j => L[h[Parent(k)]] <= L[h[k]]
    /\ Bridged(h, m, L, j)

InOrder ==
    /\ at \in {"free", "expire"} => Ordered(heap, n, Left)
    /\ at = "pull_up" => PullOrdered(heap, n, Left, i)
    /\ at = "push_down" => PushOrdered(heap, n, Left, i)

HeapInv == TypeInv /\ Placed /\ Control /\ Deadlines /\ InOrder

-----------------------------------------------------------------------------
(***************************************************************************)
(* Comparing deadlines.                                                    *)
(***************************************************************************)
LEMMA CompareDeadlines ==
    ASSUME NEW a \in Int, NEW b \in Int, NEW now \in Int,
           Close(Long(a - now)), Close(Long(b - now))
    PROVE  time_after(a, b) <=> Long(b - now) < Long(a - now)
<1>1. Long(a - now) \in Int /\ Long(b - now) \in Int
  BY LongValue
<1>2. -Half < Long(a - now)
  BY <1>1, HeapAssumption DEF Close
<1>3. Long(-(a - now)) = -Long(a - now)
  BY <1>2, LongNegative
<1>4. Long(b - now) + Long(-(a - now)) \in (-Half)..(Half - 1)
  BY <1>1, <1>3, HeapAssumption DEF Close
<1>5. Long((b - now) + (-(a - now))) = Long(b - now) + Long(-(a - now))
  BY <1>4, LongSum
<1>6. (b - now) + (-(a - now)) = b - a
  OBVIOUS
<1>7. Long(b - a) = Long(b - now) - Long(a - now)
  BY <1>1, <1>3, <1>5, <1>6
<1> QED BY <1>1, <1>7 DEF time_after

\* time_after(a, now) is right for a deadline that is close.
LEMMA CompareNow ==
    ASSUME NEW a \in Int, NEW now \in Int, Close(Long(a - now))
    PROVE  time_after(a, now) <=> Long(a - now) > 0
<1>1. Long(a - now) \in Int
  BY LongValue
<1>2. -Half < Long(a - now)
  BY <1>1, HeapAssumption DEF Close
<1>3. Long(-(a - now)) = -Long(a - now)
  BY <1>2, LongNegative
<1>4. -(a - now) = now - a
  OBVIOUS
<1> QED BY <1>1, <1>3, <1>4 DEF time_after

\* One tick brings a deadline one tick closer.
LEMMA TickLeft ==
    ASSUME NEW a \in Int, NEW now \in Int, -Half < Long(a - now)
    PROVE  Long(a - Wrap(now + 1)) = Long(a - now) - 1
<1>1. Long(a - Wrap(now + 1)) = Long(a - (now + 1))
  BY LongWrap
<1>2. Long(a - now) \in (-Half)..(Half - 1)
  BY LongValue
<1>3. -1 \in (-Half)..(Half - 1)
  BY HalfPositive
<1>4. Long(-1) = -1
  BY <1>3, LongOfSmall
<1>5. Long(a - now) + Long(-1) \in (-Half)..(Half - 1)
  BY <1>2, <1>4, HalfPositive
<1>6. Long((a - now) + (-1)) = Long(a - now) + Long(-1)
  BY <1>5, LongSum
<1>7. (a - now) + (-1) = a - (now + 1)
  OBVIOUS
<1> QED BY <1>1, <1>2, <1>4, <1>6, <1>7

\* A timeout of d ticks from now is d ticks away.
LEMMA SetLeft ==
    ASSUME NEW d \in Nat, d < Half, NEW now \in Int
    PROVE  Long(Wrap(now + d) - now) = d
<1>1. Long(Wrap(now + d) - now) = Long((now + d) - now)
  BY LongWrap
<1>2. (now + d) - now = d
  OBVIOUS
<1>3. d \in (-Half)..(Half - 1)
  BY HalfPositive
<1> QED BY <1>1, <1>2, <1>3, LongOfSmall

\* The distances of all timers are numbers, and time_after() orders two timers
\* of the heap like them.
LEMMA LeftType ==
    ASSUME TypeInv
    PROVE  Left \in [Timer -> Int] /\ \A t \in Timer : Left[t] = Long(expires[t] - ticks)
<1>1. ASSUME NEW t \in Timer PROVE Long(expires[t] - ticks) \in Int
  <2>1. expires[t] - ticks \in Int
    BY HalfPositive DEF TypeInv
  <2> QED BY <2>1, LongValue
<1> QED BY <1>1 DEF Left

\* time_after() orders close timers by the ticks they have left.
LEMMA TimersCompare ==
    ASSUME TypeInv, NEW t \in Timer, NEW u \in Timer, Close(Left[t]), Close(Left[u])
    PROVE  time_after(expires[t], expires[u]) <=> Left[u] < Left[t]
<1>1. expires[t] \in Int /\ expires[u] \in Int /\ ticks \in Int
  BY HalfPositive DEF TypeInv
<1>2. Close(Long(expires[t] - ticks)) /\ Close(Long(expires[u] - ticks))
  BY LeftType
<1>3. time_after(expires[t], expires[u]) <=> Long(expires[u] - ticks) < Long(expires[t] - ticks)
  BY <1>1, <1>2, CompareDeadlines
<1> QED BY <1>3, LeftType

-----------------------------------------------------------------------------
(***************************************************************************)
(* The heap as an array: parents, and what moves keep its order.           *)
(***************************************************************************)
LEMMA ParentFacts ==
    ASSUME NEW k \in Nat, k >= 1
    PROVE  /\ Parent(k) \in Nat
           /\ Parent(k) < k
           /\ k = 2 * Parent(k) + 1 \/ k = 2 * Parent(k) + 2
BY DEF Parent

\* The children of slot j are 2j+1 and 2j+2.
LEMMA ChildFacts ==
    ASSUME NEW j \in Nat
    PROVE  Parent(2 * j + 1) = j /\ Parent(2 * j + 2) = j
BY DEF Parent

\* h is a heap of m timers of T with distances L.
IsHeap(T, h, m, L) ==
    /\ m \in Nat
    /\ L \in [T -> Int]
    /\ \A k \in 0..(m - 1) : h[k] \in T

\* g is h with the slots a and b exchanged.
Swapped(h, m, a, b, g) ==
    /\ g[a] = h[b]
    /\ g[b] = h[a]
    /\ \A k \in 0..(m - 1) : k # a /\ k # b => g[k] = h[k]

\* An iteration of heap_pull_up() keeps the order of its loop.
LEMMA PullStep ==
    ASSUME NEW T, NEW h, NEW g, NEW m, NEW L, NEW j \in 1..(m - 1),
           IsHeap(T, h, m, L), PullOrdered(h, m, L, j),
           L[h[j]] < L[h[Parent(j)]], Swapped(h, m, j, Parent(j), g)
    PROVE  PullOrdered(g, m, L, Parent(j))
<1> DEFINE p == Parent(j)
<1>1. p \in Nat /\ p < j /\ j \in Nat /\ m \in Nat /\ j < m
  BY ParentFacts DEF IsHeap
<1>2. \A k \in 0..(m - 1) : L[h[k]] \in Int
  BY DEF IsHeap
<1>3. g[j] = h[p] /\ g[p] = h[j] /\ \A k \in 0..(m - 1) : k # j /\ k # p => g[k] = h[k]
  BY DEF Swapped
<1>4. ASSUME NEW k \in 1..(m - 1) PROVE Parent(k) \in 0..(m - 1) /\ Parent(k) < k /\ k \in 0..(m - 1)
  BY <1>1, ParentFacts
<1>5. \A k \in 1..(m - 1) : k # j => L[h[Parent(k)]] <= L[h[k]]
  BY DEF PullOrdered
<1>6. \A k \in 1..(m - 1) : Parent(k) = j => L[h[p]] <= L[h[k]]
  BY <1>1 DEF PullOrdered, Bridged
<1> HIDE DEF p
<1>7. L[h[j]] < L[h[p]]
  BY DEF p
<1>8. ASSUME NEW k \in 1..(m - 1), k # p PROVE L[g[Parent(k)]] <= L[g[k]]
  <2>1. CASE k = j
    BY <1>1, <1>2, <1>3, <1>4, <1>7, <2>1 DEF p
  <2>2. CASE k # j /\ Parent(k) = j
    BY <1>3, <1>4, <1>6, <1>8, <2>2
  <2>3. CASE k # j /\ Parent(k) = p
    <3>1. L[h[p]] <= L[h[k]]
      BY <1>5, <2>3
    <3>2. L[h[p]] \in Int /\ L[h[k]] \in Int /\ L[h[j]] \in Int
      BY <1>1, <1>2
    <3>3. g[Parent(k)] = h[j] /\ g[k] = h[k]
      BY <1>3, <1>4, <1>8, <2>3
    <3> QED BY <1>7, <3>1, <3>2, <3>3
  <2>4. CASE k # j /\ Parent(k) # j /\ Parent(k) # p
    <3>1. g[Parent(k)] = h[Parent(k)] /\ g[k] = h[k]
      BY <1>3, <1>4, <1>8, <2>4
    <3> QED BY <1>5, <2>4, <3>1
  <2> QED BY <2>1, <2>2, <2>3, <2>4
<1>9. ASSUME NEW k \in 1..(m - 1), Parent(k) = p, p > 0 PROVE L[g[Parent(p)]] <= L[g[k]]
  <2>1. p \in 1..(m - 1) /\ p # j /\ Parent(p) \in 0..(m - 1) /\ Parent(p) # p /\ Parent(p) # j
    BY <1>1, <1>4, <1>9
  <2>2. g[Parent(p)] = h[Parent(p)] /\ L[h[Parent(p)]] <= L[h[p]]
    BY <1>3, <1>5, <2>1
  <2>3. CASE k = j
    BY <1>3, <2>2, <2>3
  <2>4. CASE k # j
    <3>1. k # p /\ k \in 0..(m - 1)
      BY <1>1, <1>4, <1>9
    <3>2. g[k] = h[k] /\ L[h[p]] <= L[h[k]]
      BY <1>3, <1>5, <1>9, <2>4, <3>1
    <3>3. L[h[Parent(p)]] \in Int /\ L[h[p]] \in Int /\ L[h[k]] \in Int
      BY <1>1, <1>2, <2>1, <3>1
    <3> QED BY <2>2, <3>2, <3>3
  <2> QED BY <2>3, <2>4
<1> QED BY <1>8, <1>9 DEF PullOrdered, Bridged, p

\* An iteration of heap_push_down() keeps the order of its loop: s is the child
\* that expires first.
LEMMA PushStep ==
    ASSUME NEW T, NEW h, NEW g, NEW m, NEW L, NEW j \in 0..(m - 1), NEW s \in 1..(m - 1),
           IsHeap(T, h, m, L), PushOrdered(h, m, L, j), Parent(s) = j,
           L[h[s]] < L[h[j]],
           \A k \in 1..(m - 1) : Parent(k) = j => L[h[s]] <= L[h[k]],
           Swapped(h, m, j, s, g)
    PROVE  PushOrdered(g, m, L, s)
<1>1. j \in Nat /\ s \in Nat /\ j < s /\ m \in Nat /\ s < m
  BY ParentFacts DEF IsHeap
<1>2. \A k \in 0..(m - 1) : L[h[k]] \in Int
  BY DEF IsHeap
<1>3. g[j] = h[s] /\ g[s] = h[j] /\ \A k \in 0..(m - 1) : k # j /\ k # s => g[k] = h[k]
  BY DEF Swapped
<1>4. ASSUME NEW k \in 1..(m - 1) PROVE Parent(k) \in 0..(m - 1) /\ Parent(k) < k /\ k \in 0..(m - 1)
  BY <1>1, ParentFacts
<1>5. \A k \in 1..(m - 1) : Parent(k) # j => L[h[Parent(k)]] <= L[h[k]]
  BY DEF PushOrdered
<1>6. j > 0 => L[h[Parent(j)]] <= L[h[s]]
  BY DEF PushOrdered, Bridged
<1>7. ASSUME NEW k \in 1..(m - 1), Parent(k) # s PROVE L[g[Parent(k)]] <= L[g[k]]
  <2>1. CASE k = s
    BY <1>1, <1>2, <1>3, <2>1
  <2>2. CASE k = j
    <3>1. j > 0 /\ Parent(j) \in 0..(m - 1) /\ Parent(j) < j
      BY <1>4, <2>2
    <3>2. g[Parent(j)] = h[Parent(j)]
      BY <1>1, <1>3, <3>1
    <3> QED BY <1>3, <1>6, <2>2, <3>1, <3>2
  <2>3. CASE k # s /\ k # j /\ Parent(k) = j
    <3>1. g[Parent(k)] = h[s] /\ g[k] = h[k]
      BY <1>3, <1>4, <2>3
    <3> QED BY <2>3, <3>1
  <2>4. CASE k # s /\ k # j /\ Parent(k) # j
    <3>1. g[Parent(k)] = h[Parent(k)] /\ g[k] = h[k]
      BY <1>3, <1>4, <1>7, <2>4
    <3> QED BY <1>5, <2>4, <3>1
  <2> QED BY <2>1, <2>2, <2>3, <2>4
<1>8. ASSUME NEW k \in 1..(m - 1), Parent(k) = s PROVE L[g[Parent(s)]] <= L[g[k]]
  <2>1. k # s /\ k # j /\ k \in 0..(m - 1)
    BY <1>1, <1>4, <1>8
  <2>2. g[k] = h[k] /\ g[Parent(s)] = h[s]
    BY <1>3, <2>1
  <2>3. L[h[Parent(k)]] <= L[h[k]]
    BY <1>1, <1>5, <1>8
  <2> QED BY <1>8, <2>2, <2>3
<1> QED BY <1>7, <1>8 DEF PushOrdered, Bridged

\* Where a loop ends, the heap is in order.
LEMMA PullEnd ==
    ASSUME NEW h, NEW m, NEW L, NEW j,
           PullOrdered(h, m, L, j), j \in 1..(m - 1) => L[h[Parent(j)]] <= L[h[j]]
    PROVE  Ordered(h, m, L)
BY DEF PullOrdered, Ordered

\* heap_push_down() that ends has ordered the heap.
LEMMA PushEnd ==
    ASSUME NEW h, NEW m, NEW L, NEW j,
           PushOrdered(h, m, L, j),
           \A k \in 1..(m - 1) : Parent(k) = j => L[h[j]] <= L[h[k]]
    PROVE  Ordered(h, m, L)
BY DEF PushOrdered, Ordered

\* A new last timer may have to be pulled up.
LEMMA AddOrder ==
    ASSUME NEW T, NEW h, NEW g, NEW m \in Nat, NEW L,
           Ordered(h, m, L), \A k \in 0..(m - 1) : g[k] = h[k]
    PROVE  PullOrdered(g, m + 1, L, m)
<1>1. ASSUME NEW k \in 1..m
      PROVE  Parent(k) \in 0..(m - 1) /\ Parent(k) # m
  BY ParentFacts
<1>2. ASSUME NEW k \in 1..m, k # m PROVE L[g[Parent(k)]] <= L[g[k]]
  <2>1. k \in 1..(m - 1) /\ k \in 0..(m - 1)
    BY <1>2
  <2> QED BY <1>1, <2>1 DEF Ordered
<1>3. (m + 1) - 1 = m
  OBVIOUS
<1> QED BY <1>1, <1>2, <1>3 DEF PullOrdered, Bridged

\* heap_adjust() chooses the loop whose order holds when the last timer has
\* been moved into slot j.
LEMMA AdjustOrder ==
    ASSUME NEW T, NEW h, NEW g, NEW m, NEW L, NEW j \in 0..(m - 2),
           IsHeap(T, h, m, L), Ordered(h, m, L), g[j] = h[m - 1],
           \A k \in 0..(m - 2) : k # j => g[k] = h[k]
    PROVE  /\ j > 0 /\ L[h[m - 1]] < L[h[Parent(j)]] => PullOrdered(g, m - 1, L, j)
           /\ ~(j > 0 /\ L[h[m - 1]] < L[h[Parent(j)]]) => PushOrdered(g, m - 1, L, j)
<1>1. m \in Nat /\ j \in Nat /\ m - 1 \in 0..(m - 1) /\ j \in 0..(m - 1)
  BY DEF IsHeap
<1>2. \A k \in 0..(m - 1) : L[h[k]] \in Int
  BY DEF IsHeap
<1>3. ASSUME NEW k \in 1..((m - 1) - 1)
      PROVE  /\ Parent(k) \in 0..(m - 2) /\ Parent(k) < k /\ k \in 0..(m - 2)
             /\ k \in 1..(m - 1) /\ k \in 0..(m - 1) /\ Parent(k) \in 0..(m - 1)
  BY <1>1, ParentFacts
<1>4. \A k \in 1..((m - 1) - 1) : L[h[Parent(k)]] <= L[h[k]]
  BY <1>3 DEF Ordered
<1>5. j > 0 => /\ Parent(j) \in 0..(m - 2) /\ Parent(j) # j /\ Parent(j) \in 0..(m - 1)
               /\ L[h[Parent(j)]] <= L[h[j]]
  <2> HAVE j > 0
  <2>1. j \in 1..((m - 1) - 1)
    BY <1>1
  <2> QED BY <1>3, <1>4, <2>1
<1>6. Bridged(g, m - 1, L, j)
  <2> SUFFICES ASSUME NEW k \in 1..((m - 1) - 1), Parent(k) = j, j > 0
               PROVE  L[g[Parent(j)]] <= L[g[k]]
    BY DEF Bridged
  <2>1. g[Parent(j)] = h[Parent(j)] /\ g[k] = h[k]
    BY <1>3, <1>5
  <2>2. L[h[Parent(j)]] <= L[h[j]] /\ L[h[j]] <= L[h[k]]
    BY <1>4, <1>5
  <2>3. L[h[Parent(j)]] \in Int /\ L[h[j]] \in Int /\ L[h[k]] \in Int
    BY <1>1, <1>2, <1>3, <1>5
  <2> QED BY <2>1, <2>2, <2>3
<1>7. ASSUME NEW k \in 1..((m - 1) - 1), k # j, Parent(k) # j PROVE L[g[Parent(k)]] <= L[g[k]]
  <2>1. g[Parent(k)] = h[Parent(k)] /\ g[k] = h[k]
    BY <1>3, <1>7
  <2> QED BY <1>4, <2>1
<1>8. CASE j > 0 /\ L[h[m - 1]] < L[h[Parent(j)]]
  <2> SUFFICES ASSUME NEW k \in 1..((m - 1) - 1), k # j, Parent(k) = j
               PROVE  L[g[Parent(k)]] <= L[g[k]]
    BY <1>6, <1>7, <1>8 DEF PullOrdered
  <2>1. g[Parent(k)] = h[m - 1] /\ g[k] = h[k]
    BY <1>3
  <2>2. L[h[Parent(j)]] <= L[h[j]] /\ L[h[j]] <= L[h[k]]
    BY <1>4, <1>5, <1>8
  <2>3. L[h[Parent(j)]] \in Int /\ L[h[j]] \in Int /\ L[h[k]] \in Int /\ L[h[m - 1]] \in Int
    BY <1>1, <1>2, <1>3, <1>5, <1>8
  <2> QED BY <1>8, <2>1, <2>2, <2>3
<1>9. CASE ~(j > 0 /\ L[h[m - 1]] < L[h[Parent(j)]])
  <2> SUFFICES ASSUME NEW k \in 1..((m - 1) - 1), k = j
               PROVE  L[g[Parent(k)]] <= L[g[k]]
    BY <1>6, <1>7, <1>9 DEF PushOrdered
  <2>1. j > 0 /\ Parent(j) \in 0..(m - 2) /\ Parent(j) # j /\ Parent(j) \in 0..(m - 1)
    BY <1>1, <1>5
  <2>2. g[Parent(j)] = h[Parent(j)]
    BY <2>1
  <2>3. L[h[Parent(j)]] \in Int /\ L[h[m - 1]] \in Int
    BY <1>1, <1>2, <2>1
  <2> QED BY <1>9, <2>1, <2>2, <2>3
<1> QED BY <1>8, <1>9

\* The order only depends on the distances of the timers in the heap, and not
\* on how far away they all are.
LEMMA OrderShift ==
    ASSUME NEW T, NEW h, NEW m, NEW L, NEW K, NEW c \in Int, NEW j \in 0..m,
           IsHeap(T, h, m, L), \A k \in 0..(m - 1) : K[h[k]] = L[h[k]] - c
    PROVE  /\ Ordered(h, m, L) => Ordered(h, m, K)
           /\ PullOrdered(h, m, L, j) => PullOrdered(h, m, K, j)
           /\ PushOrdered(h, m, L, j) => PushOrdered(h, m, K, j)
<1>1. \A k \in 0..(m - 1) : L[h[k]] \in Int
  BY DEF IsHeap
<1>2. ASSUME NEW a \in 0..(m - 1), NEW b \in 0..(m - 1), L[h[a]] <= L[h[b]]
      PROVE  K[h[a]] <= K[h[b]]
  BY <1>1, <1>2
<1>3. m \in Nat /\ \A k \in 1..(m - 1) : Parent(k) \in 0..(m - 1) /\ k \in 0..(m - 1)
  BY ParentFacts DEF IsHeap
<1>4. j > 0 => Parent(j) \in 0..(m - 1)
  BY <1>3, ParentFacts
<1>5. Ordered(h, m, L) => Ordered(h, m, K)
  BY <1>2, <1>3 DEF Ordered
<1>6. Bridged(h, m, L, j) => Bridged(h, m, K, j)
  BY <1>2, <1>3, <1>4 DEF Bridged
<1>7. PullOrdered(h, m, L, j) => PullOrdered(h, m, K, j)
  BY <1>2, <1>3, <1>6 DEF PullOrdered
<1>8. PushOrdered(h, m, L, j) => PushOrdered(h, m, K, j)
  BY <1>2, <1>3, <1>6 DEF PushOrdered
<1> QED BY <1>5, <1>7, <1>8

LessThan == {ss \in Nat \X Nat : ss[1] < ss[2]}

\* In an ordered heap no timer is due before the one in slot 0: the least slot
\* that holds an earlier one would be out of order with its parent.
LEMMA RootFirst ==
    ASSUME NEW T, NEW h, NEW m, NEW L,
           IsHeap(T, h, m, L), Ordered(h, m, L), NEW k \in 0..(m - 1)
    PROVE  L[h[0]] <= L[h[k]]
<1> DEFINE Early == {a \in 0..(m - 1) : ~(L[h[0]] <= L[h[a]])}
<1> SUFFICES ASSUME Early # {} PROVE FALSE
  OBVIOUS
<1>1. Early \in SUBSET Nat /\ m \in Nat
  BY DEF IsHeap
<1>2. IsWellFoundedOn(LessThan, Nat)
  BY NatLessThanWellFounded DEF OpToRel, LessThan
<1>3. PICK a \in Early : \A b \in Early : <<b, a>> \notin LessThan
  <2> HIDE DEF Early
  <2> QED BY <1>1, <1>2, WFMin, Zenon
<1>4. \A b \in 0..(m - 1) : L[h[b]] \in Int
  BY DEF IsHeap
<1>5. a \in 0..(m - 1) /\ ~(L[h[0]] <= L[h[a]])
  OBVIOUS
<1>6. a # 0
  BY <1>1, <1>4, <1>5
<1>7. a \in 1..(m - 1) /\ Parent(a) \in 0..(m - 1) /\ Parent(a) < a /\ a \in Nat /\ Parent(a) \in Nat
  BY <1>1, <1>5, <1>6, ParentFacts
<1>8. <<Parent(a), a>> \in LessThan
  BY <1>7 DEF LessThan
<1>9. L[h[0]] <= L[h[Parent(a)]]
  BY <1>3, <1>7, <1>8
<1>10. L[h[Parent(a)]] <= L[h[a]]
  BY <1>7 DEF Ordered
<1>11. 0 \in 0..(m - 1)
  BY <1>1
<1> QED BY <1>4, <1>5, <1>7, <1>9, <1>10, <1>11

-----------------------------------------------------------------------------
(***************************************************************************)
(* The operations on the state.                                            *)
(***************************************************************************)
LEMMA HeapShape ==
    ASSUME TypeInv, Placed
    PROVE  /\ IsHeap(Timer, heap, n, Left)
           /\ \A k \in 0..(n - 1) : k \in Slots /\ k # NULL
<1>1. n \in Nat /\ n <= MaxNum /\ MaxNum \in Nat
  BY HeapAssumption DEF TypeInv
<1>2. \A k \in 0..(n - 1) : k \in Slots /\ k # NULL
  BY <1>1, HeapAssumption DEF Slots
<1>3. \A k \in 0..(n - 1) : heap[k] \in Timer
  BY DEF Placed
<1> QED BY <1>1, <1>2, <1>3, LeftType DEF IsHeap

\* heap_swap() exchanges two timers and their indices.
LEMMA SwapEffect ==
    ASSUME TypeInv, Placed, NEW j \in 0..(n - 1), NEW k \in 0..(n - 1), j # k,
           heap_swap(j, k), n' = n, phase' = phase
    PROVE  /\ heap' \in [Slots -> Timer \cup {NULL}]
           /\ index' \in [Timer -> Slots \cup {NULL}]
           /\ Placed'
           /\ Swapped(heap, n, j, k, heap')
           /\ \A t \in Timer : index'[t] = NULL <=> index[t] = NULL
<1>1. \A l \in 0..(n - 1) : l \in Slots /\ l # NULL /\ heap[l] \in Timer /\ index[heap[l]] = l
  BY HeapShape DEF Placed
<1>2. heap[j] \in Timer /\ heap[k] \in Timer /\ heap[j] # heap[k] /\ j \in Slots /\ k \in Slots
  BY <1>1
<1>3. /\ heap' \in [Slots -> Timer \cup {NULL}]
      /\ heap'[j] = heap[k] /\ heap'[k] = heap[j]
      /\ \A l \in Slots : l # j /\ l # k => heap'[l] = heap[l]
  BY <1>2 DEF heap_swap, TypeInv
<1>4. /\ index' \in [Timer -> Slots \cup {NULL}]
      /\ index'[heap[j]] = k /\ index'[heap[k]] = j
      /\ \A t \in Timer : t # heap[j] /\ t # heap[k] => index'[t] = index[t]
  BY <1>2 DEF heap_swap, TypeInv
<1>5. Swapped(heap, n, j, k, heap')
  BY <1>1, <1>3 DEF Swapped
<1>6. \A t \in Timer : index'[t] = NULL <=> index[t] = NULL
  BY <1>1, <1>4
<1>7. ASSUME NEW l \in 0..(n - 1) PROVE heap'[l] \in Timer /\ index'[heap'[l]] = l
  <2>1. CASE l = j \/ l = k
    BY <1>2, <1>3, <1>4, <2>1
  <2>2. CASE l # j /\ l # k
    <3>1. heap'[l] = heap[l] /\ heap[l] # heap[j] /\ heap[l] # heap[k]
      BY <1>1, <1>3, <2>2
    <3> QED BY <1>1, <1>4, <3>1
  <2> QED BY <2>1, <2>2
<1>8. ASSUME NEW t \in Timer, index'[t] # NULL
      PROVE  index'[t] \in 0..(n - 1) /\ heap'[index'[t]] = t /\ phase[t] = "added"
  <2>1. phase[t] = "added" /\ index[t] \in 0..(n - 1) /\ heap[index[t]] = t
    BY <1>6, <1>8 DEF Placed
  <2>2. CASE t = heap[j] \/ t = heap[k]
    BY <1>3, <1>4, <2>1, <2>2
  <2>3. CASE t # heap[j] /\ t # heap[k]
    <3>1. index'[t] = index[t] /\ index[t] # j /\ index[t] # k
      BY <1>4, <2>1, <2>3
    <3> QED BY <1>1, <1>3, <2>1, <3>1
  <2> QED BY <2>1, <2>2, <2>3
<1> QED BY <1>3, <1>4, <1>5, <1>6, <1>7, <1>8 DEF Placed

\* __timer_delete() takes t out and leaves the others in, and the loop it goes
\* on with finds the order it needs.
LEMMA DeleteEffect ==
    ASSUME HeapInv, at \in {"free", "expire"}, NEW t \in Timer, index[t] # NULL,
           __timer_delete(t)
    PROVE  /\ n' \in 0..MaxNum
           /\ heap' \in [Slots -> Timer \cup {NULL}]
           /\ index' \in [Timer -> Slots \cup {NULL}]
           /\ at' \in {"free", "pull_up", "push_down", "expire"}
           /\ i' \in Nat
           /\ \A k \in 0..(n' - 1) : heap'[k] \in Timer /\ index'[heap'[k]] = k /\ heap'[k] # t
           /\ \A u \in Timer : index'[u] # NULL => index'[u] \in 0..(n' - 1) /\ heap'[index'[u]] = u
           /\ \A u \in Timer : index'[u] # NULL <=> u # t /\ index[u] # NULL
           /\ at' = "free" => ~ticking
           /\ at' = "expire" => ticking
           /\ at' \in {"pull_up", "push_down"} => i' < n'
           /\ at' \in {"free", "expire"} => Ordered(heap', n', Left)
           /\ at' = "pull_up" => PullOrdered(heap', n', Left, i')
           /\ at' = "push_down" => PushOrdered(heap', n', Left, i')
<1> USE DEF HeapInv
<1> DEFINE k == index[t]
           last == heap[n - 1]
<1>1. \A l \in 0..(n - 1) : l \in Slots /\ l # NULL /\ heap[l] \in Timer /\ index[heap[l]] = l
  BY HeapShape DEF Placed
<1>2. /\ n \in Nat /\ n <= MaxNum /\ MaxNum \in Nat
      /\ k \in 0..(n - 1) /\ heap[k] = t /\ n - 1 \in 0..(n - 1) /\ n >= 1
  BY HeapAssumption DEF TypeInv, Placed
<1>3. last \in Timer /\ index[last] = n - 1 /\ k \in Slots /\ n - 1 \in Slots
  BY <1>1, <1>2
<1>4. n' = n - 1 /\ n' \in Nat
  BY <1>2 DEF __timer_delete
<1>5. IsHeap(Timer, heap, n, Left) /\ Ordered(heap, n, Left)
  BY HeapShape DEF InOrder
<1>6. CASE k = n - 1
  <2>1. heap' = [heap EXCEPT ![k] = NULL] /\ index' = [index EXCEPT ![t] = NULL] /\ Return
    BY <1>6 DEF __timer_delete
  <2>2. /\ heap' \in [Slots -> Timer \cup {NULL}]
        /\ \A l \in Slots : l # k => heap'[l] = heap[l]
    BY <1>3, <2>1 DEF TypeInv
  <2>3. /\ index' \in [Timer -> Slots \cup {NULL}]
        /\ index'[t] = NULL
        /\ \A u \in Timer : u # t => index'[u] = index[u]
    BY <2>1 DEF TypeInv
  <2>4. \A l \in 0..(n' - 1) : heap'[l] = heap[l] /\ heap[l] # t /\ l \in 0..(n - 1)
    BY <1>1, <1>2, <1>4, <1>6, <2>2
  <2>5. \A l \in 0..(n' - 1) : heap'[l] \in Timer /\ index'[heap'[l]] = l /\ heap'[l] # t
    BY <1>1, <2>3, <2>4
  <2>6. ASSUME NEW u \in Timer, index'[u] # NULL
        PROVE  index'[u] \in 0..(n' - 1) /\ heap'[index'[u]] = u
    <3>1. u # t /\ index'[u] = index[u] /\ index[u] \in 0..(n - 1) /\ heap[index[u]] = u
      BY <2>3, <2>6 DEF Placed
    <3>2. index[u] # n - 1
      BY <1>2, <1>6, <3>1
    <3>3. index[u] \in 0..(n' - 1)
      BY <1>2, <1>4, <3>1, <3>2
    <3> QED BY <2>4, <3>1, <3>3
  <2>7. Ordered(heap', n', Left)
    <3>1. ASSUME NEW l \in 1..(n' - 1)
          PROVE  l \in 1..(n - 1) /\ l \in 0..(n' - 1) /\ Parent(l) \in 0..(n' - 1)
      BY <1>2, <1>4, ParentFacts
    <3> QED BY <1>5, <2>4, <3>1 DEF Ordered
  <2>8. /\ at' \in {"free", "expire"} /\ i' \in Nat
        /\ at' = "free" => ~ticking
        /\ at' = "expire" => ticking
    BY <2>1 DEF Return
  <2>9. n' \in 0..MaxNum
    BY <1>2, <1>4
  <2> QED BY <2>2, <2>3, <2>5, <2>6, <2>7, <2>8, <2>9
<1>7. CASE k # n - 1
  <2>1. /\ heap' = [heap EXCEPT ![k] = last, ![n - 1] = NULL]
        /\ index' = [index EXCEPT ![last] = k, ![t] = NULL]
        /\ i' = k
        /\ at' = IF k > 0 /\ time_after(expires[heap[Parent(k)]], expires[last])
                 THEN "pull_up" ELSE "push_down"
    BY <1>7 DEF __timer_delete
  <2>2. last # t /\ k \in 0..(n - 2)
    BY <1>2, <1>3, <1>7
  <2>3. /\ heap' \in [Slots -> Timer \cup {NULL}]
        /\ heap'[k] = last
        /\ \A l \in Slots : l # k /\ l # n - 1 => heap'[l] = heap[l]
    BY <1>3, <1>7, <2>1 DEF TypeInv
  <2>4. /\ index' \in [Timer -> Slots \cup {NULL}]
        /\ index'[t] = NULL /\ index'[last] = k
        /\ \A u \in Timer : u # t /\ u # last => index'[u] = index[u]
    BY <1>3, <2>1, <2>2 DEF TypeInv
  <2>5. ASSUME NEW l \in 0..(n' - 1)
        PROVE  heap'[l] \in Timer /\ index'[heap'[l]] = l /\ heap'[l] # t
    <3>1. CASE l = k
      BY <1>3, <2>2, <2>3, <2>4, <3>1
    <3>2. CASE l # k
      <4>1. l \in 0..(n - 1) /\ l # n - 1
        BY <1>2, <1>4
      <4>2. heap'[l] = heap[l] /\ heap[l] # t /\ heap[l] # last
        BY <1>1, <1>2, <1>3, <2>3, <3>2, <4>1
      <4> QED BY <1>1, <2>4, <4>1, <4>2
    <3> QED BY <3>1, <3>2
  <2>6. ASSUME NEW u \in Timer, index'[u] # NULL
        PROVE  index'[u] \in 0..(n' - 1) /\ heap'[index'[u]] = u
    <3>1. CASE u = last
      <4>1. k \in 0..(n' - 1)
        BY <1>2, <1>4, <2>2
      <4> HIDE DEF k, last
      <4> QED BY <2>3, <2>4, <3>1, <4>1
    <3>2. CASE u # last
      <4>1. u # t /\ index'[u] = index[u] /\ index[u] \in 0..(n - 1) /\ heap[index[u]] = u
        BY <2>4, <2>6, <3>2 DEF Placed
      <4>2. index[u] # n - 1 /\ index[u] # k
        BY <1>2, <3>2, <4>1
      <4>3. index[u] \in 0..(n' - 1) /\ index[u] \in Slots
        BY <1>1, <1>2, <1>4, <4>1, <4>2
      <4> QED BY <2>3, <4>1, <4>2, <4>3
    <3> QED BY <3>1, <3>2
  <2>7. \A u \in Timer : index'[u] # NULL <=> u # t /\ index[u] # NULL
    <3>1. index[last] # NULL /\ index'[last] # NULL
      BY <1>1, <1>2, <1>3, <2>4
    <3> QED BY <2>2, <2>4, <3>1
  <2>8. \A l \in 0..(n - 2) : l # k => heap'[l] = heap[l]
    <3>1. \A l \in 0..(n - 2) : l \in 0..(n - 1) /\ l # n - 1
      BY <1>2
    <3> QED BY <1>1, <2>3, <3>1
  <2>9. /\ k > 0 /\ Left[heap[n - 1]] < Left[heap[Parent(k)]] => PullOrdered(heap', n - 1, Left, k)
        /\ ~(k > 0 /\ Left[heap[n - 1]] < Left[heap[Parent(k)]]) => PushOrdered(heap', n - 1, Left, k)
    <3> HIDE DEF k
    <3> QED BY <1>5, <2>2, <2>3, <2>8, AdjustOrder
  <2>10. k > 0 => (time_after(expires[heap[Parent(k)]], expires[last])
                       <=> Left[last] < Left[heap[Parent(k)]])
    <3> HAVE k > 0
    <3>1. Parent(k) \in 0..(n - 1)
      BY <1>2, ParentFacts
    <3>2. heap[Parent(k)] \in Timer /\ index[heap[Parent(k)]] # NULL /\ index[last] # NULL
      BY <1>1, <1>2, <1>3, <3>1
    <3>3. Close(Left[heap[Parent(k)]]) /\ Close(Left[last])
      BY <1>3, <3>2 DEF Deadlines
    <3> QED BY <1>3, <3>2, <3>3, TimersCompare
  <2>11. /\ at' \in {"pull_up", "push_down"}
         /\ at' = "pull_up" => PullOrdered(heap', n', Left, i')
         /\ at' = "push_down" => PushOrdered(heap', n', Left, i')
    <3>1. CASE k > 0 /\ time_after(expires[heap[Parent(k)]], expires[last])
      BY <1>4, <2>1, <2>9, <2>10, <3>1
    <3>2. CASE ~(k > 0 /\ time_after(expires[heap[Parent(k)]], expires[last]))
      BY <1>4, <2>1, <2>9, <2>10, <3>2
    <3> QED BY <3>1, <3>2
  <2>12. n' \in 0..MaxNum /\ i' \in Nat /\ i' < n'
    BY <1>2, <1>4, <2>1, <2>2
  <2> HIDE DEF k, last
  <2> QED BY <2>3, <2>4, <2>5, <2>6, <2>7, <2>11, <2>12
<1> QED BY <1>6, <1>7

\* time_after() on two slots of the heap compares the ticks left.
LEMMA HeapCompare ==
    ASSUME HeapInv, NEW j \in 0..(n - 1), NEW k \in 0..(n - 1)
    PROVE  /\ After(j, k) <=> Left[heap[k]] < Left[heap[j]]
           /\ Left[heap[j]] \in Int /\ Left[heap[k]] \in Int
<1>1. /\ heap[j] \in Timer /\ index[heap[j]] # NULL
      /\ heap[k] \in Timer /\ index[heap[k]] # NULL
  BY HeapShape DEF HeapInv, Placed
<1>2. Close(Left[heap[j]]) /\ Close(Left[heap[k]])
  BY <1>1 DEF HeapInv, Deadlines
<1>3. time_after(expires[heap[j]], expires[heap[k]]) <=> Left[heap[k]] < Left[heap[j]]
  BY <1>1, <1>2, TimersCompare DEF HeapInv
<1> QED BY <1>1, <1>3, LeftType DEF After, HeapInv

\* The comparisons of heap_push_down() find the child that expires first, if
\* one expires before the timer in slot i.
LEMMA SmallestFacts ==
    ASSUME HeapInv, i < n
    PROVE  /\ Smallest(i) = i =>
                 \A k \in 1..(n - 1) : Parent(k) = i => Left[heap[i]] <= Left[heap[k]]
           /\ Smallest(i) # i =>
                 /\ Smallest(i) \in 1..(n - 1) /\ Parent(Smallest(i)) = i
                 /\ Left[heap[Smallest(i)]] < Left[heap[i]]
                 /\ \A k \in 1..(n - 1) : Parent(k) = i => Left[heap[Smallest(i)]] <= Left[heap[k]]
<1> DEFINE c == 2 * i + 1
           d == 2 * i + 2
           s == IF c < n /\ After(i, c) THEN c ELSE i
           V(k) == Left[heap[k]]
<1>1. i \in Nat /\ n \in Nat /\ i \in 0..(n - 1)
  BY HeapAssumption DEF HeapInv, TypeInv
<1>2. c \in Nat /\ d \in Nat /\ d = c + 1 /\ c # i /\ d # i /\ c > 0 /\ d > 0 /\ c # d
  BY <1>1
<1>3. Parent(c) = i /\ Parent(d) = i
  BY <1>1, ChildFacts
<1>4. \A k \in 1..(n - 1) : Parent(k) = i => k = c \/ k = d
  BY <1>1, ParentFacts
<1>5. \A j, k \in 0..(n - 1) : (After(j, k) <=> V(k) < V(j)) /\ V(j) \in Int /\ V(k) \in Int
  BY HeapCompare
<1>6. Smallest(i) = IF d < n /\ After(s, d) THEN d ELSE s
  BY <1>2 DEF Smallest
<1>7. c < n => c \in 0..(n - 1) /\ c \in 1..(n - 1)
  BY <1>1, <1>2
<1>8. d < n => d \in 0..(n - 1) /\ d \in 1..(n - 1) /\ c < n
  BY <1>1, <1>2
<1>9. \A k \in 1..(n - 1) : k < n
  BY <1>1
<1> SUFFICES /\ Smallest(i) = i => /\ c < n => V(i) <= V(c)
                                   /\ d < n => V(i) <= V(d)
             /\ Smallest(i) # i => /\ Smallest(i) \in 1..(n - 1) /\ Parent(Smallest(i)) = i
                                   /\ V(Smallest(i)) < V(i)
                                   /\ c < n => V(Smallest(i)) <= V(c)
                                   /\ d < n => V(Smallest(i)) <= V(d)
  BY <1>4, <1>9
<1> HIDE DEF c, d, V
<1>10. CASE ~(c < n)
  BY <1>2, <1>6, <1>8, <1>10
<1>11. CASE c < n /\ ~(d < n)
  <2>1. CASE After(i, c)
    BY <1>1, <1>2, <1>3, <1>5, <1>6, <1>7, <1>11, <2>1
  <2>2. CASE ~After(i, c)
    BY <1>1, <1>2, <1>5, <1>6, <1>7, <1>11, <2>2
  <2> QED BY <2>1, <2>2
<1>12. CASE c < n /\ d < n
  <2>1. V(c) \in Int /\ V(d) \in Int /\ V(i) \in Int
    BY <1>1, <1>5, <1>7, <1>8, <1>12
  <2>2. CASE After(i, c)
    <3>1. V(c) < V(i) /\ s = c
      BY <1>1, <1>5, <1>7, <1>12, <2>2
    <3>2. CASE After(c, d)
      <4>1. Smallest(i) = d /\ V(d) < V(c)
        BY <1>5, <1>6, <1>7, <1>8, <1>12, <3>1, <3>2
      <4> QED BY <1>2, <1>3, <1>8, <1>12, <2>1, <3>1, <4>1
    <3>3. CASE ~After(c, d)
      <4>1. Smallest(i) = c /\ V(c) <= V(d)
        BY <1>5, <1>6, <1>7, <1>8, <1>12, <2>1, <3>1, <3>3
      <4> QED BY <1>2, <1>3, <1>7, <1>12, <2>1, <3>1, <4>1
    <3> QED BY <3>2, <3>3
  <2>3. CASE ~After(i, c)
    <3>1. V(i) <= V(c) /\ s = i
      BY <1>1, <1>5, <1>7, <1>12, <2>1, <2>3
    <3>2. CASE After(i, d)
      <4>1. Smallest(i) = d /\ V(d) < V(i)
        BY <1>1, <1>5, <1>6, <1>8, <1>12, <3>1, <3>2
      <4> QED BY <1>2, <1>3, <1>8, <1>12, <2>1, <3>1, <4>1
    <3>3. CASE ~After(i, d)
      <4>1. Smallest(i) = i /\ V(i) <= V(d)
        BY <1>1, <1>5, <1>6, <1>8, <1>12, <2>1, <3>1, <3>3
      <4> QED BY <3>1, <4>1
    <3> QED BY <3>2, <3>3
  <2> QED BY <2>2, <2>3
<1> QED BY <1>10, <1>11, <1>12

-----------------------------------------------------------------------------
(***************************************************************************)
(* Every step keeps the invariant.                                         *)
(***************************************************************************)
LEMMA InitInv == HeapInit => HeapInv
<1> HAVE HeapInit
<1>1. TypeInv
  <2>1. ticks \in 0..(2 * Half - 1) /\ n \in 0..MaxNum /\ 0 \in 0..(2 * Half - 1)
    BY HeapAssumption, HalfPositive DEF HeapInit
  <2>2. expires \in [Timer -> 0..(2 * Half - 1)]
    BY <2>1 DEF HeapInit
  <2>3. heap \in [Slots -> Timer \cup {NULL}] /\ index \in [Timer -> Slots \cup {NULL}]
    BY DEF HeapInit
  <2>4. phase \in [Timer -> {"none", "set", "added"}]
    BY DEF HeapInit
  <2> QED BY <2>1, <2>2, <2>3, <2>4 DEF HeapInit, TypeInv
<1>2. Placed /\ Control
  BY DEF HeapInit, Placed, Control
<1>3. Deadlines /\ InOrder
  BY DEF HeapInit, Deadlines, InOrder, Ordered
<1> QED BY <1>1, <1>2, <1>3 DEF HeapInv

\* What a step of a sift leaves alone: the deadlines.
LEMMA DeadlinesKept ==
    ASSUME Deadlines, UNCHANGED <<ticks, expires, phase, ticking>>,
           \A t \in Timer : index'[t] = NULL <=> index[t] = NULL
    PROVE  Deadlines' /\ Left' = Left
<1>1. Left' = Left
  BY DEF Left
<1> QED BY <1>1 DEF Deadlines

\* An iteration of heap_pull_up() keeps the invariant.
LEMMA PullUpKeeps ==
    ASSUME HeapInv, heap_pull_up
    PROVE  HeapInv'
<1> USE DEF HeapInv
<1>1. /\ at = "pull_up" /\ i < n /\ i \in Nat /\ n \in Nat
      /\ UNCHANGED <<ticks, n, expires, phase, ticking>>
      /\ PullOrdered(heap, n, Left, i)
      /\ IsHeap(Timer, heap, n, Left)
      /\ ticking \in BOOLEAN
  BY HeapShape DEF heap_pull_up, Control, InOrder, TypeInv
<1>2. CASE i > 0 /\ After(Parent(i), i)
  <2>1. heap_swap(i, Parent(i)) /\ i' = Parent(i) /\ at' = "pull_up"
    BY <1>1, <1>2 DEF heap_pull_up
  <2>2. i \in 1..(n - 1) /\ i \in 0..(n - 1) /\ Parent(i) \in 0..(n - 1) /\ Parent(i) \in Nat /\ Parent(i) # i /\ Parent(i) < n
    BY <1>1, <1>2, ParentFacts
  <2>3. /\ heap' \in [Slots -> Timer \cup {NULL}]
        /\ index' \in [Timer -> Slots \cup {NULL}]
        /\ Placed'
        /\ Swapped(heap, n, i, Parent(i), heap')
        /\ \A t \in Timer : index'[t] = NULL <=> index[t] = NULL
    BY <1>1, <2>1, <2>2, SwapEffect
  <2>4. Deadlines' /\ Left' = Left
    BY <1>1, <2>3, DeadlinesKept
  <2>5. Left[heap[i]] < Left[heap[Parent(i)]]
    BY <1>2, <2>2, HeapCompare
  <2>6. PullOrdered(heap', n, Left, Parent(i))
    BY <1>1, <2>2, <2>3, <2>5, PullStep
  <2>7. InOrder'
    BY <1>1, <2>1, <2>4, <2>6 DEF InOrder
  <2>8. TypeInv' /\ Control'
    BY <1>1, <2>1, <2>2, <2>3 DEF TypeInv, Control
  <2> QED BY <2>3, <2>4, <2>7, <2>8
<1>3. CASE ~(i > 0 /\ After(Parent(i), i))
  <2>1. Return /\ heap' = heap /\ index' = index
    BY <1>1, <1>3 DEF heap_pull_up
  <2>2. Deadlines' /\ Left' = Left
    BY <1>1, <2>1, DeadlinesKept
  <2>3. i \in 1..(n - 1) => Left[heap[Parent(i)]] <= Left[heap[i]]
    <3> HAVE i \in 1..(n - 1)
    <3>1. i \in 0..(n - 1) /\ Parent(i) \in 0..(n - 1)
      BY <1>1, ParentFacts
    <3> QED BY <1>3, <3>1, HeapCompare
  <2>4. Ordered(heap, n, Left)
    BY <1>1, <2>3, PullEnd
  <2>5. at' \in {"free", "expire"} /\ i' \in Nat /\ (at' = "free" => ~ticking) /\ (at' = "expire" => ticking)
    BY <2>1 DEF Return
  <2>6. InOrder'
    BY <1>1, <2>1, <2>2, <2>4, <2>5 DEF InOrder
  <2>7. TypeInv' /\ Control' /\ Placed'
    BY <1>1, <2>1, <2>5 DEF TypeInv, Control, Placed
  <2> QED BY <2>2, <2>6, <2>7
<1> QED BY <1>2, <1>3

\* An iteration of heap_push_down() keeps the invariant.
LEMMA PushDownKeeps ==
    ASSUME HeapInv, heap_push_down
    PROVE  HeapInv'
<1> USE DEF HeapInv
<1>1. /\ at = "push_down" /\ i < n /\ i \in Nat /\ n \in Nat /\ i \in 0..(n - 1)
      /\ UNCHANGED <<ticks, n, expires, phase, ticking>>
      /\ PushOrdered(heap, n, Left, i)
      /\ IsHeap(Timer, heap, n, Left)
      /\ ticking \in BOOLEAN
  BY HeapShape DEF heap_push_down, Control, InOrder, TypeInv
<1> DEFINE s == Smallest(i)
<1>2. /\ s = i => \A k \in 1..(n - 1) : Parent(k) = i => Left[heap[i]] <= Left[heap[k]]
      /\ s # i => /\ s \in 1..(n - 1) /\ Parent(s) = i
                  /\ Left[heap[s]] < Left[heap[i]]
                  /\ \A k \in 1..(n - 1) : Parent(k) = i => Left[heap[s]] <= Left[heap[k]]
  BY <1>1, SmallestFacts
<1>3. CASE s # i
  <2>1. heap_swap(i, s) /\ i' = s /\ at' = "push_down"
    BY <1>1, <1>3 DEF heap_push_down
  <2> HIDE DEF s
  <2>2. s \in 1..(n - 1) /\ s \in 0..(n - 1) /\ s \in Nat /\ s < n
    BY <1>1, <1>2, <1>3
  <2>3. /\ heap' \in [Slots -> Timer \cup {NULL}]
        /\ index' \in [Timer -> Slots \cup {NULL}]
        /\ Placed'
        /\ Swapped(heap, n, i, s, heap')
        /\ \A t \in Timer : index'[t] = NULL <=> index[t] = NULL
    BY <1>1, <1>3, <2>1, <2>2, SwapEffect
  <2>4. Deadlines' /\ Left' = Left
    BY <1>1, <2>3, DeadlinesKept
  <2>5. PushOrdered(heap', n, Left, s)
    BY <1>1, <1>2, <1>3, <2>2, <2>3, PushStep
  <2>6. InOrder'
    BY <1>1, <2>1, <2>4, <2>5 DEF InOrder
  <2>7. TypeInv' /\ Control'
    BY <1>1, <2>1, <2>2, <2>3 DEF TypeInv, Control
  <2> QED BY <2>3, <2>4, <2>6, <2>7
<1>4. CASE s = i
  <2>1. Return /\ heap' = heap /\ index' = index
    BY <1>1, <1>4 DEF heap_push_down
  <2>2. Deadlines' /\ Left' = Left
    BY <1>1, <2>1, DeadlinesKept
  <2>3. Ordered(heap, n, Left)
    BY <1>1, <1>2, <1>4, PushEnd
  <2>4. at' \in {"free", "expire"} /\ i' \in Nat /\ (at' = "free" => ~ticking) /\ (at' = "expire" => ticking)
    BY <2>1 DEF Return
  <2>5. InOrder'
    BY <1>1, <2>1, <2>2, <2>3, <2>4 DEF InOrder
  <2>6. TypeInv' /\ Control' /\ Placed'
    BY <1>1, <2>1, <2>4 DEF TypeInv, Control, Placed
  <2> QED BY <2>2, <2>5, <2>6
<1> QED BY <1>3, <1>4

\* schedule_timeout() setting a deadline keeps the invariant.
LEMMA SetExpiresKeeps ==
    ASSUME HeapInv, NEW t \in Timer, NEW d \in Delay, set_expires(t, d)
    PROVE  HeapInv'
<1> USE DEF HeapInv
<1>1. /\ at = "free" /\ phase[t] = "none"
      /\ expires' = [expires EXCEPT ![t] = Wrap(ticks + d)]
      /\ phase' = [phase EXCEPT ![t] = "set"]
      /\ UNCHANGED <<ticks, heap, n, index, at, i, ticking>>
  BY DEF set_expires
<1>2. d \in Nat /\ d < Half /\ d + MaxLag + 1 < Half /\ MaxLag \in Nat /\ ticks \in Int
  BY HeapAssumption, HalfPositive DEF TypeInv
<1>3. Wrap(ticks + d) \in 0..(2 * Half - 1)
  BY <1>2, WrapValue
<1>4. TypeInv'
  BY <1>1, <1>3 DEF TypeInv
<1>5. index[t] = NULL
  BY <1>1 DEF Placed
<1>6. /\ Left'[t] = d
      /\ \A u \in Timer : u # t => Left'[u] = Left[u]
  <2>1. expires'[t] = Wrap(ticks + d) /\ \A u \in Timer : u # t => expires'[u] = expires[u]
    BY <1>1 DEF TypeInv
  <2>2. Long(Wrap(ticks + d) - ticks) = d
    BY <1>2, SetLeft
  <2> QED BY <1>1, <2>1, <2>2 DEF Left
<1>7. /\ phase'[t] = "set"
      /\ \A u \in Timer : u # t => phase'[u] = phase[u]
  BY <1>1 DEF TypeInv
<1>8. Placed'
  BY <1>1, <1>5, <1>7 DEF Placed
<1>9. Control'
  BY <1>1 DEF Control
<1>10. Close(d) /\ -MaxLag <= d
  BY <1>2, HalfPositive DEF Close
<1>11. Deadlines'
  BY <1>1, <1>5, <1>6, <1>7, <1>10 DEF Deadlines
<1>12. Ordered(heap, n, Left')
  <2>1. \A k \in 0..(n - 1) : heap[k] \in Timer /\ heap[k] # t
    BY <1>5, HeapShape DEF Placed
  <2>2. \A k \in 0..(n - 1) : Left[heap[k]] \in Int
    BY <2>1, LeftType
  <2>3. \A k \in 0..(n - 1) : Left'[heap[k]] = Left[heap[k]] - 0
    BY <1>6, <2>1, <2>2
  <2>4. 0 \in 0..n /\ 0 \in Int
    BY DEF TypeInv
  <2>5. Ordered(heap, n, Left) /\ IsHeap(Timer, heap, n, Left)
    BY <1>1, HeapShape DEF InOrder
  <2> QED BY <2>3, <2>4, <2>5, OrderShift
<1>13. InOrder'
  BY <1>1, <1>12 DEF InOrder
<1> QED BY <1>4, <1>8, <1>9, <1>11, <1>13

\* timer_add() keeps the invariant.
LEMMA TimerAddKeeps ==
    ASSUME HeapInv, NEW t \in Timer, timer_add(t)
    PROVE  HeapInv'
<1> USE DEF HeapInv
<1>1. /\ at = "free" /\ phase[t] = "set" /\ n < MaxNum
      /\ heap' = [heap EXCEPT ![n] = t]
      /\ index' = [index EXCEPT ![t] = n]
      /\ n' = n + 1 /\ i' = n /\ at' = "pull_up"
      /\ phase' = [phase EXCEPT ![t] = "added"]
      /\ UNCHANGED <<ticks, expires, ticking>>
  BY DEF timer_add
<1>2. n \in Nat /\ MaxNum \in Nat /\ n \in Slots /\ n' \in 0..MaxNum /\ n \in 0..(n' - 1)
  BY <1>1, HeapAssumption DEF TypeInv, Slots
<1>3. index[t] = NULL /\ ~ticking
  BY <1>1 DEF Placed, Control
<1>4. n # NULL
  BY <1>2, HeapAssumption DEF Slots
<1>5. /\ heap' \in [Slots -> Timer \cup {NULL}]
      /\ heap'[n] = t
      /\ \A k \in Slots : k # n => heap'[k] = heap[k]
  BY <1>1, <1>2 DEF TypeInv
<1>6. /\ index' \in [Timer -> Slots \cup {NULL}]
      /\ index'[t] = n
      /\ \A u \in Timer : u # t => index'[u] = index[u]
  BY <1>1, <1>2 DEF TypeInv
<1>7. /\ phase' \in [Timer -> {"none", "set", "added"}]
      /\ phase'[t] = "added"
      /\ \A u \in Timer : u # t => phase'[u] = phase[u]
  BY <1>1 DEF TypeInv
<1>8. TypeInv'
  BY <1>1, <1>2, <1>5, <1>6, <1>7 DEF TypeInv
<1>9. \A k \in 0..(n - 1) : /\ k \in Slots /\ k # n /\ heap[k] \in Timer
                            /\ index[heap[k]] = k /\ k # NULL
  BY <1>2, HeapShape DEF Placed
<1>10. Placed'
  <2>1. ASSUME NEW k \in 0..(n' - 1) PROVE heap'[k] \in Timer /\ index'[heap'[k]] = k
    <3>1. CASE k = n
      BY <1>5, <1>6, <3>1
    <3>2. CASE k # n
      <4>1. k \in 0..(n - 1)
        BY <1>1, <1>2, <3>2
      <4>2. heap'[k] = heap[k] /\ heap[k] # t
        BY <1>3, <1>5, <1>9, <4>1
      <4> QED BY <1>6, <1>9, <4>1, <4>2
    <3> QED BY <3>1, <3>2
  <2>2. ASSUME NEW u \in Timer, index'[u] # NULL
        PROVE  index'[u] \in 0..(n' - 1) /\ heap'[index'[u]] = u /\ phase'[u] = "added"
    <3>1. CASE u = t
      BY <1>2, <1>5, <1>6, <1>7, <3>1
    <3>2. CASE u # t
      <4>1. index'[u] = index[u] /\ phase'[u] = phase[u]
        BY <1>6, <1>7, <3>2
      <4>2. index[u] \in 0..(n - 1) /\ heap[index[u]] = u /\ phase[u] = "added"
        BY <2>2, <4>1 DEF Placed
      <4>3. index[u] \in 0..(n' - 1)
        BY <1>1, <1>2, <4>2
      <4> QED BY <1>5, <1>9, <4>1, <4>2, <4>3
    <3> QED BY <3>1, <3>2
  <2> QED BY <2>1, <2>2 DEF Placed
<1>11. Control'
  BY <1>1, <1>2 DEF Control
<1>12. Left' = Left
  BY <1>1 DEF Left
<1>13. Deadlines'
  <2>1. Close(Left[t]) /\ -MaxLag <= Left[t]
    BY <1>1 DEF Deadlines
  <2>2. ASSUME NEW u \in Timer, index'[u] # NULL
        PROVE  Close(Left[u]) /\ (~ticking => -MaxLag <= Left[u])
    BY <1>6, <2>1, <2>2 DEF Deadlines
  <2>3. ASSUME NEW u \in Timer, phase'[u] = "set"
        PROVE  Close(Left[u]) /\ -MaxLag <= Left[u]
    BY <1>7, <2>3 DEF Deadlines
  <2> QED BY <1>1, <1>12, <2>2, <2>3 DEF Deadlines
<1>14. PullOrdered(heap', n + 1, Left, n)
  <2>1. Ordered(heap, n, Left)
    BY <1>1 DEF InOrder
  <2>2. \A k \in 0..(n - 1) : heap'[k] = heap[k]
    BY <1>5, <1>9
  <2> QED BY <1>2, <2>1, <2>2, AddOrder
<1>15. InOrder'
  BY <1>1, <1>12, <1>14 DEF InOrder
<1> QED BY <1>8, <1>10, <1>11, <1>13, <1>15

\* timer_delete() keeps the invariant.
LEMMA TimerDeleteKeeps ==
    ASSUME HeapInv, NEW t \in Timer, timer_delete(t)
    PROVE  HeapInv'
<1> USE DEF HeapInv
<1>1. /\ at = "free" /\ phase[t] = "added"
      /\ phase' = [phase EXCEPT ![t] = "none"]
      /\ expires' = [expires EXCEPT ![t] = 0]
      /\ ticks' = ticks /\ ticking' = ticking /\ ticking \in BOOLEAN
  BY DEF timer_delete, TypeInv
<1>2. /\ phase' \in [Timer -> {"none", "set", "added"}]
      /\ phase'[t] = "none"
      /\ \A u \in Timer : u # t => phase'[u] = phase[u]
  BY <1>1 DEF TypeInv
<1>3. /\ expires' \in [Timer -> 0..(2 * Half - 1)]
      /\ \A u \in Timer : u # t => expires'[u] = expires[u]
  <2>1. 0 \in 0..(2 * Half - 1)
    BY HalfPositive
  <2> QED BY <1>1, <2>1 DEF TypeInv
<1>4. \A u \in Timer : u # t => Left'[u] = Left[u]
  BY <1>1, <1>3 DEF Left
<1>5. /\ n' \in 0..MaxNum
      /\ heap' \in [Slots -> Timer \cup {NULL}]
      /\ index' \in [Timer -> Slots \cup {NULL}]
      /\ at' \in {"free", "pull_up", "push_down", "expire"}
      /\ i' \in Nat
      /\ \A k \in 0..(n' - 1) : heap'[k] \in Timer /\ index'[heap'[k]] = k /\ heap'[k] # t
      /\ \A u \in Timer : index'[u] # NULL => index'[u] \in 0..(n' - 1) /\ heap'[index'[u]] = u
      /\ \A u \in Timer : index'[u] # NULL <=> u # t /\ index[u] # NULL
      /\ at' = "free" => ~ticking
      /\ at' = "expire" => ticking
      /\ at' \in {"pull_up", "push_down"} => i' < n'
      /\ at' \in {"free", "expire"} => Ordered(heap', n', Left)
      /\ at' = "pull_up" => PullOrdered(heap', n', Left, i')
      /\ at' = "push_down" => PushOrdered(heap', n', Left, i')
  <2>1. CASE index[t] # NULL
    <3>1. __timer_delete(t)
      BY <2>1 DEF timer_delete
    <3> QED BY <1>1, <2>1, <3>1, DeleteEffect
  <2>2. CASE index[t] = NULL
    <3>1. UNCHANGED <<heap, n, index, at, i>>
      BY <2>2 DEF timer_delete
    <3>2. \A k \in 0..(n - 1) : heap[k] # t
      BY <2>2, HeapShape DEF Placed
    <3>3. Ordered(heap, n, Left) /\ ~ticking
      BY <1>1 DEF InOrder, Control
    <3> QED BY <1>1, <2>2, <3>1, <3>2, <3>3 DEF TypeInv, Placed
  <2> QED BY <2>1, <2>2
<1>6. TypeInv'
  BY <1>1, <1>2, <1>3, <1>5 DEF TypeInv
<1>7. Placed'
  <2>1. \A u \in Timer : index'[u] # NULL => phase'[u] = "added"
    BY <1>2, <1>5 DEF Placed
  <2> QED BY <1>5, <2>1 DEF Placed
<1>8. Control'
  BY <1>1, <1>5 DEF Control
<1>9. Deadlines'
  <2>1. ASSUME NEW u \in Timer, index'[u] # NULL
        PROVE  Close(Left'[u]) /\ (~ticking' => -MaxLag <= Left'[u])
    BY <1>1, <1>4, <1>5, <2>1 DEF Deadlines
  <2>2. ASSUME NEW u \in Timer, phase'[u] = "set"
        PROVE  Close(Left'[u]) /\ -MaxLag <= Left'[u]
    BY <1>2, <1>4, <2>2 DEF Deadlines
  <2> QED BY <2>1, <2>2 DEF Deadlines
<1>10. InOrder'
  <2>1. ASSUME NEW k \in 0..(n' - 1)
        PROVE  Left'[heap'[k]] = Left[heap'[k]] - 0
    <3>1. heap'[k] \in Timer /\ heap'[k] # t
      BY <1>5
    <3>2. Left'[heap'[k]] = Left[heap'[k]]
      BY <1>4, <3>1
    <3>3. Left[heap'[k]] \in Int
      BY <3>1, LeftType
    <3> QED BY <3>2, <3>3
  <2>2. n' \in Nat
    BY <1>5, HeapAssumption
  <2>3. IsHeap(Timer, heap', n', Left)
    BY <1>5, <2>2, LeftType DEF IsHeap
  <2>4. Ordered(heap', n', Left) => Ordered(heap', n', Left')
    <3>1. 0 \in 0..n' /\ 0 \in Int
      BY <2>2
    <3> QED BY <2>1, <2>3, <3>1, OrderShift
  <2>5. i' < n' => /\ PullOrdered(heap', n', Left, i') => PullOrdered(heap', n', Left', i')
                   /\ PushOrdered(heap', n', Left, i') => PushOrdered(heap', n', Left', i')
    <3> HAVE i' < n'
    <3>1. i' \in 0..n' /\ 0 \in Int
      BY <1>5, <2>2
    <3> QED BY <2>1, <2>3, <3>1, OrderShift
  <2> QED BY <1>5, <2>4, <2>5 DEF InOrder
<1> QED BY <1>6, <1>7, <1>8, <1>9, <1>10

\* A tick brings every deadline one tick closer, also when the counter wraps.
LEMMA TickShifts ==
    ASSUME HeapInv, tick, NEW t \in Timer, index[t] # NULL \/ phase[t] = "set"
    PROVE  Left'[t] = Left[t] - 1 /\ Left[t] \in Int
<1>1. Close(Left[t]) /\ Left[t] = Long(expires[t] - ticks) /\ Left[t] \in Int
  BY LeftType DEF HeapInv, Deadlines
<1>2. -Half < Left[t]
  BY <1>1, HeapAssumption DEF Close
<1>3. expires[t] \in Int /\ ticks \in Int
  BY HalfPositive DEF HeapInv, TypeInv
<1>4. Long(expires[t] - Wrap(ticks + 1)) = Long(expires[t] - ticks) - 1
  BY <1>1, <1>2, <1>3, TickLeft
<1>5. Left'[t] = Long(expires'[t] - ticks') /\ expires'[t] = expires[t] /\ ticks' = Wrap(ticks + 1)
  BY DEF Left, tick
<1> QED BY <1>1, <1>4, <1>5

\* A tick keeps the invariant.
LEMMA TickKeeps ==
    ASSUME HeapInv, tick
    PROVE  HeapInv'
<1> USE DEF HeapInv
<1>1. /\ at = "free" /\ ~ticking
      /\ \A t \in Timer : phase[t] = "set" => Left[t] > -MaxLag
      /\ ticks' = Wrap(ticks + 1) /\ ticking' = TRUE /\ at' = "expire"
      /\ UNCHANGED <<heap, n, index, expires, phase, i>>
  BY LeftType DEF tick, Control
<1>2. TypeInv'
  <2>1. ticks + 1 \in Int
    BY HalfPositive DEF TypeInv
  <2>2. ticks' \in 0..(2 * Half - 1)
    BY <1>1, <2>1, WrapValue
  <2> QED BY <1>1, <2>2 DEF TypeInv
<1>3. Placed' /\ Control'
  BY <1>1 DEF Placed, Control
<1>4. Deadlines'
  <2>1. ASSUME NEW t \in Timer, index[t] # NULL PROVE Close(Left'[t])
    <3>1. Left'[t] = Left[t] - 1 /\ Left[t] \in Int
      BY <2>1, TickShifts
    <3>2. Close(Left[t]) /\ -MaxLag <= Left[t]
      BY <1>1, <2>1 DEF Deadlines
    <3> QED BY <3>1, <3>2, HeapAssumption DEF Close
  <2>2. ASSUME NEW t \in Timer, phase[t] = "set" PROVE Close(Left'[t]) /\ -MaxLag <= Left'[t]
    <3>1. Left'[t] = Left[t] - 1 /\ Left[t] \in Int
      BY <2>2, TickShifts
    <3>2. Close(Left[t]) /\ Left[t] > -MaxLag
      BY <1>1, <2>2 DEF Deadlines
    <3> QED BY <3>1, <3>2, HeapAssumption DEF Close
  <2> QED BY <1>1, <2>1, <2>2 DEF Deadlines
<1>5. Ordered(heap, n, Left')
  <2>1. ASSUME NEW k \in 0..(n - 1) PROVE Left'[heap[k]] = Left[heap[k]] - 1
    <3>1. heap[k] \in Timer /\ index[heap[k]] # NULL
      BY HeapShape DEF Placed
    <3> QED BY <3>1, TickShifts
  <2>2. 0 \in 0..n /\ 1 \in Int
    BY DEF TypeInv
  <2>3. Ordered(heap, n, Left) /\ IsHeap(Timer, heap, n, Left)
    BY <1>1, HeapShape DEF InOrder
  <2> QED BY <2>1, <2>2, <2>3, OrderShift
<1>6. InOrder'
  BY <1>1, <1>5 DEF InOrder
<1> QED BY <1>2, <1>3, <1>4, <1>6

\* timer_update() looks at the timer that is due first, and stops when it is
\* not due yet.
LEMMA DueFacts ==
    ASSUME HeapInv, at = "expire"
    PROVE  /\ Due => /\ n > 0 /\ heap[0] \in Timer /\ index[heap[0]] # NULL
                     /\ Left[heap[0]] <= 0
                     /\ \A t \in Timer : index[t] # NULL => Left[heap[0]] <= Left[t]
           /\ ~Due => \A t \in Timer : index[t] # NULL => Left[t] > 0
<1> USE DEF HeapInv
<1>1. n \in Nat
  BY HeapAssumption DEF TypeInv
<1>2. CASE n = 0
  <2>1. ~Due
    BY <1>2 DEF Due
  <2>2. \A t \in Timer : index[t] = NULL
    BY <1>2 DEF Placed
  <2> QED BY <2>1, <2>2
<1>3. CASE n > 0
  <2>1. 0 \in 0..(n - 1)
    BY <1>1, <1>3
  <2>2. heap[0] \in Timer /\ index[heap[0]] # NULL
    BY <2>1, HeapShape DEF Placed
  <2>3. Close(Left[heap[0]]) /\ Left[heap[0]] = Long(expires[heap[0]] - ticks) /\ Left[heap[0]] \in Int
    BY <2>2, LeftType DEF Deadlines
  <2>4. expires[heap[0]] \in Int /\ ticks \in Int
    BY <2>2, HalfPositive DEF TypeInv
  <2>5. time_after(expires[heap[0]], ticks) <=> Left[heap[0]] > 0
    BY <2>3, <2>4, CompareNow
  <2>6. ASSUME NEW t \in Timer, index[t] # NULL PROVE Left[heap[0]] <= Left[t] /\ Left[t] \in Int
    <3>1. index[t] \in 0..(n - 1) /\ heap[index[t]] = t
      BY <2>6 DEF Placed
    <3>2. Ordered(heap, n, Left) /\ IsHeap(Timer, heap, n, Left)
      BY HeapShape DEF InOrder
    <3>3. Left[heap[0]] <= Left[heap[index[t]]]
      BY <3>1, <3>2, RootFirst
    <3> QED BY <3>1, <3>3, LeftType
  <2>7. Due <=> Left[heap[0]] <= 0
    BY <1>3, <2>3, <2>5 DEF Due
  <2> QED BY <1>3, <2>2, <2>3, <2>6, <2>7
<1> QED BY <1>1, <1>2, <1>3

\* The expiry of the first timer keeps the invariant.
LEMMA ExpireKeeps ==
    ASSUME HeapInv, expire
    PROVE  HeapInv'
<1> USE DEF HeapInv
<1> DEFINE t == heap[0]
<1>1. /\ at = "expire" /\ t \in Timer /\ index[t] # NULL /\ __timer_delete(t)
      /\ UNCHANGED <<ticks, expires, phase, ticking>> /\ ticking \in BOOLEAN
  BY DueFacts DEF expire, TypeInv
<1> HIDE DEF t
<1>2. /\ n' \in 0..MaxNum
      /\ heap' \in [Slots -> Timer \cup {NULL}]
      /\ index' \in [Timer -> Slots \cup {NULL}]
      /\ at' \in {"free", "pull_up", "push_down", "expire"}
      /\ i' \in Nat
      /\ \A k \in 0..(n' - 1) : heap'[k] \in Timer /\ index'[heap'[k]] = k /\ heap'[k] # t
      /\ \A u \in Timer : index'[u] # NULL => index'[u] \in 0..(n' - 1) /\ heap'[index'[u]] = u
      /\ \A u \in Timer : index'[u] # NULL <=> u # t /\ index[u] # NULL
      /\ at' = "free" => ~ticking
      /\ at' = "expire" => ticking
      /\ at' \in {"pull_up", "push_down"} => i' < n'
      /\ at' \in {"free", "expire"} => Ordered(heap', n', Left)
      /\ at' = "pull_up" => PullOrdered(heap', n', Left, i')
      /\ at' = "push_down" => PushOrdered(heap', n', Left, i')
  BY <1>1, DeleteEffect
<1>3. Left' = Left
  BY <1>1 DEF Left
<1>4. TypeInv' /\ Control'
  BY <1>1, <1>2 DEF TypeInv, Control
<1>5. Placed'
  BY <1>1, <1>2 DEF Placed
<1>6. Deadlines'
  BY <1>1, <1>2, <1>3 DEF Deadlines
<1>7. InOrder'
  BY <1>2, <1>3 DEF InOrder
<1> QED BY <1>4, <1>5, <1>6, <1>7

\* The end of the expiry loop keeps the invariant.
LEMMA ExpiredKeeps ==
    ASSUME HeapInv, expired
    PROVE  HeapInv'
<1> USE DEF HeapInv
<1>1. /\ at = "expire" /\ ~Due /\ ticking' = FALSE /\ at' = "free"
      /\ UNCHANGED <<ticks, heap, n, index, expires, phase, i>>
  BY DEF expired
<1>2. Left' = Left
  BY <1>1 DEF Left
<1>3. TypeInv' /\ Placed' /\ Control'
  BY <1>1 DEF TypeInv, Placed, Control
<1>4. Deadlines'
  <2>1. ASSUME NEW t \in Timer, index[t] # NULL PROVE -MaxLag <= Left[t]
    BY <1>1, <2>1, DueFacts, LeftType, HeapAssumption
  <2> QED BY <1>1, <1>2, <2>1 DEF Deadlines
<1>5. InOrder'
  BY <1>1, <1>2 DEF InOrder
<1> QED BY <1>3, <1>4, <1>5

\* The invariant is inductive.
THEOREM HeapInvariant == HeapSpec => []HeapInv
<1>1. HeapInv /\ [HeapNext]_vars => HeapInv'
  <2> SUFFICES ASSUME HeapInv, [HeapNext]_vars PROVE HeapInv'
    OBVIOUS
  <2>1. ASSUME NEW t \in Timer, NEW d \in Delay, set_expires(t, d) PROVE HeapInv'
    BY <2>1, SetExpiresKeeps
  <2>2. ASSUME NEW t \in Timer, timer_add(t) PROVE HeapInv'
    BY <2>2, TimerAddKeeps
  <2>3. ASSUME NEW t \in Timer, timer_delete(t) PROVE HeapInv'
    BY <2>3, TimerDeleteKeeps
  <2>4. CASE tick
    BY <2>4, TickKeeps
  <2>5. CASE heap_pull_up
    BY <2>5, PullUpKeeps
  <2>6. CASE heap_push_down
    BY <2>6, PushDownKeeps
  <2>7. CASE expire
    BY <2>7, ExpireKeeps
  <2>8. CASE expired
    BY <2>8, ExpiredKeeps
  <2>9. CASE UNCHANGED vars
    BY <2>9 DEF vars, HeapInv, TypeInv, Placed, Control, Deadlines, InOrder, Left, Ordered,
                PullOrdered, PushOrdered, Bridged
  <2> QED BY <2>1, <2>2, <2>3, <2>4, <2>5, <2>6, <2>7, <2>8, <2>9 DEF HeapNext, Kernel
<1> QED BY <1>1, InitInv, PTL DEF HeapSpec

-----------------------------------------------------------------------------
(***************************************************************************)
(* What it means for the timers.                                           *)
(***************************************************************************)
\* Every timer knows its slot, also between two iterations of a sift: what
\* timer_delete() removes is the timer it was called for.
THEOREM IndexCorrect == HeapSpec => []IndexOK
<1>1. HeapInv => IndexOK
  <2> HAVE HeapInv
  <2>1. n \in Nat
    BY HeapAssumption DEF HeapInv, TypeInv
  <2> QED BY <2>1 DEF HeapInv, Placed, IndexOK
<1> QED BY <1>1, HeapInvariant, PTL

\* Outside the sifts no timer expires before its parent, wherever the tick
\* counter wraps.
THEOREM OrderCorrect == HeapSpec => []HeapOrdered
<1>1. HeapInv => HeapOrdered
  <2> SUFFICES ASSUME HeapInv, at \in {"free", "expire"}, NEW k \in 1..(n - 1)
               PROVE  ~time_after(expires[heap[Parent(k)]], expires[heap[k]])
    BY DEF HeapOrdered
  <2>1. n \in Nat
    BY HeapAssumption DEF HeapInv, TypeInv
  <2>2. k \in 0..(n - 1) /\ Parent(k) \in 0..(n - 1)
    BY <2>1, ParentFacts
  <2>3. Left[heap[Parent(k)]] <= Left[heap[k]]
    BY DEF HeapInv, InOrder, Ordered
  <2>4. ~After(Parent(k), k)
    BY <2>2, <2>3, HeapCompare
  <2> QED BY <2>4 DEF After
<1> QED BY <1>1, HeapInvariant, PTL

\* The mapping of the refinement, and that it is Left on the pending timers.
Away == [t \in Ready |-> Long(expires[t] - ticks)]

\* What the mapping is on a state of the heap.
LEMMA AwayFacts ==
    ASSUME HeapInv
    PROVE  /\ DOMAIN Away = Ready
           /\ Ready \subseteq Timer
           /\ \A t \in Ready : index[t] # NULL /\ Away[t] = Left[t] /\ Away[t] \in Int
BY LeftType DEF Away, Ready, HeapInv

\* A sift does not show.
LEMMA SwapHidden ==
    ASSUME HeapInv, NEW j \in 0..(n - 1), NEW k \in 0..(n - 1), j # k,
           heap_swap(j, k), UNCHANGED <<n, ticks, expires, phase>>
    PROVE  Away' = Away
<1>1. \A t \in Timer : index'[t] = NULL <=> index[t] = NULL
  BY SwapEffect DEF HeapInv
<1> QED BY <1>1 DEF Away, Ready

\* Taking t out of the heap takes it out of the pending timers.
LEMMA DeleteShows ==
    ASSUME HeapInv, at \in {"free", "expire"}, NEW t \in Timer, index[t] # NULL,
           __timer_delete(t), ticks' = ticks,
           \A u \in Timer : u # t => expires'[u] = expires[u]
    PROVE  Away' = [u \in Ready \ {t} |-> Away[u]]
<1>1. \A u \in Timer : index'[u] # NULL <=> u # t /\ index[u] # NULL
  BY DeleteEffect
<1>2. Ready' = Ready \ {t}
  BY <1>1 DEF Ready
<1>3. \A u \in Ready \ {t} : u \in Timer /\ u # t
  BY DEF Ready
<1>4. Away' = [u \in Ready \ {t} |-> Long(expires'[u] - ticks')]
  BY <1>2 DEF Away
<1>5. \A u \in Ready \ {t} : Long(expires'[u] - ticks') = Away[u]
  BY <1>3 DEF Away
<1> QED BY <1>4, <1>5

\* The heap implements the abstract timers of TimerSpec: timer_add() makes a
\* timer pending, timer_delete() ends that, and timer_update() runs, in the
\* order of their deadlines, exactly the pending timers that are due.
THEOREM TimerRefinement == HeapSpec => ImplementsTimers
<1>1. HeapInit => Timers!Init
  <2> HAVE HeapInit
  <2>1. Ready = {}
    BY DEF HeapInit, Ready
  <2> QED BY <2>1 DEF HeapInit, Timers!Init
<1>2. ASSUME HeapInv, [HeapNext]_vars PROVE [Timers!Next]_<<Away, ticking>>
  <2>1. DOMAIN Away = Ready /\ Ready \subseteq Timer
        /\ \A t \in Ready : index[t] # NULL /\ Away[t] = Left[t] /\ Away[t] \in Int
    BY <1>2, AwayFacts
  <2>2. ASSUME NEW t \in Timer, NEW d \in Delay, set_expires(t, d) PROVE UNCHANGED <<Away, ticking>>
    <3>1. index[t] = NULL
      BY <1>2, <2>2 DEF set_expires, HeapInv, Placed
    <3>2. \A u \in Ready : u \in Timer /\ u # t
      BY <3>1 DEF Ready
    <3>3. \A u \in Timer : u # t => expires'[u] = expires[u]
      BY <1>2, <2>2 DEF set_expires, HeapInv, TypeInv
    <3>4. ticks' = ticks /\ index' = index /\ ticking' = ticking
      BY <2>2 DEF set_expires
    <3> QED BY <3>2, <3>3, <3>4 DEF Away, Ready
  <2>3. ASSUME NEW t \in Timer, timer_add(t) PROVE Timers!Add(t)
    <3>1. index[t] = NULL /\ ~ticking /\ UNCHANGED <<ticks, expires, ticking>>
      BY <1>2, <2>3 DEF timer_add, HeapInv, Placed, Control
    <3>2. n \in Slots /\ n # NULL
      BY <1>2, <2>3, HeapAssumption DEF timer_add, HeapInv, TypeInv, Slots
    <3>3. index'[t] = n /\ \A u \in Timer : u # t => index'[u] = index[u]
      BY <1>2, <2>3, <3>2 DEF timer_add, HeapInv, TypeInv
    <3>4. Ready' = Ready \cup {t} /\ t \notin Ready
      BY <3>1, <3>2, <3>3 DEF Ready
    <3>5. Away' = [u \in Ready \cup {t} |-> Long(expires[u] - ticks)]
      BY <3>1, <3>4 DEF Away
    <3>6. Long(expires[t] - ticks) \in Int
      BY <1>2, LeftType DEF HeapInv
    <3>7. /\ DOMAIN Away' = Ready \cup {t}
          /\ Away'[t] \in Int
          /\ \A u \in Ready : Away'[u] = Away[u]
      BY <3>5, <3>6 DEF Away
    <3> QED BY <2>1, <3>1, <3>4, <3>7 DEF Timers!Add, Timers!Pending, Away
  <2>4. ASSUME NEW t \in Timer, timer_delete(t) PROVE Timers!Delete(t) \/ UNCHANGED <<Away, ticking>>
    <3>1. /\ at = "free" /\ ~ticking /\ ticks' = ticks /\ ticking' = ticking
          /\ \A u \in Timer : u # t => expires'[u] = expires[u]
      BY <1>2, <2>4 DEF timer_delete, HeapInv, TypeInv, Control
    <3>2. CASE index[t] # NULL
      <4>1. Away' = [u \in Ready \ {t} |-> Away[u]]
        BY <1>2, <2>4, <3>1, <3>2, DeleteShows DEF timer_delete
      <4> QED BY <2>1, <3>1, <4>1 DEF Timers!Delete, Timers!Removed, Timers!Pending, Away
    <3>3. CASE index[t] = NULL
      <4>1. index' = index
        BY <2>4, <3>3 DEF timer_delete
      <4>2. \A u \in Ready : u \in Timer /\ u # t
        BY <3>3 DEF Ready
      <4> QED BY <3>1, <4>1, <4>2 DEF Away, Ready
    <3> QED BY <3>2, <3>3
  <2>5. CASE tick
    <3>1. ~ticking /\ ticking' = TRUE /\ index' = index
      BY <1>2, <2>5 DEF tick, HeapInv, Control
    <3>2. \A u \in Ready : Left'[u] = Left[u] - 1
      BY <1>2, <2>1, <2>5, TickShifts
    <3>3. Ready' = Ready
      BY <3>1 DEF Ready
    <3>4. \A u \in Ready : Left'[u] = Long(expires'[u] - ticks')
      BY <2>1 DEF Left
    <3>5. Away' = [u \in Ready |-> Away[u] - 1]
      BY <2>1, <3>2, <3>3, <3>4 DEF Away
    <3>6. Timers!Tick
      BY <2>1, <3>1, <3>5 DEF Timers!Tick, Timers!Pending, Away
    <3> QED BY <3>6 DEF Timers!Next
  <2>6. CASE heap_pull_up
    <3>1. ticking' = ticking
      BY <2>6 DEF heap_pull_up
    <3>2. CASE i > 0 /\ After(Parent(i), i)
      <4>1. heap_swap(i, Parent(i)) /\ UNCHANGED <<n, ticks, expires, phase>> /\ i < n /\ i \in Nat /\ n \in Nat
        BY <1>2, <2>6, <3>2 DEF heap_pull_up, HeapInv, Control, TypeInv
      <4>2. i \in 0..(n - 1) /\ Parent(i) \in 0..(n - 1) /\ Parent(i) # i
        BY <3>2, <4>1, ParentFacts
      <4> QED BY <1>2, <3>1, <4>1, <4>2, SwapHidden
    <3>3. CASE ~(i > 0 /\ After(Parent(i), i))
      BY <2>6, <3>3 DEF heap_pull_up, Away, Ready
    <3> QED BY <3>2, <3>3
  <2>7. CASE heap_push_down
    <3>1. ticking' = ticking
      BY <2>7 DEF heap_push_down
    <3>2. CASE Smallest(i) # i
      <4>1. heap_swap(i, Smallest(i)) /\ UNCHANGED <<n, ticks, expires, phase>> /\ i < n /\ i \in Nat /\ n \in Nat
        BY <1>2, <2>7, <3>2 DEF heap_push_down, HeapInv, Control, TypeInv
      <4>2. i \in 0..(n - 1) /\ Smallest(i) \in 1..(n - 1)
        BY <1>2, <3>2, <4>1, SmallestFacts
      <4>3. Smallest(i) \in 0..(n - 1)
        BY <4>1, <4>2
      <4> QED BY <1>2, <3>1, <3>2, <4>1, <4>2, <4>3, SwapHidden
    <3>3. CASE ~(Smallest(i) # i)
      BY <2>7, <3>3 DEF heap_push_down, Away, Ready
    <3> QED BY <3>2, <3>3
  <2>8. CASE expire
    <3>1. /\ at = "expire" /\ Due /\ __timer_delete(heap[0]) /\ ticking /\ ticking' = ticking
          /\ ticks' = ticks /\ expires' = expires
      BY <1>2, <2>8 DEF expire, HeapInv, Control
    <3>2. /\ heap[0] \in Timer /\ index[heap[0]] # NULL /\ Left[heap[0]] <= 0
          /\ \A t \in Timer : index[t] # NULL => Left[heap[0]] <= Left[t]
      BY <1>2, <3>1, DueFacts
    <3>3. Away' = [u \in Ready \ {heap[0]} |-> Away[u]]
      BY <1>2, <3>1, <3>2, DeleteShows
    <3>4. heap[0] \in Ready
      BY <3>2 DEF Ready
    <3>5. Away[heap[0]] <= 0 /\ \A u \in Ready : Away[heap[0]] <= Away[u]
      BY <2>1, <3>2, <3>4
    <3>6. Timers!Fire(heap[0])
      BY <2>1, <3>1, <3>3, <3>4, <3>5 DEF Timers!Fire, Timers!Removed, Timers!Pending, Away
    <3> QED BY <3>2, <3>6 DEF Timers!Next
  <2>9. CASE expired
    <3>1. /\ at = "expire" /\ ~Due /\ ticking /\ ticking' = FALSE
          /\ UNCHANGED <<ticks, expires, index>>
      BY <1>2, <2>9 DEF expired, HeapInv, Control
    <3>2. \A u \in Ready : Away[u] > 0
      BY <1>2, <2>1, <3>1, DueFacts
    <3>3. Away' = Away
      BY <3>1 DEF Away, Ready
    <3>4. Timers!EndTick
      BY <2>1, <3>1, <3>2, <3>3 DEF Timers!EndTick, Timers!Pending, Away
    <3> QED BY <3>4 DEF Timers!Next
  <2>10. CASE UNCHANGED vars
    BY <2>10 DEF vars, Away, Ready
  <2>11. ASSUME NEW t \in Timer, Timers!Add(t) \/ Timers!Delete(t) PROVE Timers!Next
    BY <2>11 DEF Timers!Next
  <2> QED BY <1>2, <2>2, <2>3, <2>4, <2>5, <2>6, <2>7, <2>8, <2>9, <2>10, <2>11 DEF HeapNext, Kernel
<1> QED BY <1>1, <1>2, HeapInvariant, PTL DEF HeapSpec, ImplementsTimers, Timers!Spec, Away

\* The assertion in timer_add(): with a slot for every thread, a thread that is
\* about to add its timer finds a free one.
AddSafe ==
    \A t \in Timer : phase[t] = "set" => n < MaxNum

\* It holds because no timer is in two slots, and that timer in none: those in
\* the heap are fewer than all of them.
THEOREM AddCorrect == HeapSpec => []AddSafe
<1>1. HeapInv => AddSafe
  <2> SUFFICES ASSUME HeapInv, NEW t \in Timer, phase[t] = "set" PROVE n < MaxNum
    BY DEF AddSafe
  <2> DEFINE f == [k \in 0..(n - 1) |-> heap[k]]
  <2>1. index[t] = NULL
    BY DEF HeapInv, Placed
  <2>2. \A k \in 0..(n - 1) : heap[k] \in Timer \ {t} /\ index[heap[k]] = k
    BY <2>1, HeapShape DEF HeapInv, Placed
  <2>3. f \in Injection(0..(n - 1), Timer \ {t})
    BY <2>2 DEF Injection, IsInjective
  <2>4. IsFiniteSet(Timer \ {t}) /\ Cardinality(Timer \ {t}) = Cardinality(Timer) - 1
    BY HeapAssumption, FS_RemoveElement
  <2>5. Cardinality(0..(n - 1)) <= Cardinality(Timer \ {t})
    BY <2>3, <2>4, FS_Injection
  <2>6. n \in Nat /\ 0..(n - 1) = IF n = 0 THEN {} ELSE 0..(n - 1)
    BY HeapAssumption DEF HeapInv, TypeInv
  <2>7. Cardinality(0..(n - 1)) = n
    BY <2>6, FS_Interval
  <2>8. Cardinality(Timer) \in Nat /\ Cardinality(Timer) <= MaxNum /\ MaxNum \in Nat
    BY HeapAssumption, FS_CardinalityType
  <2> QED BY <2>4, <2>5, <2>6, <2>7, <2>8
<1> QED BY <1>1, HeapInvariant, PTL
=============================================================================
