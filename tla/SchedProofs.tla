----------------------------- MODULE SchedProofs -----------------------------
(***************************************************************************)
(* The scheduler keeps its run queue sound, runs a task of the highest     *)
(* priority and never overruns a time slice, for every number of threads,  *)
(* every assignment of priorities and every length of the slice.  First    *)
(* the lemmas about the operators of RunQueue: what the functions that     *)
(* change the run queue do to a scheduler state, and that they keep the    *)
(* queue sound.                                                            *)
(***************************************************************************)
EXTENDS Sched, WellFoundedInduction, TLAPS

-----------------------------------------------------------------------------
(***************************************************************************)
(* Sequences.  r is q with e added at one place, or with one e removed;    *)
(* the other entries keep their order.                                     *)
(***************************************************************************)
Inserted(S, q, e, r) ==
    /\ r \in Seq(S)
    /\ Len(r) = Len(q) + 1
    /\ \E k \in 1..Len(r) :
          /\ r[k] = e
          /\ \A i \in 1..Len(r) :
                i # k => r[i] = q[IF i < k THEN i ELSE i - 1]
    /\ \A i \in 1..Len(q) : InQueue(r, q[i])

Removed(S, q, e, r) ==
    /\ r \in Seq(S)
    /\ Len(r) = Len(q) - 1
    /\ \E k \in 1..Len(q) :
          /\ q[k] = e
          /\ \A i \in 1..Len(r) : r[i] = q[IF i < k THEN i ELSE i + 1]

\* TAILQ_INSERT_TAIL() adds the task and no other.
LEMMA InsertTail ==
    ASSUME NEW S, NEW q \in Seq(S), NEW e \in S
    PROVE  Inserted(S, q, e, TAILQ_INSERT_TAIL(q, e))
<1> DEFINE r == Append(q, e)
<1>1. /\ r \in Seq(S)
      /\ Len(r) = Len(q) + 1
      /\ r[Len(q) + 1] = e
      /\ \A i \in 1..Len(q) : r[i] = q[i]
      /\ Len(q) \in Nat
  OBVIOUS
<1> HIDE DEF r
<1>2. \A i \in 1..Len(r) : i # Len(q) + 1 => i < Len(q) + 1 /\ r[i] = q[i]
  BY <1>1
<1>3. Len(q) + 1 \in 1..Len(r) /\ \A i \in 1..Len(q) : i \in 1..Len(r)
  BY <1>1
<1>4. \A i \in 1..Len(q) : InQueue(r, q[i])
  BY <1>1, <1>3 DEF InQueue
<1> QED BY <1>1, <1>2, <1>3, <1>4 DEF Inserted, TAILQ_INSERT_TAIL, r

\* TAILQ_INSERT_HEAD() adds the task and no other.
LEMMA InsertHead ==
    ASSUME NEW S, NEW q \in Seq(S), NEW e \in S
    PROVE  Inserted(S, q, e, TAILQ_INSERT_HEAD(q, e))
<1> DEFINE r == <<e>> \o q
<1>1. /\ r \in Seq(S)
      /\ Len(r) = Len(q) + 1
      /\ r[1] = e
      /\ \A i \in 1..Len(q) : r[i + 1] = q[i]
      /\ Len(q) \in Nat
  OBVIOUS
<1> HIDE DEF r
<1>2. \A i \in 1..Len(r) : i # 1 => ~(i < 1) /\ r[i] = q[i - 1]
  BY <1>1
<1>3. 1 \in 1..Len(r) /\ \A i \in 1..Len(q) : i + 1 \in 1..Len(r)
  BY <1>1
<1>4. \A i \in 1..Len(q) : InQueue(r, q[i])
  BY <1>1, <1>3 DEF InQueue
<1> QED BY <1>1, <1>2, <1>3, <1>4 DEF Inserted, TAILQ_INSERT_HEAD, r

\* TAILQ_REMOVE() removes a queued task and no other.
LEMMA Remove ==
    ASSUME NEW S, NEW q \in Seq(S), NEW e \in S, InQueue(q, e)
    PROVE  Removed(S, q, e, TAILQ_REMOVE(q, e))
<1> DEFINE k == CHOOSE i \in 1..Len(q) : q[i] = e
           r == [j \in 1..(Len(q) - 1) |-> IF j < k THEN q[j] ELSE q[j + 1]]
<1>1. k \in 1..Len(q) /\ q[k] = e
  BY DEF InQueue
<1>2. TAILQ_REMOVE(q, e) = r
  BY DEF TAILQ_REMOVE
<1>3. Len(q) - 1 \in Nat
  BY <1>1
<1> HIDE DEF k
<1>4. r \in Seq(S) /\ Len(r) = Len(q) - 1
  BY <1>1, <1>3
<1>5. \A i \in 1..Len(r) : r[i] = q[IF i < k THEN i ELSE i + 1]
  BY <1>1, <1>3, <1>4
<1> HIDE DEF r
<1> QED BY <1>1, <1>2, <1>4, <1>5 DEF Removed

\* A queue that holds no entry twice.
Distinct(q) == \A i, j \in 1..Len(q) : q[i] = q[j] => i = j

\* The wait queues of mutexes and condition variables: a thread that joins one
\* is in it once, and the others stay.
LEMMA JoinQueue ==
    ASSUME NEW S, NEW q \in Seq(S), NEW e \in S, Distinct(q), ~InQueue(q, e)
    PROVE  LET r == TAILQ_INSERT_TAIL(q, e)
           IN  /\ r \in Seq(S)
               /\ Distinct(r)
               /\ \A x : InQueue(r, x) <=> InQueue(q, x) \/ x = e
<1> DEFINE r == TAILQ_INSERT_TAIL(q, e)
<1>1. /\ r \in Seq(S)
      /\ Len(r) = Len(q) + 1
      /\ r[Len(q) + 1] = e
      /\ \A i \in 1..Len(q) : r[i] = q[i]
      /\ Len(q) \in Nat
  BY DEF TAILQ_INSERT_TAIL
<1> HIDE DEF r
<1>2. Distinct(r)
  BY <1>1 DEF Distinct, InQueue
<1>3. ASSUME NEW x PROVE InQueue(r, x) <=> InQueue(q, x) \/ x = e
  <2>1. InQueue(r, x) => InQueue(q, x) \/ x = e
    BY <1>1 DEF InQueue
  <2>2. InQueue(q, x) => InQueue(r, x)
    BY <1>1 DEF InQueue
  <2>3. InQueue(r, e)
    BY <1>1 DEF InQueue
  <2> QED BY <2>1, <2>2, <2>3
<1> QED BY <1>1, <1>2, <1>3 DEF r

\* A thread that leaves a wait queue is not in it any more, and the others stay.
LEMMA LeaveQueue ==
    ASSUME NEW S, NEW q \in Seq(S), NEW e \in S, Distinct(q)
    PROVE  LET r == TAILQ_REMOVE(q, e)
           IN  /\ r \in Seq(S)
               /\ Distinct(r)
               /\ \A x : InQueue(r, x) <=> InQueue(q, x) /\ x # e
<1> DEFINE r == TAILQ_REMOVE(q, e)
<1>1. CASE ~InQueue(q, e)
  BY <1>1 DEF TAILQ_REMOVE
<1>2. CASE InQueue(q, e)
  <2>1. Removed(S, q, e, r)
    BY <1>2, Remove
  <2> HIDE DEF r
  <2>2. PICK k \in 1..Len(q) :
            /\ q[k] = e
            /\ \A i \in 1..Len(r) : r[i] = q[IF i < k THEN i ELSE i + 1]
    BY <2>1 DEF Removed
  <2>3. r \in Seq(S) /\ Len(r) = Len(q) - 1 /\ Len(q) \in Nat
    BY <2>1 DEF Removed
  <2>4. Distinct(r)
    BY <2>2, <2>3 DEF Distinct
  <2>5. ASSUME NEW x PROVE InQueue(r, x) <=> InQueue(q, x) /\ x # e
    <3>1. ASSUME InQueue(r, x) PROVE InQueue(q, x) /\ x # e
      <4>1. PICK i \in 1..Len(r) : r[i] = x
        BY <3>1 DEF InQueue
      <4>2. PICK j \in 1..Len(q) : q[j] = x /\ j # k
        BY <2>2, <2>3, <4>1
      <4> QED BY <2>2, <4>2 DEF InQueue, Distinct
    <3>2. ASSUME InQueue(q, x), x # e PROVE InQueue(r, x)
      <4>1. PICK j \in 1..Len(q) : q[j] = x
        BY <3>2 DEF InQueue
      <4>2. j # k
        BY <2>2, <3>2, <4>1
      <4>3. CASE j < k
        <5>1. j \in 1..Len(r) /\ r[j] = x
          BY <2>2, <2>3, <4>1, <4>3
        <5> QED BY <5>1 DEF InQueue
      <4>4. CASE j > k
        <5>1. j - 1 \in 1..Len(r) /\ r[j - 1] = x
          BY <2>2, <2>3, <4>1, <4>4
        <5> QED BY <5>1 DEF InQueue
      <4> QED BY <2>2, <4>1, <4>2, <4>3, <4>4
    <3> QED BY <3>1, <3>2
  <2> QED BY <2>3, <2>4, <2>5 DEF r
<1> QED BY <1>1, <1>2

-----------------------------------------------------------------------------
Less == {ss \in Nat \X Nat : ss[1] < ss[2]}

\* ffs() is well defined: a non-empty set of bits has a lowest one.
LEMMA MinOfSet ==
    ASSUME NEW S \in SUBSET Nat, S # {}
    PROVE  Min(S) \in S /\ \A x \in S : Min(S) <= x
<1>1. IsWellFoundedOn(Less, Nat)
  BY NatLessThanWellFounded DEF OpToRel, Less
<1>2. PICK m \in S : \A x \in S : <<x, m>> \notin Less
  BY <1>1, WFMin, Zenon
<1>3. ASSUME NEW x \in S PROVE m <= x
  <2>1. m \in Nat /\ x \in Nat
    OBVIOUS
  <2>2. x < m => <<x, m>> \in Less
    BY <2>1 DEF Less
  <2> QED BY <1>2, <2>1, <2>2
<1> QED BY <1>3 DEF Min

\* A non-empty set of priorities has a highest one.
LEMMA MaxOfSet ==
    ASSUME NEW n \in Nat, NEW X \in SUBSET (0..n), X # {}
    PROVE  Max(X) \in X /\ \A x \in X : x <= Max(X)
<1> DEFINE D == {n - x : x \in X}
<1>1. D \in SUBSET Nat /\ D # {}
  <2>1. \A x \in X : n - x \in Nat
    OBVIOUS
  <2>2. PICK x \in X : TRUE
    OBVIOUS
  <2>3. n - x \in D
    BY <2>2
  <2> QED BY <2>1, <2>3
<1>2. Min(D) \in D /\ \A d \in D : Min(D) <= d
  BY <1>1, MinOfSet
<1>3. PICK m \in X : Min(D) = n - m
  BY <1>2
<1>4. ASSUME NEW x \in X PROVE m >= x
  <2>1. n - m <= n - x
    BY <1>2, <1>3
  <2>2. m \in Int /\ x \in Int
    OBVIOUS
  <2> HIDE DEF D
  <2> QED BY <2>1, <2>2
<1> HIDE DEF D
<1>5. /\ Max(X) \in X
      /\ \A y \in X : Max(X) >= y
  BY <1>4 DEF Max
<1>6. \A y \in X : y \in Int
  OBVIOUS
<1> QED BY <1>5, <1>6

-----------------------------------------------------------------------------
(***************************************************************************)
(* The fields of the states that run_queue_enqueue() and                   *)
(* run_queue_dequeue() leave.                                              *)
(***************************************************************************)
Enqueued(s, t, head, u) ==
    /\ u \in SchedRecord
    /\ u.linked = s.linked \cup {t}
    /\ u.state = s.state
    /\ u.priority = s.priority
    /\ u.effective_priority = s.effective_priority
    /\ u.timeslice = [s.timeslice EXCEPT ![t] = TimeSlice]
    /\ u.current = s.current
    /\ u.next = s.next
    /\ u.in_irq = s.in_irq
    /\ LET p == s.effective_priority[t]
       IN  /\ u.level = [s.level EXCEPT ![p] =
                            IF head THEN TAILQ_INSERT_HEAD(s.level[p], t)
                                    ELSE TAILQ_INSERT_TAIL(s.level[p], t)]
           /\ u.bitmap = IF s.level[p] = <<>> THEN s.bitmap \cup {Bit(p)}
                                              ELSE s.bitmap

Dequeued(s, t, u) ==
    /\ u \in SchedRecord
    /\ u.linked = s.linked \ {t}
    /\ u.state = s.state
    /\ u.priority = s.priority
    /\ u.effective_priority = s.effective_priority
    /\ u.timeslice = s.timeslice
    /\ u.current = s.current
    /\ u.next = s.next
    /\ u.in_irq = s.in_irq
    /\ LET p == s.effective_priority[t]
           q == TAILQ_REMOVE(s.level[p], t)
       IN  /\ u.level = [s.level EXCEPT ![p] = q]
           /\ u.bitmap = IF q = <<>> THEN s.bitmap \ {Bit(p)} ELSE s.bitmap

\* run_queue_enqueue(), field by field.
LEMMA EnqueueFields ==
    ASSUME NEW s \in SchedRecord, NEW t \in Task, NEW head \in BOOLEAN
    PROVE  Enqueued(s, t, head, run_queue_enqueue(s, t, head))
<1> DEFINE p == s.effective_priority[t]
           r == IF head THEN TAILQ_INSERT_HEAD(s.level[p], t)
                        ELSE TAILQ_INSERT_TAIL(s.level[p], t)
           b == IF s.level[p] = <<>> THEN s.bitmap \cup {Bit(p)} ELSE s.bitmap
           u == run_queue_enqueue(s, t, head)
           v == [s EXCEPT !.bitmap = b,
                          !.timeslice = [s.timeslice EXCEPT ![t] = TimeSlice],
                          !.linked = s.linked \cup {t},
                          !.level = [s.level EXCEPT ![p] = r]]
<1>1. p \in Prio /\ s.level[p] \in Seq(Task)
  BY DEF SchedRecord
<1>2. r \in Seq(Task)
  BY <1>1, InsertHead, InsertTail DEF Inserted
<1>3. Bit(p) \in Prio /\ TimeSlice \in 0..255
  BY <1>1, SchedAssumption DEF Bit, Prio
<1>4. u = v
  BY DEF run_queue_enqueue
<1>5. /\ b \in SUBSET Prio
      /\ [s.timeslice EXCEPT ![t] = TimeSlice] \in [Task -> 0..255]
      /\ s.linked \cup {t} \in SUBSET Task
      /\ [s.level EXCEPT ![p] = r] \in [Prio -> Seq(Task)]
  BY <1>1, <1>2, <1>3 DEF SchedRecord
<1> HIDE DEF r, b, p
<1>6. v \in SchedRecord
  BY <1>5 DEF SchedRecord
<1>7. /\ v.linked = s.linked \cup {t}
      /\ v.state = s.state
      /\ v.priority = s.priority
      /\ v.effective_priority = s.effective_priority
      /\ v.timeslice = [s.timeslice EXCEPT ![t] = TimeSlice]
      /\ v.current = s.current
      /\ v.next = s.next
      /\ v.in_irq = s.in_irq
      /\ v.level = [s.level EXCEPT ![p] = r]
      /\ v.bitmap = b
  BY DEF SchedRecord
<1> HIDE DEF v
<1> QED BY <1>4, <1>6, <1>7, Zenon DEF Enqueued, r, b, p

\* run_queue_dequeue() of a linked task, field by field.
LEMMA DequeueFields ==
    ASSUME NEW s \in SchedRecord, QueuedOnce(s), NEW t \in s.linked
    PROVE  Dequeued(s, t, run_queue_dequeue(s, t))
<1> DEFINE p == s.effective_priority[t]
           q == TAILQ_REMOVE(s.level[p], t)
           b == IF q = <<>> THEN s.bitmap \ {Bit(p)} ELSE s.bitmap
           u == run_queue_dequeue(s, t)
           v == [s EXCEPT !.level = [s.level EXCEPT ![p] = q],
                          !.linked = s.linked \ {t},
                          !.bitmap = b]
<1>1. t \in Task /\ p \in Prio /\ s.level[p] \in Seq(Task) /\ InQueue(s.level[p], t)
  BY DEF SchedRecord, QueuedOnce
<1>2. q \in Seq(Task)
  BY <1>1, Remove DEF Removed
<1>3. u = v
  BY DEF run_queue_dequeue
<1>4. /\ b \in SUBSET Prio
      /\ s.linked \ {t} \in SUBSET Task
      /\ [s.level EXCEPT ![p] = q] \in [Prio -> Seq(Task)]
  BY <1>1, <1>2 DEF SchedRecord
<1> HIDE DEF q, b, p
<1>5. v \in SchedRecord
  BY <1>4 DEF SchedRecord
<1>6. /\ v.linked = s.linked \ {t}
      /\ v.state = s.state
      /\ v.priority = s.priority
      /\ v.effective_priority = s.effective_priority
      /\ v.timeslice = s.timeslice
      /\ v.current = s.current
      /\ v.next = s.next
      /\ v.in_irq = s.in_irq
      /\ v.level = [s.level EXCEPT ![p] = q]
      /\ v.bitmap = b
  BY DEF SchedRecord
<1> HIDE DEF v
<1> QED BY <1>3, <1>5, <1>6, Zenon DEF Dequeued, q, b, p

-----------------------------------------------------------------------------
(***************************************************************************)
(* Both keep the run queue sound.                                          *)
(***************************************************************************)
LEMMA EnqueueSound ==
    ASSUME NEW s \in SchedRecord, QueuedOnce(s), BitmapExact(s),
           NEW t \in Task, t \notin s.linked, NEW head \in BOOLEAN
    PROVE  /\ QueuedOnce(run_queue_enqueue(s, t, head))
           /\ BitmapExact(run_queue_enqueue(s, t, head))
<1> DEFINE u == run_queue_enqueue(s, t, head)
           p == s.effective_priority[t]
           q == s.level[p]
           r == u.level[p]
<1>1. Enqueued(s, t, head, u)
  BY EnqueueFields
<1> HIDE DEF u
<1>2. p \in Prio /\ q \in Seq(Task) /\ s.level \in [Prio -> Seq(Task)]
  BY DEF SchedRecord
<1>3. /\ u.linked = s.linked \cup {t}
      /\ u.effective_priority = s.effective_priority
      /\ u.bitmap = IF q = <<>> THEN s.bitmap \cup {Bit(p)} ELSE s.bitmap
      /\ r = IF head THEN TAILQ_INSERT_HEAD(q, t) ELSE TAILQ_INSERT_TAIL(q, t)
      /\ \A x \in Prio : x # p => u.level[x] = s.level[x]
  BY <1>1, <1>2 DEF Enqueued
<1>4. Inserted(Task, q, t, r)
  <2> HIDE DEF p, q, r
  <2>1. CASE head
    BY <1>2, <1>3, <2>1, InsertHead
  <2>2. CASE ~head
    BY <1>2, <1>3, <2>2, InsertTail
  <2> QED BY <2>1, <2>2
<1>5. /\ \A i \in 1..Len(q) : q[i] \in s.linked /\ s.effective_priority[q[i]] = p
      /\ \A i, j \in 1..Len(q) : q[i] = q[j] => i = j
  BY <1>2 DEF QueuedOnce
<1>6. q # <<>> <=> Bit(p) \in s.bitmap
  BY <1>2 DEF BitmapExact
<1>7. u.effective_priority[t] = p
  BY <1>3
<1> HIDE DEF p, q, r
<1>8. Len(q) \in Nat
  BY <1>2
<1>9. PICK k \in 1..Len(r) :
         /\ r[k] = t
         /\ \A i \in 1..Len(r) : i # k => r[i] = q[IF i < k THEN i ELSE i - 1]
  BY <1>4 DEF Inserted
<1>10. \A i \in 1..Len(r) : i # k => (IF i < k THEN i ELSE i - 1) \in 1..Len(q)
  BY <1>4, <1>8, <1>9 DEF Inserted
<1>11. \A i \in 1..Len(r) : i # k => r[i] \in s.linked /\ s.effective_priority[r[i]] = p
  BY <1>5, <1>9, <1>10
<1>12. ASSUME NEW i \in 1..Len(r), NEW j \in 1..Len(r), r[i] = r[j]
       PROVE  i = j
  <2>1. CASE i = k \/ j = k
    BY <1>9, <1>11, <1>12, <2>1
  <2>2. CASE i # k /\ j # k
    <3> DEFINE a == IF i < k THEN i ELSE i - 1
               b == IF j < k THEN j ELSE j - 1
    <3>1. a \in 1..Len(q) /\ b \in 1..Len(q) /\ r[i] = q[a] /\ r[j] = q[b]
      BY <1>9, <1>10, <2>2
    <3>2. a = b
      <4> HIDE DEF a, b
      <4> QED BY <1>5, <1>12, <3>1
    <3> QED BY <2>2, <3>2
  <2> QED BY <2>1, <2>2
<1>13. \A i \in 1..Len(r) : r[i] \in u.linked /\ u.effective_priority[r[i]] = p
  BY <1>3, <1>7, <1>9, <1>11
<1>14. InQueue(r, t)
  BY <1>9 DEF InQueue
<1>15. QueuedOnce(u)
  <2>1. ASSUME NEW x \in Prio, NEW i \in 1..Len(u.level[x])
        PROVE  u.level[x][i] \in u.linked /\ u.effective_priority[u.level[x][i]] = x
    <3>1. CASE x = p
      BY <1>13, <2>1, <3>1 DEF r
    <3>2. CASE x # p
      BY <1>3, <2>1, <3>2 DEF QueuedOnce
    <3> QED BY <3>1, <3>2
  <2>2. ASSUME NEW y \in u.linked
        PROVE  InQueue(u.level[u.effective_priority[y]], y)
    <3>1. CASE y = t
      BY <1>7, <1>14, <3>1 DEF r
    <3>2. CASE y # t
      <4>1. y \in s.linked /\ InQueue(s.level[s.effective_priority[y]], y)
        BY <1>3, <2>2, <3>2 DEF QueuedOnce
      <4>2. s.effective_priority[y] \in Prio
        BY <4>1 DEF SchedRecord
      <4>3. CASE s.effective_priority[y] = p
        <5>1. InQueue(q, y)
          BY <4>1, <4>3 DEF q
        <5>2. InQueue(r, y)
          BY <1>4, <5>1 DEF Inserted, InQueue
        <5> QED BY <1>3, <4>3, <5>2 DEF r
      <4>4. CASE s.effective_priority[y] # p
        BY <1>3, <4>1, <4>2, <4>4
      <4> QED BY <4>3, <4>4
    <3> QED BY <3>1, <3>2
  <2>3. ASSUME NEW x \in Prio, NEW i \in 1..Len(u.level[x]),
               NEW j \in 1..Len(u.level[x]), u.level[x][i] = u.level[x][j]
        PROVE  i = j
    <3>1. CASE x = p
      BY <1>12, <2>3, <3>1 DEF r
    <3>2. CASE x # p
      BY <1>3, <2>3, <3>2 DEF QueuedOnce
    <3> QED BY <3>1, <3>2
  <2> QED BY <2>1, <2>2, <2>3, Zenon DEF QueuedOnce
<1>16. BitmapExact(u)
  <2> SUFFICES ASSUME NEW x \in Prio
               PROVE  Bit(x) \in u.bitmap <=> u.level[x] # <<>>
    BY DEF BitmapExact
  <2>1. CASE x = p
    <3>1. r # <<>>
      BY <1>9
    <3> QED BY <1>3, <1>6, <2>1, <3>1 DEF r
  <2>2. CASE x # p
    <3>1. Bit(x) # Bit(p)
      BY <1>2, <2>2, SchedAssumption DEF Bit, Prio
    <3>2. Bit(x) \in u.bitmap <=> Bit(x) \in s.bitmap
      BY <1>3, <3>1
    <3> QED BY <1>3, <2>2, <3>2 DEF BitmapExact
  <2> QED BY <2>1, <2>2
<1> QED BY <1>15, <1>16 DEF u

\* run_queue_dequeue() keeps the queues and the bitmap sound.
LEMMA DequeueSound ==
    ASSUME NEW s \in SchedRecord, QueuedOnce(s), BitmapExact(s), NEW t \in s.linked
    PROVE  /\ QueuedOnce(run_queue_dequeue(s, t))
           /\ BitmapExact(run_queue_dequeue(s, t))
<1> DEFINE u == run_queue_dequeue(s, t)
           p == s.effective_priority[t]
           q == s.level[p]
           r == u.level[p]
<1>1. Dequeued(s, t, u)
  BY DequeueFields
<1> HIDE DEF u
<1>2. /\ t \in Task /\ p \in Prio /\ q \in Seq(Task)
      /\ s.level \in [Prio -> Seq(Task)]
      /\ InQueue(q, t)
  BY DEF SchedRecord, QueuedOnce
<1>3. /\ u.linked = s.linked \ {t}
      /\ u.effective_priority = s.effective_priority
      /\ r = TAILQ_REMOVE(q, t)
      /\ u.bitmap = IF r = <<>> THEN s.bitmap \ {Bit(p)} ELSE s.bitmap
      /\ \A x \in Prio : x # p => u.level[x] = s.level[x]
  BY <1>1, <1>2 DEF Dequeued
<1>4. Removed(Task, q, t, r)
  <2> HIDE DEF p, q, r
  <2> QED BY <1>2, <1>3, Remove
<1>5. /\ \A i \in 1..Len(q) : q[i] \in s.linked /\ s.effective_priority[q[i]] = p
      /\ \A i, j \in 1..Len(q) : q[i] = q[j] => i = j
  BY <1>2 DEF QueuedOnce
<1>6. Bit(p) \in s.bitmap
  BY <1>2 DEF BitmapExact, InQueue
<1> HIDE DEF p, q, r
<1>7. Len(q) \in Nat
  BY <1>2
<1>8. PICK k \in 1..Len(q) :
         /\ q[k] = t
         /\ \A i \in 1..Len(r) : r[i] = q[IF i < k THEN i ELSE i + 1]
  BY <1>4 DEF Removed
<1>9. \A i \in 1..Len(r) :
         /\ (IF i < k THEN i ELSE i + 1) \in 1..Len(q)
         /\ (IF i < k THEN i ELSE i + 1) # k
  BY <1>4, <1>7 DEF Removed
<1>10. \A i \in 1..Len(r) :
          r[i] \in s.linked /\ s.effective_priority[r[i]] = p /\ r[i] # t
  BY <1>5, <1>8, <1>9
<1>11. ASSUME NEW i \in 1..Len(r), NEW j \in 1..Len(r), r[i] = r[j]
       PROVE  i = j
  <2> DEFINE a == IF i < k THEN i ELSE i + 1
             b == IF j < k THEN j ELSE j + 1
  <2>1. a \in 1..Len(q) /\ b \in 1..Len(q) /\ r[i] = q[a] /\ r[j] = q[b]
    BY <1>8, <1>9
  <2>2. a = b
    <3> HIDE DEF a, b
    <3> QED BY <1>5, <1>11, <2>1
  <2> QED BY <2>2
<1>12. ASSUME NEW y, InQueue(q, y), y # t
       PROVE  InQueue(r, y)
  <2>1. PICK i \in 1..Len(q) : q[i] = y
    BY <1>12 DEF InQueue
  <2>2. i # k
    BY <1>8, <1>12, <2>1
  <2>3. CASE i < k
    <3>1. i \in 1..Len(r)
      BY <1>4, <1>7, <2>1, <2>3 DEF Removed
    <3>2. r[i] = q[i]
      BY <1>8, <2>3, <3>1
    <3> QED BY <2>1, <3>1, <3>2 DEF InQueue
  <2>4. CASE i > k
    <3>1. i - 1 \in 1..Len(r) /\ ~(i - 1 < k) /\ (i - 1) + 1 = i
      BY <1>4, <1>7, <1>8, <2>1, <2>4 DEF Removed
    <3>2. r[i - 1] = q[(i - 1) + 1]
      BY <1>8, <3>1
    <3> QED BY <2>1, <3>1, <3>2 DEF InQueue
  <2> QED BY <1>8, <2>1, <2>2, <2>3, <2>4
<1>13. QueuedOnce(u)
  <2>1. ASSUME NEW x \in Prio, NEW i \in 1..Len(u.level[x])
        PROVE  u.level[x][i] \in u.linked /\ u.effective_priority[u.level[x][i]] = x
    <3>1. CASE x = p
      BY <1>3, <1>10, <2>1, <3>1 DEF r
    <3>2. CASE x # p
      <4>1. s.level[x][i] \in s.linked /\ s.effective_priority[s.level[x][i]] = x
        BY <1>3, <2>1, <3>2 DEF QueuedOnce
      <4> QED BY <1>3, <2>1, <3>2, <4>1 DEF p
    <3> QED BY <3>1, <3>2
  <2>2. ASSUME NEW y \in u.linked
        PROVE  InQueue(u.level[u.effective_priority[y]], y)
    <3>1. y \in s.linked /\ y # t /\ InQueue(s.level[s.effective_priority[y]], y)
      BY <1>3, <2>2 DEF QueuedOnce
    <3>2. s.effective_priority[y] \in Prio
      BY <3>1 DEF SchedRecord
    <3>3. CASE s.effective_priority[y] = p
      <4>1. InQueue(q, y)
        BY <3>1, <3>3 DEF q
      <4>2. InQueue(r, y)
        BY <1>12, <3>1, <4>1
      <4> QED BY <1>3, <3>3, <4>2 DEF r
    <3>4. CASE s.effective_priority[y] # p
      BY <1>3, <3>1, <3>2, <3>4
    <3> QED BY <3>3, <3>4
  <2>3. ASSUME NEW x \in Prio, NEW i \in 1..Len(u.level[x]),
               NEW j \in 1..Len(u.level[x]), u.level[x][i] = u.level[x][j]
        PROVE  i = j
    <3>1. CASE x = p
      BY <1>11, <2>3, <3>1 DEF r
    <3>2. CASE x # p
      BY <1>3, <2>3, <3>2 DEF QueuedOnce
    <3> QED BY <3>1, <3>2
  <2> QED BY <2>1, <2>2, <2>3, Zenon DEF QueuedOnce
<1>14. BitmapExact(u)
  <2> SUFFICES ASSUME NEW x \in Prio
               PROVE  Bit(x) \in u.bitmap <=> u.level[x] # <<>>
    BY DEF BitmapExact
  <2>1. CASE x = p
    BY <1>3, <1>6, <2>1 DEF r
  <2>2. CASE x # p
    <3>1. Bit(x) # Bit(p)
      BY <1>2, <2>2, SchedAssumption DEF Bit, Prio
    <3>2. Bit(x) \in u.bitmap <=> Bit(x) \in s.bitmap
      BY <1>3, <3>1
    <3> QED BY <1>3, <2>2, <3>2 DEF BitmapExact
  <2> QED BY <2>1, <2>2
<1> QED BY <1>13, <1>14 DEF u

\* The assertions of run_queue_peek(): a sound queue that holds some task has a
\* bit set, the queue of its lowest bit is not empty, and the task at its head
\* is linked and has the highest effective priority of all linked tasks.
LEMMA PeekSound ==
    ASSUME NEW s \in SchedRecord, QueuedOnce(s), BitmapExact(s), s.linked # {}
    PROVE  /\ s.bitmap # {}
           /\ PeekLevel(s) # <<>>
           /\ run_queue_peek(s) \in s.linked
           /\ \A t \in s.linked : s.effective_priority[t]
                                    <= s.effective_priority[run_queue_peek(s)]
<1>1. ASSUME NEW t \in s.linked
      PROVE  /\ s.effective_priority[t] \in Prio
             /\ Bit(s.effective_priority[t]) \in s.bitmap
  <2>1. s.effective_priority[t] \in Prio
    BY DEF SchedRecord
  <2>2. InQueue(s.level[s.effective_priority[t]], t)
    BY DEF QueuedOnce
  <2>3. s.level[s.effective_priority[t]] # <<>>
    BY <2>2 DEF InQueue
  <2> QED BY <2>1, <2>3 DEF BitmapExact
<1>2. s.bitmap # {}
  BY <1>1
<1> DEFINE b == ffs(s.bitmap)
           p == MaxPrio - b
<1>3. b \in s.bitmap /\ \A x \in s.bitmap : b <= x
  <2>1. s.bitmap \in SUBSET Nat
    BY DEF SchedRecord, Prio
  <2> QED BY <1>2, <2>1, MinOfSet DEF ffs
<1>4. p \in Prio /\ Bit(p) = b
  <2>1. s.bitmap \in SUBSET Prio
    BY DEF SchedRecord
  <2>2. b \in Prio
    BY <1>3, <2>1, Zenon
  <2> HIDE DEF b
  <2> QED BY <2>2, SchedAssumption DEF Bit, Prio
<1> HIDE DEF b
<1>5. s.level[p] # <<>> /\ s.level[p] \in Seq(Task)
  BY <1>3, <1>4 DEF BitmapExact, SchedRecord
<1>6. 1 \in 1..Len(s.level[p])
  BY <1>5
<1>7. s.level[p][1] \in s.linked /\ s.effective_priority[s.level[p][1]] = p
  BY <1>4, <1>6 DEF QueuedOnce
<1>8. ASSUME NEW t \in s.linked PROVE s.effective_priority[t] <= p
  BY <1>1, <1>3, <1>4, SchedAssumption DEF Bit, Prio
<1> QED BY <1>2, <1>5, <1>7, <1>8 DEF PeekLevel, run_queue_peek, b

-----------------------------------------------------------------------------
(***************************************************************************)
(* The functions that choose and wake tasks.  A sound state has a sound    *)
(* run queue that holds the idle task, which is always RUNNING.            *)
(***************************************************************************)
Sound(s) ==
    /\ s \in SchedRecord
    /\ QueuedOnce(s)
    /\ BitmapExact(s)
    /\ Idle \in s.linked
    /\ s.state[Idle] = "RUNNING"

Highest(s, t) ==
    /\ t \in s.linked
    /\ \A x \in s.linked : s.effective_priority[x] <= s.effective_priority[t]

\* The soundness of the queue is a matter of linked, level, bitmap and the
\* effective priorities of the tasks that are linked.
LEMMA SameQueue ==
    ASSUME NEW s, NEW u, QueuedOnce(s), BitmapExact(s),
           u.linked = s.linked, u.level = s.level, u.bitmap = s.bitmap,
           \A t \in s.linked : u.effective_priority[t] = s.effective_priority[t]
    PROVE  QueuedOnce(u) /\ BitmapExact(u)
<1>1. QueuedOnce(u)
  <2>1. ASSUME NEW p \in Prio, NEW i \in 1..Len(u.level[p])
        PROVE  u.level[p][i] \in u.linked /\ u.effective_priority[u.level[p][i]] = p
    BY <2>1 DEF QueuedOnce
  <2>2. ASSUME NEW t \in u.linked
        PROVE  InQueue(u.level[u.effective_priority[t]], t)
    BY <2>2 DEF QueuedOnce
  <2>3. ASSUME NEW p \in Prio, NEW i \in 1..Len(u.level[p]),
               NEW j \in 1..Len(u.level[p]), u.level[p][i] = u.level[p][j]
        PROVE  i = j
    BY <2>3 DEF QueuedOnce
  <2> QED BY <2>1, <2>2, <2>3, Zenon DEF QueuedOnce
<1>2. BitmapExact(u)
  BY DEF BitmapExact
<1> QED BY <1>1, <1>2

Scheduled(s, u) ==
    /\ Sound(u)
    /\ u.state = s.state
    /\ u.priority = s.priority
    /\ u.effective_priority = s.effective_priority
    /\ u.current = s.current
    /\ u.in_irq = s.in_irq
    /\ u.linked = IF s.state[s.current] = "RUNNING" THEN s.linked
                                                    ELSE s.linked \ {s.current}
    /\ u.timeslice = IF s.state[s.current] = "RUNNING" /\ s.timeslice[s.current] = 0
                     THEN [s.timeslice EXCEPT ![s.current] = TimeSlice]
                     ELSE s.timeslice
    /\ Highest(u, u.next)

\* Storing pthread_next changes nothing else.
LEMMA StoreNext ==
    ASSUME NEW s, Sound(s), NEW n \in Task \cup {NULL}
    PROVE  LET u == [s EXCEPT !.next = n]
           IN  /\ Sound(u)
               /\ u.next = n
               /\ u.state = s.state
               /\ u.priority = s.priority
               /\ u.effective_priority = s.effective_priority
               /\ u.current = s.current
               /\ u.in_irq = s.in_irq
               /\ u.linked = s.linked
               /\ u.timeslice = s.timeslice
<1> DEFINE u == [s EXCEPT !.next = n]
<1>1. s \in SchedRecord
  BY DEF Sound
<1>2. /\ u \in SchedRecord
      /\ u.next = n
      /\ u.state = s.state
      /\ u.priority = s.priority
      /\ u.effective_priority = s.effective_priority
      /\ u.current = s.current
      /\ u.in_irq = s.in_irq
      /\ u.linked = s.linked
      /\ u.timeslice = s.timeslice
      /\ u.level = s.level
      /\ u.bitmap = s.bitmap
  BY <1>1 DEF SchedRecord
<1> HIDE DEF u
<1>3. QueuedOnce(u) /\ BitmapExact(u)
  BY <1>2, SameQueue DEF Sound
<1>4. Sound(u)
  BY <1>2, <1>3 DEF Sound
<1> QED BY <1>2, <1>4 DEF u

\* __schedule(): the queue stays sound, so that the assertions it meets in
\* run_queue_peek() hold, and it chooses a task of the highest priority.
LEMMA ScheduleEffect ==
    ASSUME NEW s, Sound(s),
           s.state[s.current] = "RUNNING" => s.current \in s.linked
    PROVE  Scheduled(s, __schedule(s))
<1> DEFINE t == s.current
           d == run_queue_dequeue(s, t)
           e == run_queue_enqueue(d, t, FALSE)
           u == IF s.state[t] # "RUNNING" THEN d
                ELSE IF s.timeslice[t] = 0 THEN e ELSE s
           v == [u EXCEPT !.next = run_queue_peek(u)]
<1>1. __schedule(s) = v
  BY DEF __schedule
<1>2. s \in SchedRecord /\ t \in Task
  BY DEF Sound, SchedRecord
<1>3. ASSUME t \in s.linked
      PROVE  /\ Dequeued(s, t, d)
             /\ QueuedOnce(d) /\ BitmapExact(d)
  BY <1>2, <1>3, DequeueFields, DequeueSound DEF Sound
<1>4. ASSUME t \in s.linked
      PROVE  /\ Enqueued(d, t, FALSE, e)
             /\ QueuedOnce(e) /\ BitmapExact(e)
  <2>1. d \in SchedRecord /\ t \notin d.linked
    BY <1>3, <1>4 DEF Dequeued
  <2> QED BY <1>2, <1>3, <1>4, <2>1, EnqueueFields, EnqueueSound
<1>5. t \notin s.linked => d = s
  BY DEF run_queue_dequeue
<1> DEFINE Same(x) == /\ x.state = s.state
                      /\ x.priority = s.priority
                      /\ x.effective_priority = s.effective_priority
                      /\ x.current = s.current
                      /\ x.in_irq = s.in_irq
<1> HIDE DEF d, e
<1>6. /\ Sound(u) /\ Same(u)
      /\ u.linked = IF s.state[t] = "RUNNING" THEN s.linked ELSE s.linked \ {t}
      /\ u.timeslice = IF s.state[t] = "RUNNING" /\ s.timeslice[t] = 0
                       THEN [s.timeslice EXCEPT ![t] = TimeSlice] ELSE s.timeslice
  <2>1. CASE s.state[t] # "RUNNING" /\ t \in s.linked
    <3>1. t # Idle
      BY <2>1 DEF Sound
    <3> QED BY <1>3, <2>1, <3>1 DEF Sound, Dequeued
  <2>2. CASE s.state[t] # "RUNNING" /\ t \notin s.linked
    BY <1>5, <2>2
  <2>3. CASE s.state[t] = "RUNNING" /\ s.timeslice[t] = 0
    <3>0. t \in s.linked
      BY <2>3
    <3>1. e.linked = s.linked
      <4>1. d.linked = s.linked \ {t}
        BY <1>3, <3>0, Zenon DEF Dequeued
      <4>2. e.linked = d.linked \cup {t}
        BY <1>4, <3>0, Zenon DEF Enqueued
      <4> QED BY <3>0, <4>1, <4>2
    <3>2. e.timeslice = [s.timeslice EXCEPT ![t] = TimeSlice]
      BY <1>3, <1>4, <2>3 DEF Dequeued, Enqueued
    <3> QED BY <1>3, <1>4, <2>3, <3>1, <3>2 DEF Sound, Dequeued, Enqueued
  <2>4. CASE s.state[t] = "RUNNING" /\ s.timeslice[t] # 0
    BY <2>4
  <2> QED BY <2>1, <2>2, <2>3, <2>4
<1> HIDE DEF u
<1>7. Highest(u, run_queue_peek(u)) /\ run_queue_peek(u) \in Task
  BY <1>6, PeekSound DEF Sound, Highest, SchedRecord
<1>8. /\ Sound(v) /\ v.next = run_queue_peek(u)
      /\ v.state = u.state
      /\ v.priority = u.priority
      /\ v.effective_priority = u.effective_priority
      /\ v.current = u.current
      /\ v.in_irq = u.in_irq
      /\ v.linked = u.linked
      /\ v.timeslice = u.timeslice
  BY <1>6, <1>7, StoreNext
<1> HIDE DEF v
<1>9. Highest(v, v.next)
  BY <1>7, <1>8 DEF Highest
<1> QED BY <1>1, <1>6, <1>8, <1>9 DEF Scheduled

-----------------------------------------------------------------------------
(***************************************************************************)
(* A steady state is one between two steps of the kernel: the tasks that   *)
(* are ready are queued, those that are queued have ticks left, and the    *)
(* current task is one of them.  It is settled if it asks for a reschedule *)
(* or if the current task is one that may run.                             *)
(***************************************************************************)
Ready(s) ==
    \A t \in Task :
        /\ s.state[t] = "RUNNING" => t \in s.linked
        /\ t \in s.linked => s.state[t] = "RUNNING" \/ t = s.current

Sliced(s) ==
    /\ \A t \in Task : s.timeslice[t] <= TimeSlice
    /\ \A t \in s.linked : 1 <= s.timeslice[t]

Steady(s) == Sound(s) /\ Ready(s) /\ Sliced(s) /\ s.current \in s.linked

Pointed(s) == s.next = NULL \/ s.next = s.current

Settled(s) == s.next = NULL \/ (s.next = s.current /\ Highest(s, s.current))

\* The state that a reschedule of s leaves.
Switched(s, u) ==
    /\ Steady(u)
    /\ u.next = u.current
    /\ u.state[u.current] = "RUNNING"
    /\ Highest(u, u.current)
    /\ u.in_irq = s.in_irq
    /\ u.state = s.state
    /\ u.priority = s.priority
    /\ u.effective_priority = s.effective_priority
    /\ u.linked = IF s.state[s.current] = "RUNNING" THEN s.linked
                                                    ELSE s.linked \ {s.current}

\* __schedule() followed by arch_context_switch() reaches a steady state from
\* one in which the current task may have used up its slice.
LEMMA SwitchEffect ==
    ASSUME NEW s, Sound(s), Ready(s),
           \A t \in Task : s.timeslice[t] <= TimeSlice,
           \A t \in s.linked : t # s.current => 1 <= s.timeslice[t]
    PROVE  Switched(s, arch_context_switch(__schedule(s)))
<1> DEFINE t == s.current
           v == __schedule(s)
           u == arch_context_switch(v)
<1>1. s \in SchedRecord /\ t \in Task
  BY DEF Sound, SchedRecord
<1>2. Scheduled(s, v)
  BY <1>1, ScheduleEffect DEF Ready
<1> HIDE DEF v
<1>3. v \in SchedRecord /\ Sound(v) /\ Highest(v, v.next)
  BY <1>2 DEF Scheduled, Sound
<1>4. v.next \in v.linked /\ v.next \in Task
  BY <1>3 DEF Highest, SchedRecord
<1>5. /\ u \in SchedRecord
      /\ u.current = v.next
      /\ u.next = v.next
      /\ u.state = v.state
      /\ u.priority = v.priority
      /\ u.effective_priority = v.effective_priority
      /\ u.in_irq = v.in_irq
      /\ u.linked = v.linked
      /\ u.timeslice = v.timeslice
      /\ u.level = v.level
      /\ u.bitmap = v.bitmap
  BY <1>3, <1>4 DEF SchedRecord, arch_context_switch
<1> HIDE DEF u
<1>6. QueuedOnce(u) /\ BitmapExact(u)
  BY <1>3, <1>5, SameQueue DEF Sound
<1>7. Sound(u)
  BY <1>3, <1>5, <1>6 DEF Sound
<1>8. /\ u.state = s.state
      /\ u.priority = s.priority
      /\ u.effective_priority = s.effective_priority
      /\ u.in_irq = s.in_irq
      /\ u.linked = IF s.state[t] = "RUNNING" THEN s.linked ELSE s.linked \ {t}
      /\ u.timeslice = IF s.state[t] = "RUNNING" /\ s.timeslice[t] = 0
                       THEN [s.timeslice EXCEPT ![t] = TimeSlice] ELSE s.timeslice
  BY <1>2, <1>5 DEF Scheduled
<1>9. Ready(u)
  BY <1>8 DEF Ready
<1>10. Sliced(u)
  <2>1. ASSUME NEW x \in Task
        PROVE  /\ u.timeslice[x] <= TimeSlice
               /\ x \in u.linked => 1 <= u.timeslice[x]
    <3>1. s.timeslice \in [Task -> 0..255]
      BY <1>1 DEF SchedRecord
    <3>2. s.timeslice[x] <= TimeSlice /\ s.timeslice[x] \in 0..255
      BY <3>1
    <3>3. x \in s.linked /\ x # t => 1 <= s.timeslice[x]
      OBVIOUS
    <3>4. CASE x # t
      BY <1>8, <3>1, <3>2, <3>3, <3>4
    <3>5. CASE x = t /\ s.state[t] = "RUNNING"
      BY <1>8, <3>1, <3>2, <3>5, SchedAssumption
    <3>6. CASE x = t /\ s.state[t] # "RUNNING"
      BY <1>8, <3>2, <3>6
    <3> QED BY <3>4, <3>5, <3>6
  <2>2. u.linked \subseteq Task
    BY <1>5 DEF SchedRecord
  <2> QED BY <2>1, <2>2 DEF Sliced
<1>11. u.current \in u.linked /\ Highest(u, u.current)
  BY <1>3, <1>4, <1>5 DEF Highest
<1>12. u.state[u.current] = "RUNNING"
  BY <1>1, <1>8, <1>11 DEF Ready, SchedRecord
<1> QED BY <1>5, <1>7, <1>8, <1>9, <1>10, <1>11, <1>12 DEF Switched, Steady, u, v

\* What schedule() leaves: in a handler a request, elsewhere a switch.
Rescheduled(s, u) ==
    /\ Steady(u)
    /\ Settled(u)
    /\ u.in_irq = s.in_irq
    /\ u.state = s.state
    /\ u.priority = s.priority
    /\ u.effective_priority = s.effective_priority
    /\ IF s.in_irq
       THEN u.next = NULL /\ u.current = s.current /\ u.linked = s.linked
       ELSE Switched(s, u)

\* schedule() keeps a steady state steady and settles it.
LEMMA RescheduleEffect ==
    ASSUME NEW s, Steady(s)
    PROVE  Rescheduled(s, schedule(s))
<1>1. CASE s.in_irq
  <2> DEFINE u == [s EXCEPT !.next = NULL]
  <2>1. /\ Sound(u)
        /\ u.next = NULL
        /\ u.state = s.state
        /\ u.priority = s.priority
        /\ u.effective_priority = s.effective_priority
        /\ u.current = s.current
        /\ u.in_irq = s.in_irq
        /\ u.linked = s.linked
        /\ u.timeslice = s.timeslice
    BY StoreNext DEF Steady
  <2>2. schedule(s) = u
    BY <1>1 DEF schedule
  <2> HIDE DEF u
  <2>3. Ready(u) /\ Sliced(u)
    BY <2>1 DEF Steady, Ready, Sliced
  <2> QED BY <1>1, <2>1, <2>2, <2>3 DEF Rescheduled, Steady, Settled
<1>2. CASE ~s.in_irq
  <2>1. Switched(s, arch_context_switch(__schedule(s)))
    BY SwitchEffect DEF Steady, Sliced
  <2>2. schedule(s) = arch_context_switch(__schedule(s))
    BY <1>2 DEF schedule
  <2> QED BY <1>2, <2>1, <2>2 DEF Rescheduled, Switched, Settled
<1> QED BY <1>1, <1>2

-----------------------------------------------------------------------------
\* A store to the state of t, and what it leaves alone.
StateStored(s, t, x, u) ==
    /\ Sound(u)
    /\ u.state = [s.state EXCEPT ![t] = x]
    /\ u.priority = s.priority
    /\ u.effective_priority = s.effective_priority
    /\ u.timeslice = s.timeslice
    /\ u.linked = s.linked
    /\ u.current = s.current
    /\ u.next = s.next
    /\ u.in_irq = s.in_irq

\* The state of a task other than the idle task is not part of the run queue.
LEMMA StoreState ==
    ASSUME NEW s, Sound(s), NEW t \in Task, NEW x \in State,
           t = Idle => x = "RUNNING"
    PROVE  StateStored(s, t, x, [s EXCEPT !.state[t] = x])
<1> DEFINE f == [s.state EXCEPT ![t] = x]
           u == [s EXCEPT !.state = f]
<1>1. s \in SchedRecord /\ s.state \in [Task -> State]
  BY DEF Sound, SchedRecord
<1>2. f \in [Task -> State] /\ f[Idle] = "RUNNING"
  BY <1>1 DEF Sound, Task
<1>3. [s EXCEPT !.state[t] = x] = u
  OBVIOUS
<1> HIDE DEF f
<1>4. /\ u \in SchedRecord
      /\ u.state = f
      /\ u.priority = s.priority
      /\ u.effective_priority = s.effective_priority
      /\ u.timeslice = s.timeslice
      /\ u.linked = s.linked
      /\ u.current = s.current
      /\ u.next = s.next
      /\ u.in_irq = s.in_irq
      /\ u.level = s.level
      /\ u.bitmap = s.bitmap
  BY <1>1, <1>2 DEF SchedRecord
<1> HIDE DEF u
<1>5. QueuedOnce(u) /\ BitmapExact(u)
  BY <1>4, SameQueue DEF Sound
<1>6. Sound(u)
  BY <1>2, <1>4, <1>5 DEF Sound
<1> QED BY <1>3, <1>4, <1>6, Zenon DEF StateStored, f

\* The state that __pthread_set_running() leaves.
MadeRunning(s, t, u) ==
    /\ Steady(u)
    /\ u.state = [s.state EXCEPT ![t] = "RUNNING"]
    /\ u.priority = s.priority
    /\ u.effective_priority = s.effective_priority
    /\ u.linked = s.linked \cup {t}
    /\ u.current = s.current
    /\ u.next = s.next
    /\ u.in_irq = s.in_irq

\* __pthread_set_running() queues a task that was not queued, and none twice.
LEMMA SetRunningEffect ==
    ASSUME NEW s, Steady(s), NEW t \in Task
    PROVE  MadeRunning(s, t, __pthread_set_running(s, t))
<1> DEFINE u == [s EXCEPT !.state[t] = "RUNNING"]
           e == run_queue_enqueue(u, t, FALSE)
<1>1. StateStored(s, t, "RUNNING", u)
  BY StoreState DEF Steady, State
<1>2. __pthread_set_running(s, t) = IF t \in s.linked THEN u ELSE e
  BY DEF __pthread_set_running
<1> HIDE DEF u
<1>3. s \in SchedRecord /\ s.state \in [Task -> State] /\ s.linked \subseteq Task
  BY DEF Steady, Sound, SchedRecord
<1>4. u.state[t] = "RUNNING" /\ \A x \in Task : x # t => u.state[x] = s.state[x]
  BY <1>1, <1>3 DEF StateStored
<1>5. CASE t \in s.linked
  <2>1. Ready(u) /\ Sliced(u)
    BY <1>1, <1>4, <1>5 DEF Steady, StateStored, Ready, Sliced
  <2>2. u.linked = s.linked \cup {t}
    BY <1>1, <1>5 DEF StateStored
  <2> QED BY <1>1, <1>2, <1>5, <2>1, <2>2 DEF StateStored, MadeRunning, Steady
<1>6. CASE t \notin s.linked
  <2>1. u \in SchedRecord /\ QueuedOnce(u) /\ BitmapExact(u) /\ t \notin u.linked
    BY <1>1, <1>6 DEF StateStored, Sound
  <2>2. Enqueued(u, t, FALSE, e) /\ QueuedOnce(e) /\ BitmapExact(e)
    BY <2>1, EnqueueFields, EnqueueSound
  <2> HIDE DEF e
  <2>3. /\ e \in SchedRecord
        /\ e.linked = s.linked \cup {t}
        /\ e.state = u.state
        /\ e.priority = s.priority
        /\ e.effective_priority = s.effective_priority
        /\ e.timeslice = [s.timeslice EXCEPT ![t] = TimeSlice]
        /\ e.current = s.current
        /\ e.next = s.next
        /\ e.in_irq = s.in_irq
    BY <1>1, <2>2, Zenon DEF Enqueued, StateStored
  <2>4. Sound(e)
    BY <1>1, <2>2, <2>3 DEF Sound, StateStored
  <2>5. Ready(e)
    BY <1>4, <2>3 DEF Ready, Steady
  <2>6. Sliced(e)
    <3>1. s.timeslice \in [Task -> 0..255]
      BY <1>3 DEF SchedRecord
    <3>2. \A x \in Task : s.timeslice[x] <= TimeSlice
      BY DEF Steady, Sliced
    <3>3. \A x \in s.linked : 1 <= s.timeslice[x]
      BY DEF Steady, Sliced
    <3> QED BY <1>3, <2>3, <3>1, <3>2, <3>3, SchedAssumption DEF Sliced
  <2> QED BY <1>1, <1>2, <1>6, <2>3, <2>4, <2>5, <2>6
          DEF MadeRunning, Steady, StateStored
<1> QED BY <1>5, <1>6

\* wake_up() keeps a steady state steady and settles it; in a handler the
\* current task stays current.
LEMMA WakeUpEffect ==
    ASSUME NEW s, Steady(s), NEW t \in Task
    PROVE  \E r : MadeRunning(s, t, r) /\ Rescheduled(r, wake_up(s, t))
BY SetRunningEffect, RescheduleEffect DEF MadeRunning, wake_up

-----------------------------------------------------------------------------
\* A slot that pthread_create() claimed, filled.
SlotFilled(s, t, p, u) ==
    /\ Steady(u)
    /\ u.state = s.state
    /\ u.priority = [s.priority EXCEPT ![t] = p]
    /\ u.effective_priority = [s.effective_priority EXCEPT ![t] = p]
    /\ u.linked = s.linked
    /\ u.current = s.current
    /\ u.next = s.next
    /\ u.in_irq = s.in_irq

\* The stores of pthread_create() to a slot whose thread is not queued do not
\* disturb the run queue.
LEMMA InitSlotEffect ==
    ASSUME NEW s, Steady(s), NEW t \in Task, NEW p \in Prio, t \notin s.linked
    PROVE  SlotFilled(s, t, p, InitSlot(s, t, p))
<1> DEFINE l == s.linked \ {t}
           a == [s.priority EXCEPT ![t] = p]
           b == [s.effective_priority EXCEPT ![t] = p]
           c == [s.timeslice EXCEPT ![t] = TimeSlice]
           u == [s EXCEPT !.linked = l, !.priority = a,
                          !.effective_priority = b, !.timeslice = c]
<1>1. s \in SchedRecord
  BY DEF Steady, Sound
<1>2. l \in SUBSET Task /\ l = s.linked
  BY <1>1 DEF SchedRecord
<1>3. a \in [Task -> Prio] /\ b \in [Task -> Prio] /\ c \in [Task -> 0..255]
  BY <1>1, SchedAssumption DEF SchedRecord
<1>4. \A x \in s.linked : b[x] = s.effective_priority[x]
  BY <1>1 DEF SchedRecord
<1>5. /\ \A x \in Task : c[x] <= TimeSlice
      /\ \A x \in s.linked : 1 <= c[x]
  <2>1. /\ s.timeslice \in [Task -> 0..255] /\ s.linked \subseteq Task
        /\ \A x \in Task : s.timeslice[x] <= TimeSlice
        /\ \A x \in s.linked : 1 <= s.timeslice[x]
    BY <1>1 DEF SchedRecord, Steady, Sliced
  <2> QED BY <2>1, SchedAssumption
<1>6. InitSlot(s, t, p) = u
  BY DEF InitSlot
<1> HIDE DEF a, b, c, l
<1>7. /\ u \in SchedRecord
      /\ u.state = s.state
      /\ u.priority = a
      /\ u.effective_priority = b
      /\ u.timeslice = c
      /\ u.linked = s.linked
      /\ u.current = s.current
      /\ u.next = s.next
      /\ u.in_irq = s.in_irq
      /\ u.level = s.level
      /\ u.bitmap = s.bitmap
  BY <1>1, <1>2, <1>3 DEF SchedRecord
<1> HIDE DEF u
<1>8. QueuedOnce(u) /\ BitmapExact(u)
  BY <1>4, <1>7, SameQueue DEF Steady, Sound
<1>9. Sound(u)
  BY <1>7, <1>8 DEF Steady, Sound
<1>10. Ready(u) /\ Sliced(u)
  BY <1>5, <1>7 DEF Steady, Ready, Sliced
<1> QED BY <1>6, <1>7, <1>9, <1>10, Zenon DEF SlotFilled, Steady, a, b

-----------------------------------------------------------------------------
\* A store to in_irq, and what it leaves alone.
IrqStored(s, b, u) ==
    /\ Sound(u)
    /\ u.in_irq = b
    /\ u.state = s.state
    /\ u.priority = s.priority
    /\ u.effective_priority = s.effective_priority
    /\ u.timeslice = s.timeslice
    /\ u.linked = s.linked
    /\ u.current = s.current
    /\ u.next = s.next

\* in_irq is not part of the run queue.
LEMMA StoreIrq ==
    ASSUME NEW s, Sound(s), NEW b \in BOOLEAN
    PROVE  IrqStored(s, b, [s EXCEPT !.in_irq = b])
<1> DEFINE u == [s EXCEPT !.in_irq = b]
<1>1. s \in SchedRecord
  BY DEF Sound
<1>2. /\ u \in SchedRecord
      /\ u.in_irq = b
      /\ u.state = s.state
      /\ u.priority = s.priority
      /\ u.effective_priority = s.effective_priority
      /\ u.timeslice = s.timeslice
      /\ u.linked = s.linked
      /\ u.current = s.current
      /\ u.next = s.next
      /\ u.level = s.level
      /\ u.bitmap = s.bitmap
  BY <1>1 DEF SchedRecord
<1> HIDE DEF u
<1>3. QueuedOnce(u) /\ BitmapExact(u)
  BY <1>2, SameQueue DEF Sound
<1>4. Sound(u)
  BY <1>2, <1>3 DEF Sound
<1> QED BY <1>2, <1>4 DEF IrqStored, u

\* Entering or leaving the in_irq bracket keeps a steady state steady.
LEMMA StoreIrqSteady ==
    ASSUME NEW s, Steady(s), NEW b \in BOOLEAN
    PROVE  Steady([s EXCEPT !.in_irq = b])
<1> DEFINE u == [s EXCEPT !.in_irq = b]
<1>1. IrqStored(s, b, u)
  BY StoreIrq DEF Steady
<1> HIDE DEF u
<1>2. Ready(u) /\ Sliced(u)
  BY <1>1 DEF Steady, IrqStored, Ready, Sliced
<1> QED BY <1>1, <1>2 DEF Steady, IrqStored, u

\* A tick charged to the current task.
Charged(s, u) ==
    /\ Sound(u)
    /\ u.timeslice = [s.timeslice EXCEPT ![s.current] = @ - 1]
    /\ u.next = IF s.timeslice[s.current] = 1 THEN NULL ELSE s.next
    /\ u.state = s.state
    /\ u.priority = s.priority
    /\ u.effective_priority = s.effective_priority
    /\ u.linked = s.linked
    /\ u.current = s.current
    /\ u.in_irq = s.in_irq

\* timer_update() charges a task that has ticks left, so that the uint8_t
\* decrement does not wrap.
LEMMA ChargeTickEffect ==
    ASSUME NEW s, Steady(s)
    PROVE  Charged(s, ChargeTick(s))
<1> DEFINE t == s.current
           left == (s.timeslice[t] + 255) % 256
           n == IF left = 0 THEN NULL ELSE s.next
           f == [s.timeslice EXCEPT ![t] = left]
           u == [s EXCEPT !.timeslice = f, !.next = n]
<1>1. s \in SchedRecord /\ t \in Task /\ t \in s.linked
  BY DEF Steady, Sound, SchedRecord
<1>2. s.timeslice \in [Task -> 0..255] /\ 1 <= s.timeslice[t]
  BY <1>1 DEF SchedRecord, Steady, Sliced
<1>3. left = s.timeslice[t] - 1 /\ left \in 0..255
  BY <1>1, <1>2
<1> HIDE DEF left
<1>4. n \in Task \cup {NULL} /\ f \in [Task -> 0..255]
  BY <1>1, <1>2, <1>3 DEF SchedRecord
<1>5. /\ n = IF s.timeslice[t] = 1 THEN NULL ELSE s.next
      /\ f = [s.timeslice EXCEPT ![t] = @ - 1]
  BY <1>1, <1>2, <1>3
<1>6. ChargeTick(s) = u
  BY DEF ChargeTick, left
<1> HIDE DEF n, f
<1>7. /\ u \in SchedRecord
      /\ u.timeslice = f
      /\ u.next = n
      /\ u.state = s.state
      /\ u.priority = s.priority
      /\ u.effective_priority = s.effective_priority
      /\ u.linked = s.linked
      /\ u.current = s.current
      /\ u.in_irq = s.in_irq
      /\ u.level = s.level
      /\ u.bitmap = s.bitmap
  BY <1>1, <1>4 DEF SchedRecord
<1> HIDE DEF u
<1>8. QueuedOnce(u) /\ BitmapExact(u)
  BY <1>7, SameQueue DEF Steady, Sound
<1>9. Sound(u)
  BY <1>7, <1>8 DEF Steady, Sound
<1> QED BY <1>5, <1>6, <1>7, <1>9 DEF Charged

\* The state after the timer interrupt.
Left(s, u) ==
    /\ Steady(u)
    /\ u.next = u.current
    /\ Settled(s) => Highest(u, u.current)
    /\ u.current = s.current \/ u.state[u.current] = "RUNNING"
    /\ u.in_irq = FALSE
    /\ u.state = s.state
    /\ u.priority = s.priority
    /\ u.effective_priority = s.effective_priority
    /\ u.linked \subseteq s.linked

\* The tail of the timer interrupt returns to the interrupted task if its slice
\* is not used up and nothing was woken, otherwise to a task of the highest
\* priority.
LEMMA LeaveIrqEffect ==
    ASSUME NEW s, Steady(s), Pointed(s)
    PROVE  Left(s, LeaveIrq(ChargeTick(s)))
<1> DEFINE c == ChargeTick(s)
           u == [c EXCEPT !.in_irq = FALSE]
           t == s.current
<1>1. Charged(s, c)
  BY ChargeTickEffect
<1> HIDE DEF c
<1>2. IrqStored(c, FALSE, u)
  BY <1>1, StoreIrq DEF Charged
<1>3. LeaveIrq(c) = arch_context_switch(IF u.next = NULL THEN __schedule(u) ELSE u)
  BY DEF LeaveIrq
<1> HIDE DEF u
<1>4. /\ Sound(u)
      /\ u.in_irq = FALSE
      /\ u.state = s.state
      /\ u.priority = s.priority
      /\ u.effective_priority = s.effective_priority
      /\ u.timeslice = [s.timeslice EXCEPT ![t] = @ - 1]
      /\ u.linked = s.linked
      /\ u.current = s.current
      /\ u.next = IF s.timeslice[t] = 1 THEN NULL ELSE s.next
  BY <1>1, <1>2, Zenon DEF Charged, IrqStored
<1>5. Ready(u)
  BY <1>4 DEF Steady, Ready
<1>6. /\ s \in SchedRecord /\ t \in Task /\ s.timeslice \in [Task -> 0..255]
      /\ s.linked \subseteq Task
      /\ u \in SchedRecord
  BY <1>4 DEF Steady, Sound, SchedRecord
<1>7. /\ \A x \in Task : u.timeslice[x] <= TimeSlice
      /\ \A x \in u.linked : x # t => 1 <= u.timeslice[x]
      /\ u.next # NULL => 1 <= u.timeslice[t]
  <2>1. /\ \A x \in Task : s.timeslice[x] <= TimeSlice
        /\ \A x \in s.linked : 1 <= s.timeslice[x]
        /\ t \in s.linked
    BY DEF Steady, Sliced
  <2>2. u.timeslice[t] = s.timeslice[t] - 1 /\ s.timeslice[t] \in 0..255
    BY <1>4, <1>6
  <2>3. \A x \in Task : x # t => u.timeslice[x] = s.timeslice[x]
    BY <1>4, <1>6
  <2>4. \A x \in Task : u.timeslice[x] <= TimeSlice
    <3> SUFFICES ASSUME NEW x \in Task PROVE u.timeslice[x] <= TimeSlice
      OBVIOUS
    <3>1. CASE x = t
      <4>1. s.timeslice[t] <= TimeSlice
        BY <1>6, <2>1, Zenon
      <4>2. \A a \in 0..255 : a <= TimeSlice => a - 1 <= TimeSlice
        BY SchedAssumption
      <4> QED BY <2>2, <3>1, <4>1, <4>2, Zenon
    <3>2. CASE x # t
      BY <2>1, <2>3, <3>2
    <3> QED BY <3>1, <3>2
  <2>5. \A x \in u.linked : x # t => 1 <= u.timeslice[x]
    BY <1>4, <1>6, <2>1, <2>3, Zenon
  <2>6. u.next # NULL => 1 <= u.timeslice[t]
    <3> SUFFICES ASSUME u.next # NULL PROVE 1 <= u.timeslice[t]
      OBVIOUS
    <3>1. s.timeslice[t] # 1 /\ 1 <= s.timeslice[t]
      BY <1>4, <2>1, Zenon
    <3> QED BY <2>2, <3>1
  <2> QED BY <2>4, <2>5, <2>6
<1>8. CASE u.next = NULL
  <2>1. Switched(u, arch_context_switch(__schedule(u)))
    BY <1>4, <1>5, <1>7, SwitchEffect
  <2> QED BY <1>3, <1>4, <1>8, <2>1 DEF Switched, Left, c
<1>9. CASE u.next # NULL
  <2>1. u.next = t /\ (Settled(s) => Highest(s, t))
    BY <1>4, <1>9 DEF Settled, Pointed
  <2>2. arch_context_switch(u) = u
    <3>1. arch_context_switch(u) = [u EXCEPT !.current = u.current]
      BY <1>4, <2>1 DEF arch_context_switch
    <3> QED BY <1>6, <3>1 DEF SchedRecord
  <2>3. Sliced(u)
    BY <1>4, <1>7, <1>9 DEF Sliced
  <2>4. Settled(s) => Highest(u, u.current)
    BY <1>4, <2>1 DEF Highest
  <2> QED BY <1>3, <1>4, <1>5, <1>9, <2>1, <2>2, <2>3, <2>4
          DEF Left, Steady, c
<1> QED BY <1>8, <1>9 DEF c

-----------------------------------------------------------------------------
\* pthread_init() leaves the idle task running, alone on the run queue.
LEMMA InitEffect ==
    /\ Steady(pthread_init)
    /\ Settled(pthread_init)
    /\ pthread_init.in_irq = TRUE
    /\ pthread_init.current = Idle
    /\ \A t \in Thread : pthread_init.state[t] = "NONE"
    /\ \A t \in Task : /\ pthread_init.priority[t] = 0
                       /\ pthread_init.effective_priority[t] = 0
<1> DEFINE Zero == [t \in Task |-> 0]
           z == [t \in Task |-> IF t = Idle THEN "RUNNING" ELSE "NONE"]
           f == [t \in Task |-> IF t = Idle THEN TimeSlice ELSE 0]
           l == [p \in Prio |-> <<>>]
           s == [state |-> z, priority |-> Zero, effective_priority |-> Zero,
                 timeslice |-> f, linked |-> {}, level |-> l, bitmap |-> {},
                 current |-> Idle, next |-> Idle, in_irq |-> TRUE]
           u == run_queue_enqueue(s, Idle, FALSE)
<1>1. pthread_init = u
  BY DEF pthread_init
<1>2. /\ Zero \in [Task -> Prio]
      /\ z \in [Task -> State]
      /\ f \in [Task -> 0..255]
      /\ l \in [Prio -> Seq(Task)]
      /\ Idle \in Task
      /\ \A p \in Prio : l[p] = <<>>
      /\ z[Idle] = "RUNNING"
      /\ \A t \in Thread : z[t] = "NONE"
      /\ \A t \in Task : z[t] = "RUNNING" => t = Idle
      /\ \A t \in Task : f[t] <= TimeSlice
      /\ \A t \in Task : Zero[t] = 0
  BY SchedAssumption DEF Prio, State, Task
<1> HIDE DEF Zero, z, f, l
<1>3. /\ s \in SchedRecord
      /\ s.state = z /\ s.timeslice = f /\ s.linked = {} /\ s.level = l
      /\ s.priority = Zero /\ s.effective_priority = Zero
      /\ s.bitmap = {} /\ s.current = Idle /\ s.next = Idle /\ s.in_irq = TRUE
  BY <1>2 DEF SchedRecord
<1> HIDE DEF s
<1>4. QueuedOnce(s) /\ BitmapExact(s)
  BY <1>2, <1>3 DEF QueuedOnce, BitmapExact
<1>5. Enqueued(s, Idle, FALSE, u) /\ QueuedOnce(u) /\ BitmapExact(u)
  BY <1>2, <1>3, <1>4, EnqueueFields, EnqueueSound
<1> HIDE DEF u
<1>6. /\ u \in SchedRecord
      /\ u.linked = {Idle}
      /\ u.state = z
      /\ u.priority = Zero /\ u.effective_priority = Zero
      /\ u.timeslice = [f EXCEPT ![Idle] = TimeSlice]
      /\ u.current = Idle /\ u.next = Idle /\ u.in_irq = TRUE
  BY <1>3, <1>5 DEF Enqueued
<1>7. Sound(u)
  BY <1>2, <1>5, <1>6 DEF Sound
<1>8. Ready(u)
  BY <1>2, <1>6 DEF Ready
<1>9. Sliced(u)
  BY <1>2, <1>6, SchedAssumption DEF Sliced
<1>10. u.effective_priority[Idle] \in Int
  BY <1>2, <1>6 DEF SchedRecord, Prio
<1>11. Highest(u, Idle)
  BY <1>6, <1>10 DEF Highest
<1> QED BY <1>1, <1>2, <1>6, <1>7, <1>8, <1>9, <1>11 DEF Steady, Settled

-----------------------------------------------------------------------------
(***************************************************************************)
(* The invariant of the scheduler.                                         *)
(***************************************************************************)
\* Where a task is: the idle task in main(), the threads elsewhere.  Until
\* boot has enabled interrupts the idle task is current, inside in_irq.  A
\* slot that is free has no code to run, and the timer only interrupts code
\* that has interrupts enabled.
PlacesOK ==
    /\ pc[Idle] \in {"init", "sti", "halt"}
    /\ \A t \in Thread : pc[t] \notin {"init", "sti", "halt"}
    /\ pc[Idle] = "init" => sched.in_irq /\ Current = Idle
    /\ \A t \in Thread : sched.state[t] = "NONE" => pc[t] = "none"
    /\ sched.in_irq => pc[Current] \notin Masked \ {"init"}

\* What every module that extends Sched keeps, whatever places it adds.  The
\* run queue alone is not enough: that the queue of the lowest bit has an
\* entry needs the idle task to stay queued, and that needs only the current
\* task, which the idle task's code never puts to sleep, to leave the queue;
\* that the slice does not wrap needs every queued task to have a tick left.
KernelInv ==
    /\ Steady(sched)
    /\ Pointed(sched)
    /\ pc = [t \in Task |-> pc[t]]
    /\ timers \subseteq Thread
    /\ PlacesOK
    /\ sched.next = NULL => sched.in_irq \/ pc[Current] = "sti"

\* The inductive invariant of the scheduler.  That the right task runs needs a
\* request for a reschedule to be pending wherever that is not so.
SchedInv ==
    /\ KernelInv
    /\ Settled(sched)
    /\ pc \in [Task -> SchedPc]

\* The current thread is awake, unless it is on its way to sleep.
Awake == pc[Current] \in {"sleep", "timer_add"} \/ sched.state[Current] = "RUNNING"

\* What a step of the scheduler leaves alone.
SchedMove ==
    /\ pc[Current] \notin Masked \ {"init"}
    /\ Settled(sched) => Settled(sched')
    /\ Awake => Awake'
    /\ \A t \in Task : pc'[t] # pc[t] => pc[t] \in SchedPc /\ pc'[t] \in SchedPc \ {"none"}
    /\ \A t \in Thread :
          sched'.state[t] = sched.state[t] \/ sched'.state[t] = "RUNNING"
            \/ (t = Current /\ pc[t] = "user")
    /\ \/ /\ sched'.priority = sched.priority
          /\ sched'.effective_priority = sched.effective_priority
       \/ \E t \in Thread, p \in Prio :
             /\ sched.state[t] = "NONE"
             /\ sched'.priority = [sched.priority EXCEPT ![t] = p]
             /\ sched'.effective_priority = [sched.effective_priority EXCEPT ![t] = p]

-----------------------------------------------------------------------------
\* A step that moves only the current thread, to another place of its own code,
\* and leaves a steady state outside a handler, keeps the invariant.
LEMMA ThreadStep ==
    ASSUME KernelInv, Current \in Thread, pc[Current] # "none",
           sched'.in_irq = FALSE, ~sched.in_irq,
           Steady(sched'), sched'.next = sched'.current,
           \A t \in Thread : sched'.state[t] = "NONE" => sched.state[t] = "NONE",
           NEW label, label \notin {"init", "sti", "halt"}, Goto(label),
           timers' \subseteq Thread
    PROVE  KernelInv'
<1>1. /\ pc = [t \in Task |-> pc[t]]
      /\ Current \in Task /\ Current # Idle
  BY SchedAssumption DEF KernelInv, Task
<1>2. /\ pc' = [t \in Task |-> pc'[t]]
      /\ pc'[Idle] = pc[Idle]
  BY <1>1 DEF Goto, Task
<1>3. \A t \in Thread : pc'[t] = IF t = Current THEN label ELSE pc[t]
  BY <1>1 DEF Goto, Task
<1>4. pc[Idle] \in {"sti", "halt"}
  BY DEF KernelInv, PlacesOK
<1>5. PlacesOK'
  <2>1. \A t \in Thread : pc'[t] \notin {"init", "sti", "halt"}
    BY <1>3 DEF KernelInv, PlacesOK
  <2>2. \A t \in Thread : sched'.state[t] = "NONE" => pc'[t] = "none"
    BY <1>3 DEF KernelInv, PlacesOK
  <2> QED BY <1>2, <1>4, <2>1, <2>2 DEF PlacesOK
<1>6. sched'.next # NULL
  BY SchedAssumption DEF Steady, Sound, SchedRecord, Task
<1> QED BY <1>2, <1>5, <1>6 DEF KernelInv, Pointed

\* A thread that runs outside a handler is the one pthread_next names.
LEMMA ThreadRuns ==
    ASSUME KernelInv, ~sched.in_irq, pc[Current] \notin {"init", "sti", "halt"}
    PROVE  /\ Current \in Thread /\ Current \in Task /\ Current # Idle
           /\ sched.in_irq = FALSE
           /\ sched.next = sched.current /\ sched.next # NULL
<1>1. sched \in SchedRecord /\ Current \in Task
  BY DEF KernelInv, Steady, Sound, SchedRecord, Current
<1>2. Current \in Thread
  BY <1>1 DEF KernelInv, PlacesOK, Task
<1>3. sched.in_irq = FALSE
  BY <1>1 DEF SchedRecord
<1> QED BY <1>1, <1>2, <1>3, SchedAssumption DEF KernelInv, Pointed

\* schedule() outside a handler, from a thread's own code.
LEMMA SwitchStep ==
    ASSUME NEW s, Steady(s), s.in_irq = FALSE, NEW u, u = schedule(s)
    PROVE  /\ Steady(u) /\ Settled(u) /\ Pointed(u)
           /\ u.in_irq = FALSE
           /\ u.next = u.current
           /\ u.state[u.current] = "RUNNING"
           /\ u.state = s.state
           /\ u.priority = s.priority
           /\ u.effective_priority = s.effective_priority
<1>1. Rescheduled(s, u)
  BY RescheduleEffect
<1> QED BY <1>1 DEF Rescheduled, Switched, Pointed

\* The current thread stores a state of its own in which it does not run, and
\* another one, of the highest priority, runs.
LEMMA StopEffect ==
    ASSUME NEW s, Steady(s), s.in_irq = FALSE, s.current # Idle,
           NEW x \in State \ {"RUNNING"}
    PROVE  LET u == schedule([s EXCEPT !.state[s.current] = x])
           IN  /\ Steady(u) /\ Settled(u)
               /\ u.in_irq = FALSE /\ u.next = u.current
               /\ u.state[u.current] = "RUNNING"
               /\ u.state = [s.state EXCEPT ![s.current] = x]
               /\ u.priority = s.priority
               /\ u.effective_priority = s.effective_priority
               /\ u.linked = s.linked \ {s.current}
<1> DEFINE c == s.current
           v == [s EXCEPT !.state[c] = x]
           u == schedule(v)
<1>1. s \in SchedRecord /\ c \in Task /\ s.state \in [Task -> State]
  BY DEF Steady, Sound, SchedRecord
<1>2. StateStored(s, c, x, v)
  BY <1>1, StoreState DEF Steady
<1> HIDE DEF v
<1>3. Steady(v)
  <2>1. Sound(v) /\ v.current \in v.linked
    BY <1>2 DEF StateStored, Steady
  <2>2. Ready(v) /\ Sliced(v)
    BY <1>1, <1>2 DEF StateStored, Steady, Ready, Sliced
  <2> QED BY <2>1, <2>2 DEF Steady
<1>4. v.in_irq = FALSE /\ v.current = c /\ v.linked = s.linked /\ v.state[c] # "RUNNING"
  BY <1>1, <1>2 DEF StateStored
<1>5. /\ Steady(u) /\ Settled(u)
      /\ u.in_irq = FALSE
      /\ u.next = u.current
      /\ u.state[u.current] = "RUNNING"
      /\ u.state = v.state
      /\ u.priority = v.priority
      /\ u.effective_priority = v.effective_priority
  BY <1>3, <1>4, SwitchStep
<1>6. Rescheduled(v, u)
  BY <1>3, RescheduleEffect
<1> HIDE DEF u
<1>7. u.linked = s.linked \ {c}
  BY <1>4, <1>6 DEF Rescheduled, Switched
<1> QED BY <1>2, <1>5, <1>7, Zenon DEF StateStored, u, v

\* The current thread goes to sleep.
LEMMA BlockEffect ==
    ASSUME NEW s, Steady(s), s.in_irq = FALSE, s.current # Idle
    PROVE  LET u == Block(s)
           IN  /\ Steady(u) /\ Settled(u)
               /\ u.in_irq = FALSE /\ u.next = u.current
               /\ u.state[u.current] = "RUNNING"
               /\ u.state = [s.state EXCEPT ![s.current] = "SLEEPING"]
               /\ u.priority = s.priority
               /\ u.effective_priority = s.effective_priority
               /\ u.linked = s.linked \ {s.current}
<1>1. "SLEEPING" \in State \ {"RUNNING"}
  BY DEF State
<1> QED BY <1>1, StopEffect, Zenon DEF Block

\* Boot establishes the invariant.
LEMMA SchedInitInv == SchedInit => SchedInv
<1> SUFFICES ASSUME SchedInit PROVE SchedInv
  OBVIOUS
<1>1. /\ Steady(sched) /\ Settled(sched)
      /\ sched.in_irq = TRUE
      /\ Current = Idle
  BY InitEffect DEF SchedInit, Current
<1>2. pc \in [Task -> SchedPc] /\ pc[Idle] = "init" /\ \A t \in Thread : pc[t] = "none"
  BY SchedAssumption DEF SchedInit, SchedPc, Task
<1>3. pc = [t \in Task |-> pc[t]]
  BY <1>2
<1>4. PlacesOK
  BY <1>1, <1>2 DEF PlacesOK
<1> QED BY <1>1, <1>2, <1>3, <1>4 DEF SchedInv, KernelInv, Pointed, Settled, SchedInit

\* Every step of main(), of the threads and of the timer interrupt keeps the
\* kernel's invariant, in Sched and in every module that extends it.
LEMMA KernelStep ==
    ASSUME KernelInv, SchedNext
    PROVE  KernelInv' /\ SchedMove
<1>1. /\ Steady(sched) /\ Pointed(sched)
      /\ sched \in SchedRecord
      /\ pc = [t \in Task |-> pc[t]]
      /\ timers \subseteq Thread
      /\ Current \in Task /\ Idle \in Task /\ Thread \subseteq Task
      /\ Current = sched.current
      /\ PlacesOK
  BY DEF KernelInv, Steady, Sound, Current, SchedRecord, Task
<1> DEFINE Kept == /\ sched'.priority = sched.priority
                   /\ sched'.effective_priority = sched.effective_priority
<1>2. ASSUME NEW p \in Priorities, BootCreate(p) PROVE KernelInv' /\ SchedMove
  <2> DEFINE t == Min(FreeSlots(sched))
  <2>1. t \in Thread /\ sched.state[t] = "NONE"
    <3>1. FreeSlots(sched) \in SUBSET Nat /\ FreeSlots(sched) # {}
      BY <1>2, SchedAssumption DEF FreeSlots, BootCreate
    <3>2. t \in FreeSlots(sched)
      BY <3>1, MinOfSet
    <3> QED BY <3>2 DEF FreeSlots
  <2> HIDE DEF t
  <2>2. sched.in_irq /\ sched.current = Idle /\ t # Idle /\ pc[t] = "none"
    BY <1>1, <1>2, <2>1, SchedAssumption DEF BootCreate, PlacesOK, Current
  <2>3. t \notin sched.linked
    BY <1>1, <2>1, <2>2 DEF Steady, Ready
  <2> DEFINE i == InitSlot(sched, t, p)
  <2>4. SlotFilled(sched, t, p, i)
    BY <1>1, <2>1, <2>3, InitSlotEffect, PrioritiesAssumption
  <2>5. sched' = wake_up(i, t)
    BY <1>2 DEF BootCreate, t
  <2> HIDE DEF i
  <2>6. PICK r : MadeRunning(i, t, r) /\ Rescheduled(r, sched')
    BY <1>1, <2>1, <2>4, <2>5, WakeUpEffect DEF SlotFilled
  <2>7. /\ Steady(sched') /\ Settled(sched')
        /\ sched'.in_irq
        /\ sched'.current = Idle
        /\ sched'.next = NULL
    BY <2>2, <2>4, <2>6 DEF SlotFilled, MadeRunning, Rescheduled
  <2>8. /\ sched'.state = [sched.state EXCEPT ![t] = "RUNNING"]
        /\ sched'.priority = [sched.priority EXCEPT ![t] = p]
        /\ sched'.effective_priority = [sched.effective_priority EXCEPT ![t] = p]
    BY <2>4, <2>6, Zenon DEF SlotFilled, MadeRunning, Rescheduled
  <2>9. /\ pc' = [pc EXCEPT ![t] = "user"]
        /\ pc[Idle] = "init"
        /\ timers' = timers
    BY <1>2 DEF BootCreate, t
  <2>10. sched.state \in [Task -> State]
    BY <1>1 DEF SchedRecord
  <2>11. \A x \in Thread : sched'.state[x] = IF x = t THEN "RUNNING" ELSE sched.state[x]
    BY <1>1, <2>1, <2>8, <2>10
  <2>12. \A x \in Task : pc'[x] = IF x = t THEN "user" ELSE pc[x]
    BY <1>1, <2>1, <2>9
  <2>13. KernelInv'
    <3>1. pc' = [x \in Task |-> pc'[x]]
      BY <1>1, <2>9
    <3>2. PlacesOK'
      BY <1>1, <2>1, <2>2, <2>7, <2>9, <2>11, <2>12 DEF PlacesOK, Current, Masked
    <3> QED BY <1>1, <2>7, <2>9, <3>1, <3>2 DEF KernelInv, Pointed
  <2>14. SchedMove
    <3>1. p \in Prio
      BY PrioritiesAssumption
    <3>2. pc[Current] = "init"
      BY <1>1, <2>2, <2>9
    <3>3. Awake'
      BY <2>7 DEF Awake, Current, Steady, Sound
    <3> QED BY <2>1, <2>2, <2>7, <2>8, <2>11, <2>12, <3>1, <3>2, <3>3
            DEF SchedMove, SchedPc, Masked
  <2> QED BY <2>13, <2>14
<1>3. CASE BootEnable
  <2>1. IrqStored(sched, FALSE, sched') /\ Steady(sched')
    BY <1>1, <1>3, StoreIrq, StoreIrqSteady DEF BootEnable, Steady
  <2>2. sched.current = Idle /\ sched'.current = Idle /\ pc[Idle] = "init"
    BY <1>1, <1>3, <2>1 DEF BootEnable, PlacesOK, Current, IrqStored
  <2>3. Settled(sched) => Settled(sched')
    BY <2>1 DEF Settled, IrqStored, Highest
  <2>4. /\ pc' = [x \in Task |-> pc'[x]]
        /\ pc'[Idle] = "sti"
        /\ \A x \in Thread : pc'[x] = pc[x]
        /\ timers' = timers
    BY <1>1, <1>3, SchedAssumption DEF BootEnable
  <2>5. sched'.state = sched.state /\ Kept /\ sched'.in_irq = FALSE
    BY <2>1 DEF IrqStored
  <2>6. PlacesOK'
    BY <1>1, <2>2, <2>4, <2>5 DEF PlacesOK
  <2>7. KernelInv'
    BY <1>1, <2>1, <2>2, <2>4, <2>6 DEF KernelInv, Pointed, Current, IrqStored
  <2>8. Awake'
    BY <2>1, <2>2 DEF Awake, Current, Steady, Sound
  <2> QED BY <1>1, <2>2, <2>3, <2>4, <2>5, <2>7, <2>8 DEF SchedMove, SchedPc, Masked, Task
<1>4. CASE BootYield
  <2>1. ~sched.in_irq /\ pc[Current] = "sti" /\ sched.in_irq = FALSE
    BY <1>1, <1>4 DEF BootYield, At, SchedRecord
  <2>2. Current = Idle
    BY <1>1, <2>1 DEF PlacesOK, Task
  <2>3. /\ pc' = [x \in Task |-> pc'[x]]
        /\ pc'[Idle] = "halt"
        /\ \A x \in Thread : pc'[x] = pc[x]
        /\ timers' = timers
    BY <1>1, <1>4, <2>2, SchedAssumption DEF BootYield, Goto
  <2>4. /\ Steady(sched') /\ Settled(sched') /\ Pointed(sched')
        /\ sched'.in_irq = FALSE
        /\ sched'.next = sched'.current
        /\ sched'.state = sched.state
        /\ Kept
        /\ Awake'
    BY <1>1, <1>4, <2>1, SwitchStep DEF BootYield, Awake, Current
  <2>5. sched'.next # NULL
    BY <2>4, SchedAssumption DEF Steady, Sound, SchedRecord, Task
  <2>6. PlacesOK'
    BY <1>1, <2>3, <2>4 DEF PlacesOK
  <2>7. KernelInv'
    BY <1>1, <2>3, <2>4, <2>5, <2>6 DEF KernelInv
  <2> QED BY <1>1, <2>1, <2>2, <2>3, <2>4, <2>7 DEF SchedMove, SchedPc, Masked, Task
<1>5. ASSUME At("user") \/ At("sleep") \/ At("timer_add") \/ At("timer_delete"),
             NEW label \in {"user", "sleep", "timer_add", "timer_delete"}, Goto(label),
             Steady(sched'), sched'.next = sched'.current, sched'.in_irq = FALSE,
             timers' \subseteq Thread, Kept,
             sched'.state = sched.state
               \/ (sched'.state = [sched.state EXCEPT ![Current] = "SLEEPING"] /\ At("user")),
             Settled(sched) => Settled(sched'), Awake => Awake'
      PROVE  KernelInv' /\ SchedMove
  <2>1. ~sched.in_irq /\ pc[Current] \in {"user", "sleep", "timer_add", "timer_delete"}
    BY <1>5 DEF At
  <2>2. Current \in Thread
    BY <2>1, ThreadRuns
  <2>3. sched.state \in [Task -> State]
    BY <1>1 DEF SchedRecord
  <2>4. \A t \in Thread : sched'.state[t] = sched.state[t]
                            \/ (t = Current /\ pc[t] = "user" /\ sched'.state[t] = "SLEEPING")
    BY <1>1, <1>5, <2>2, <2>3 DEF At
  <2>5. KernelInv'
    BY <1>5, <2>1, <2>2, <2>4, ThreadStep
  <2>6. \A t \in Task : pc'[t] # pc[t] => t = Current /\ pc'[t] = label
    BY <1>1, <1>5 DEF Goto
  <2> QED BY <1>5, <2>1, <2>4, <2>5, <2>6 DEF SchedMove, SchedPc, Masked
<1>6. CASE pthread_yield
  <2>1. At("user") /\ ~sched.in_irq /\ pc[Current] = "user"
    BY <1>6 DEF pthread_yield, Calls, At
  <2>2. Goto("user") /\ timers' \subseteq Thread
    BY <1>1, <1>6, <2>1 DEF pthread_yield, Goto
  <2>3. sched.in_irq = FALSE
    BY <2>1, ThreadRuns
  <2>4. Awake'
    BY <1>1, <1>6, <2>3, SwitchStep DEF pthread_yield, Awake, Current
  <2> QED BY <1>1, <1>5, <1>6, <2>1, <2>2, <2>3, <2>4, SwitchStep DEF pthread_yield
<1>7. CASE sleep
  <2>1. At("user") /\ ~sched.in_irq /\ pc[Current] = "user" /\ Goto("sleep")
        /\ timers' = timers
    BY <1>7 DEF sleep, Calls, At
  <2>2. Current # Idle /\ sched.in_irq = FALSE /\ sched.next = sched.current
    BY <2>1, ThreadRuns
  <2>3. StateStored(sched, Current, "SLEEPING", sched')
    BY <1>1, <1>7, <2>2, StoreState DEF sleep, Steady, State
  <2>4. /\ sched'.state = [sched.state EXCEPT ![Current] = "SLEEPING"]
        /\ sched'.linked = sched.linked
        /\ sched'.timeslice = sched.timeslice
        /\ sched'.current = Current
    BY <2>3 DEF StateStored, Current
  <2>5. Ready(sched') /\ Sliced(sched')
    <3>1. sched.state \in [Task -> State]
      BY <1>1 DEF SchedRecord
    <3> QED BY <1>1, <2>4, <3>1 DEF Steady, Ready, Sliced, Current
  <2>6. Steady(sched') /\ (Settled(sched) => Settled(sched'))
    BY <1>1, <2>3, <2>5 DEF Steady, Settled, StateStored, Highest
  <2>7. sched'.in_irq = FALSE /\ sched'.next = sched'.current /\ Kept
    BY <2>2, <2>3 DEF StateStored
  <2>8. Awake'
    BY <1>1, <2>1, <2>4 DEF Awake, Current, Goto
  <2> QED BY <1>1, <1>5, <2>1, <2>4, <2>6, <2>7, <2>8
<1>8. ASSUME timer_add \/ timer_delete PROVE KernelInv' /\ SchedMove
  <2>1. /\ At("sleep") \/ At("timer_delete")
        /\ sched' = sched
        /\ ~sched.in_irq /\ pc[Current] \in {"sleep", "timer_delete"}
    BY <1>8 DEF timer_add, timer_delete, At
  <2>2. Current \in Thread /\ sched.next = sched.current /\ sched.in_irq = FALSE
    BY <2>1, ThreadRuns
  <2>3. /\ \E label \in {"timer_add", "user"} : Goto(label)
        /\ timers' \subseteq Thread
    BY <1>1, <1>8, <2>2 DEF timer_add, timer_delete
  <2>4. Awake => Awake'
    <3>1. CASE timer_add
      BY <1>1, <2>1, <3>1 DEF Awake, Current, timer_add, Goto
    <3>2. CASE timer_delete
      BY <1>1, <2>1, <3>2 DEF Awake, Current, timer_delete, At
    <3> QED BY <1>8, <3>1, <3>2
  <2> QED BY <1>1, <1>5, <2>1, <2>2, <2>3, <2>4
<1>9. CASE sleep_schedule
  <2>1. /\ At("timer_add") /\ ~sched.in_irq /\ pc[Current] = "timer_add"
        /\ Goto("timer_delete") /\ timers' = timers
    BY <1>9 DEF sleep_schedule, At
  <2>2. sched.in_irq = FALSE
    BY <2>1, ThreadRuns
  <2>3. Awake'
    BY <1>1, <1>9, <2>2, SwitchStep DEF sleep_schedule, Awake, Current
  <2> QED BY <1>1, <1>5, <1>9, <2>1, <2>2, <2>3, SwitchStep DEF sleep_schedule
<1>10. CASE IrqEnter
  <2>1. IrqStored(sched, TRUE, sched') /\ Steady(sched')
    BY <1>1, <1>10, StoreIrq, StoreIrqSteady DEF IrqEnter, EnterIrq, Steady
  <2>2. Settled(sched) => Settled(sched')
    BY <2>1 DEF Settled, IrqStored, Highest
  <2>3. /\ pc' = pc /\ timers' = timers /\ pc[Current] \notin Masked
        /\ sched'.current = sched.current /\ sched'.next = sched.next
        /\ sched'.state = sched.state
        /\ sched'.in_irq = TRUE
        /\ Kept
    BY <1>10, <2>1 DEF IrqEnter, IrqStored
  <2>4. PlacesOK'
    BY <1>1, <2>3 DEF PlacesOK, Current
  <2>5. KernelInv'
    BY <1>1, <2>1, <2>3, <2>4 DEF KernelInv, Pointed, Current
  <2>6. Awake => Awake'
    BY <2>3 DEF Awake, Current
  <2> QED BY <2>2, <2>3, <2>5, <2>6 DEF SchedMove
<1>11. ASSUME NEW t \in Thread, sched_timeout(t) PROVE KernelInv' /\ SchedMove
  <2>1. /\ sched.in_irq /\ pc[Idle] # "init"
        /\ sched' = wake_up(sched, t)
        /\ timers' \subseteq Thread /\ pc' = pc
    BY <1>1, <1>11 DEF sched_timeout, InHandler
  <2>2. PICK r : MadeRunning(sched, t, r) /\ Rescheduled(r, sched')
    BY <1>1, <2>1, WakeUpEffect
  <2>3. /\ Steady(sched') /\ Settled(sched') /\ sched'.in_irq
        /\ sched'.next = NULL /\ sched'.current = sched.current
        /\ Kept
    BY <2>1, <2>2 DEF MadeRunning, Rescheduled
  <2>4. \A x \in Thread : sched'.state[x] = sched.state[x] \/ sched'.state[x] = "RUNNING"
    <3>1. sched'.state = [sched.state EXCEPT ![t] = "RUNNING"]
      BY <2>2, Zenon DEF MadeRunning, Rescheduled
    <3>2. sched.state \in [Task -> State]
      BY <1>1 DEF SchedRecord
    <3> QED BY <1>1, <3>1, <3>2
  <2>5. PlacesOK'
    BY <1>1, <2>1, <2>3, <2>4 DEF PlacesOK, Current
  <2>6. KernelInv'
    BY <1>1, <2>1, <2>3, <2>5 DEF KernelInv, Pointed
  <2>7. pc[Current] \notin Masked \ {"init"}
    BY <1>1, <2>1 DEF PlacesOK
  <2>8. Awake => Awake'
    BY <1>1, <2>1, <2>3, <2>4 DEF Awake, Current, Steady, Sound, Task
  <2> QED BY <2>1, <2>3, <2>4, <2>6, <2>7, <2>8 DEF SchedMove
<1>12. CASE IrqLeave
  <2>1. /\ Left(sched, sched') /\ pc' = pc /\ timers' = timers
        /\ sched.in_irq /\ pc[Idle] # "init"
    BY <1>1, <1>12, LeaveIrqEffect DEF IrqLeave, InHandler
  <2>2. /\ Steady(sched') /\ (Settled(sched) => Settled(sched'))
        /\ sched'.next = sched'.current
        /\ sched'.in_irq = FALSE
        /\ sched'.state = sched.state
        /\ Kept
    BY <2>1 DEF Left, Settled
  <2>3. sched'.next # NULL
    BY <2>2, SchedAssumption DEF Steady, Sound, SchedRecord, Task
  <2>4. PlacesOK'
    BY <1>1, <2>1, <2>2 DEF PlacesOK
  <2>5. KernelInv'
    BY <1>1, <2>1, <2>2, <2>3, <2>4 DEF KernelInv, Pointed
  <2>6. pc[Current] \notin Masked \ {"init"}
    BY <1>1, <2>1 DEF PlacesOK
  <2>7. Awake => Awake'
    BY <2>1 DEF Awake, Current, Left
  <2> QED BY <2>1, <2>2, <2>5, <2>6, <2>7 DEF SchedMove
<1> QED BY <1>2, <1>3, <1>4, <1>6, <1>7, <1>8, <1>9, <1>10, <1>11, <1>12
        DEF SchedNext, Boot, Sleeping, Timer

\* Every step keeps the inductive invariant.
LEMMA SchedNextInv == SchedInv /\ [SchedNext]_schedVars => SchedInv'
<1> SUFFICES ASSUME SchedInv, [SchedNext]_schedVars PROVE SchedInv'
  OBVIOUS
<1>1. CASE SchedNext
  <2>1. KernelInv' /\ SchedMove
    BY <1>1, KernelStep DEF SchedInv
  <2>2. pc' = [t \in Task |-> pc'[t]]
    BY <2>1 DEF KernelInv
  <2>3. \A t \in Task : pc'[t] \in SchedPc
    BY <2>1 DEF SchedMove, SchedInv
  <2> QED BY <2>1, <2>2, <2>3 DEF SchedInv, SchedMove
<1>2. CASE UNCHANGED schedVars
  BY <1>2 DEF schedVars, SchedInv, KernelInv, PlacesOK, Current
<1> QED BY <1>1, <1>2

\* The invariant holds in every reachable state.
LEMMA SchedInvariant == SchedSpec => []SchedInv
<1>1. SchedInit => SchedInv
  BY SchedInitInv
<1>2. SchedInv /\ [SchedNext]_schedVars => SchedInv'
  BY SchedNextInv
<1> QED BY <1>1, <1>2, PTL DEF SchedSpec

-----------------------------------------------------------------------------
\* The kernel's invariant holds the properties of the run queue and of the
\* time slices, whatever module it is kept by.
LEMMA KernelProperties ==
    KernelInv => RunQueueOK /\ PeekSafe /\ ReadyIsQueued /\ SliceLeft
<1> SUFFICES ASSUME KernelInv PROVE RunQueueOK /\ PeekSafe /\ ReadyIsQueued /\ SliceLeft
  OBVIOUS
<1>1. Sound(sched) /\ Ready(sched) /\ Sliced(sched) /\ Current \in sched.linked
  BY DEF KernelInv, Steady, Current
<1>2. RunQueueOK
  BY <1>1 DEF Sound, RunQueueOK
<1>3. PeekSafe
  BY <1>1, PeekSound DEF PeekSafe, Sound
<1>4. ReadyIsQueued
  BY <1>1 DEF Ready, ReadyIsQueued, Current
<1>5. SliceLeft
  <2>1. Current \in Task /\ sched.timeslice[Current] \in 0..255
    BY <1>1 DEF Sound, SchedRecord, Current
  <2> QED BY <1>1, <2>1 DEF Sliced, SliceLeft
<1> QED BY <1>2, <1>3, <1>4, <1>5

\* Type correctness: the fields of struct pthread and of run_queue keep values
\* of their types whatever threads, priorities and ticks there are.
THEOREM SchedTypeCorrect == SchedSpec => []SchedTypeOK
<1>1. SchedInv => SchedTypeOK
  BY DEF SchedInv, KernelInv, Steady, Sound, SchedTypeOK
<1> QED BY <1>1, SchedInvariant, PTL

\* run_queue_enqueue() and run_queue_dequeue() keep every linked task on the
\* queue of its effective priority, once, and the bitmap exact.
THEOREM RunQueueCorrect == SchedSpec => []RunQueueOK
<1>1. SchedInv => RunQueueOK
  BY KernelProperties DEF SchedInv
<1> QED BY <1>1, SchedInvariant, PTL

\* The two assertions of run_queue_peek() never fail.
THEOREM PeekCorrect == SchedSpec => []PeekSafe
<1>1. SchedInv => PeekSafe
  BY KernelProperties DEF SchedInv
<1> QED BY <1>1, SchedInvariant, PTL

\* No wake-up is lost: a RUNNING task is queued, and only the current task may
\* be queued without being RUNNING.
THEOREM ReadyCorrect == SchedSpec => []ReadyIsQueued
<1>1. SchedInv => ReadyIsQueued
  BY KernelProperties DEF SchedInv
<1> QED BY <1>1, SchedInvariant, PTL

\* A settled state runs a task of the highest priority.
LEMMA SettledRuns == KernelInv /\ Settled(sched) => HighestRuns
BY DEF KernelInv, Settled, Highest, HighestRuns, Current

\* Priority scheduling: a thread that runs with interrupts enabled has the
\* highest effective priority of all queued tasks.
THEOREM PriorityCorrect == SchedSpec => []HighestRuns
<1>1. SchedInv => HighestRuns
  BY SettledRuns DEF SchedInv
<1> QED BY <1>1, SchedInvariant, PTL

\* The uint8_t time slice never wraps below zero.
THEOREM SliceCorrect == SchedSpec => []SliceLeft
<1>1. SchedInv => SliceLeft
  BY KernelProperties DEF SchedInv
<1> QED BY <1>1, SchedInvariant, PTL

-----------------------------------------------------------------------------
(***************************************************************************)
(* The order of service.                                                   *)
(***************************************************************************)
\* In u a task is behind another one that it was ahead of in s only if it is t.
OnlyBehind(s, u, t) ==
    \A p \in Prio : \A a, b \in Task :
        Before(s.level[p], a, b) /\ Before(u.level[p], b, a) => a = t

\* In u no task is behind another one that it was ahead of in s.
InOrder(s, u) ==
    \A p \in Prio : \A a, b \in Task : ~(Before(s.level[p], a, b) /\ Before(u.level[p], b, a))

\* A queue without repetitions has one order.
LEMMA OneOrder ==
    ASSUME NEW q \in Seq(Task), Distinct(q), NEW a, NEW b, Before(q, a, b)
    PROVE  ~Before(q, b, a)
<1>1. PICK i \in 1..Len(q), j \in 1..Len(q) : i < j /\ q[i] = a /\ q[j] = b
  BY DEF Before
<1> SUFFICES ASSUME Before(q, b, a) PROVE FALSE
  OBVIOUS
<1>2. PICK k \in 1..Len(q), l \in 1..Len(q) : k < l /\ q[k] = b /\ q[l] = a
  BY DEF Before
<1>3. i = l /\ j = k
  BY <1>1, <1>2 DEF Distinct
<1> QED BY <1>1, <1>2, <1>3

\* What TAILQ_INSERT_TAIL() adds comes after the others, which keep their order.
LEMMA TailOrder ==
    ASSUME NEW q \in Seq(Task), NEW e \in Task, NEW a, NEW b,
           Before(TAILQ_INSERT_TAIL(q, e), a, b)
    PROVE  Before(q, a, b) \/ b = e
<1> DEFINE r == TAILQ_INSERT_TAIL(q, e)
<1>1. /\ Len(r) = Len(q) + 1 /\ Len(q) \in Nat
      /\ r[Len(q) + 1] = e
      /\ \A i \in 1..Len(q) : r[i] = q[i]
  BY DEF TAILQ_INSERT_TAIL
<1> HIDE DEF r
<1>2. PICK i \in 1..Len(r), j \in 1..Len(r) : i < j /\ r[i] = a /\ r[j] = b
  BY DEF Before, r
<1>3. CASE j = Len(q) + 1
  BY <1>1, <1>2, <1>3
<1>4. CASE j # Len(q) + 1
  <2>1. i \in 1..Len(q) /\ j \in 1..Len(q)
    BY <1>1, <1>2, <1>4
  <2> QED BY <1>1, <1>2, <2>1 DEF Before
<1> QED BY <1>3, <1>4

\* TAILQ_REMOVE() leaves the others in order.
LEMMA RemoveOrder ==
    ASSUME NEW q \in Seq(Task), NEW e \in Task, InQueue(q, e), NEW a, NEW b,
           Before(TAILQ_REMOVE(q, e), a, b)
    PROVE  Before(q, a, b)
<1> DEFINE r == TAILQ_REMOVE(q, e)
<1>1. Removed(Task, q, e, r)
  BY Remove
<1> HIDE DEF r
<1>2. PICK k \in 1..Len(q) : \A i \in 1..Len(r) : r[i] = q[IF i < k THEN i ELSE i + 1]
  BY <1>1 DEF Removed
<1>3. Len(r) = Len(q) - 1 /\ Len(q) \in Nat
  BY <1>1 DEF Removed
<1>4. PICK i \in 1..Len(r), j \in 1..Len(r) : i < j /\ r[i] = a /\ r[j] = b
  BY DEF Before, r
<1> DEFINE x == IF i < k THEN i ELSE i + 1
           y == IF j < k THEN j ELSE j + 1
<1>5. q[x] = a /\ q[y] = b
  BY <1>2, <1>4
<1>6. x \in 1..Len(q) /\ y \in 1..Len(q) /\ x < y
  BY <1>2, <1>3, <1>4
<1> HIDE DEF x, y
<1> QED BY <1>5, <1>6 DEF Before

\* The queues of a sound state hold no task twice.
LEMMA SoundLevels ==
    ASSUME NEW s \in SchedRecord, QueuedOnce(s), NEW p \in Prio
    PROVE  s.level[p] \in Seq(Task) /\ Distinct(s.level[p])
BY DEF SchedRecord, QueuedOnce, Distinct

\* Where the queues are the same, so is the order.
LEMMA SameOrder ==
    ASSUME NEW s \in SchedRecord, QueuedOnce(s), NEW u, u.level = s.level
    PROVE  InOrder(s, u)
BY SoundLevels, OneOrder DEF InOrder

\* A task that is queued at the tail overtakes nobody.
LEMMA EnqueueOrder ==
    ASSUME NEW s \in SchedRecord, QueuedOnce(s), NEW t \in Task, t \notin s.linked
    PROVE  InOrder(s, run_queue_enqueue(s, t, FALSE))
<1> DEFINE u == run_queue_enqueue(s, t, FALSE)
           r == s.effective_priority[t]
<1>1. Enqueued(s, t, FALSE, u)
  BY EnqueueFields
<1> HIDE DEF u
<1>2. u.level = [s.level EXCEPT ![r] = TAILQ_INSERT_TAIL(s.level[r], t)]
  BY <1>1 DEF Enqueued
<1> SUFFICES ASSUME NEW p \in Prio, NEW a \in Task, NEW b \in Task,
                    Before(s.level[p], a, b), Before(u.level[p], b, a)
             PROVE  FALSE
  BY DEF InOrder, u
<1>3. s.level[p] \in Seq(Task) /\ Distinct(s.level[p])
  BY SoundLevels
<1>4. s.level \in [Prio -> Seq(Task)]
  BY DEF SchedRecord
<1>5. u.level[p] = s.level[p] \/ u.level[p] = TAILQ_INSERT_TAIL(s.level[p], t)
  BY <1>2, <1>4
<1>6. a \in s.linked
  BY DEF QueuedOnce, Before
<1>7. ~Before(s.level[p], b, a)
  BY <1>3, OneOrder
<1>8. a = t
  BY <1>3, <1>5, <1>7, TailOrder
<1> QED BY <1>6, <1>8

\* A task that leaves the queue lets nobody overtake anybody.
LEMMA DequeueOrder ==
    ASSUME NEW s \in SchedRecord, QueuedOnce(s), NEW t \in s.linked,
           NEW p \in Prio, NEW a \in Task, NEW b \in Task,
           Before(run_queue_dequeue(s, t).level[p], a, b)
    PROVE  Before(s.level[p], a, b)
<1> DEFINE u == run_queue_dequeue(s, t)
           r == s.effective_priority[t]
<1>1. Dequeued(s, t, u)
  BY DequeueFields
<1> HIDE DEF u
<1>2. u.level = [s.level EXCEPT ![r] = TAILQ_REMOVE(s.level[r], t)]
  BY <1>1 DEF Dequeued
<1>3. /\ s.level[p] \in Seq(Task) /\ t \in Task
      /\ s.level \in [Prio -> Seq(Task)]
      /\ InQueue(s.level[r], t)
  BY DEF SchedRecord, QueuedOnce
<1>4. CASE p # r
  <2>1. u.level[p] = s.level[p]
    BY <1>2, <1>3, <1>4
  <2> QED BY <2>1 DEF u
<1>5. CASE p = r
  <2>1. u.level[p] = TAILQ_REMOVE(s.level[p], t)
    BY <1>2, <1>3, <1>5
  <2> QED BY <1>3, <1>5, <2>1, RemoveOrder DEF u
<1> QED BY <1>4, <1>5

\* A reschedule puts behind others only a current task that is still running
\* and has used up its slice.
LEMMA ScheduleOrder ==
    ASSUME NEW s, Sound(s), s.current \in s.linked
    PROVE  LET u == arch_context_switch(__schedule(s))
           IN  /\ OnlyBehind(s, u, s.current)
               /\ s.timeslice[s.current] # 0 => InOrder(s, u)
<1> DEFINE t == s.current
           d == run_queue_dequeue(s, t)
           e == run_queue_enqueue(d, t, FALSE)
           u == IF s.state[t] # "RUNNING" THEN d
                ELSE IF s.timeslice[t] = 0 THEN e ELSE s
           v == arch_context_switch([u EXCEPT !.next = run_queue_peek(u)])
<1>1. s \in SchedRecord /\ QueuedOnce(s) /\ t \in Task /\ t \in s.linked
  BY DEF Sound, SchedRecord
<1>2. Dequeued(s, t, d) /\ d \in SchedRecord /\ t \notin d.linked /\ QueuedOnce(d)
  BY <1>1, DequeueFields, DequeueSound DEF Dequeued, Sound
<1>3. Enqueued(d, t, FALSE, e) /\ e \in SchedRecord
  BY <1>1, <1>2, EnqueueFields DEF Enqueued
<1>4. /\ d.level \in [Prio -> Seq(Task)]
      /\ e.level = [d.level EXCEPT ![d.effective_priority[t]] =
                       TAILQ_INSERT_TAIL(d.level[d.effective_priority[t]], t)]
  <2>1. d.level \in [Prio -> Seq(Task)]
    BY <1>2 DEF SchedRecord
  <2> QED BY <1>3, <2>1 DEF Enqueued
<1>5. \A p \in Prio : \A a, b \in Task : Before(d.level[p], b, a) => Before(s.level[p], b, a)
  BY <1>1, DequeueOrder
<1>6. \A p \in Prio : \A a, b \in Task : Before(s.level[p], a, b) => ~Before(s.level[p], b, a)
  BY <1>1, SoundLevels, OneOrder
<1> HIDE DEF d
<1>7. \A p \in Prio : \A a, b \in Task :
          Before(e.level[p], b, a) => Before(d.level[p], b, a) \/ a = t
  <2> SUFFICES ASSUME NEW p \in Prio, NEW a \in Task, NEW b \in Task, Before(e.level[p], b, a)
               PROVE  Before(d.level[p], b, a) \/ a = t
    OBVIOUS
  <2>1. e.level[p] = d.level[p] \/ e.level[p] = TAILQ_INSERT_TAIL(d.level[p], t)
    BY <1>4
  <2>2. d.level[p] \in Seq(Task)
    BY <1>4
  <2> QED BY <1>1, <2>1, <2>2, TailOrder
<1> HIDE DEF e
<1>8. u \in SchedRecord
  BY <1>1, <1>2, <1>3
<1>9. /\ OnlyBehind(s, u, t)
      /\ s.timeslice[t] # 0 => InOrder(s, u)
  <2>1. CASE u = d
    BY <1>5, <1>6, <2>1 DEF OnlyBehind, InOrder
  <2>2. CASE u = s
    BY <1>6, <2>2 DEF OnlyBehind, InOrder
  <2>3. CASE u = e /\ s.timeslice[t] = 0
    BY <1>5, <1>6, <1>7, <2>3 DEF OnlyBehind
  <2> QED BY <2>1, <2>2, <2>3
<1>10. __schedule(s) = [u EXCEPT !.next = run_queue_peek(u)]
  BY DEF __schedule, d, e
<1> HIDE DEF u
<1>11. v.level = u.level
  BY <1>8 DEF SchedRecord, arch_context_switch
<1>12. OnlyBehind(s, v, t) /\ (s.timeslice[t] # 0 => InOrder(s, v))
  BY <1>9, <1>11 DEF OnlyBehind, InOrder
<1> QED BY <1>10, <1>12

\* schedule() outside a handler, where the current task has a tick left.
LEMMA SwitchOrder ==
    ASSUME NEW s, Steady(s), ~s.in_irq
    PROVE  InOrder(s, schedule(s))
<1>1. Sound(s) /\ s.current \in s.linked /\ 1 <= s.timeslice[s.current]
  BY DEF Steady, Sliced
<1>2. s.timeslice[s.current] # 0
  BY <1>1
<1> QED BY <1>1, <1>2, ScheduleOrder DEF schedule

\* wake_up() in a handler puts the task at the tail, if it was not queued.
LEMMA WakeUpOrder ==
    ASSUME NEW s \in SchedRecord, QueuedOnce(s), BitmapExact(s), s.in_irq, NEW t \in Task
    PROVE  InOrder(s, wake_up(s, t))
<1> DEFINE f == [s.state EXCEPT ![t] = "RUNNING"]
           u == [s EXCEPT !.state = f]
           e == run_queue_enqueue(u, t, FALSE)
           r == __pthread_set_running(s, t)
<1>1. f \in [Task -> State]
  BY DEF SchedRecord, State
<1> HIDE DEF f
<1>2. /\ u \in SchedRecord /\ u.level = s.level /\ u.linked = s.linked
      /\ u.effective_priority = s.effective_priority /\ u.in_irq = s.in_irq
      /\ u.bitmap = s.bitmap
  BY <1>1 DEF SchedRecord
<1>3. r = IF t \in s.linked THEN u ELSE e
  BY DEF __pthread_set_running, f
<1> HIDE DEF u, r
<1>4. QueuedOnce(u)
  BY <1>2, SameQueue
<1>5. InOrder(u, r) /\ r \in SchedRecord /\ r.in_irq = s.in_irq
  <2>1. CASE t \in s.linked
    BY <1>2, <1>3, <1>4, <2>1, SameOrder
  <2>2. CASE t \notin s.linked
    <3>1. Enqueued(u, t, FALSE, e)
      BY <1>2, EnqueueFields
    <3>2. InOrder(u, e)
      BY <1>2, <1>4, <2>2, EnqueueOrder
    <3> QED BY <1>2, <1>3, <2>2, <3>1, <3>2 DEF Enqueued
  <2> QED BY <2>1, <2>2
<1>6. wake_up(s, t) = [r EXCEPT !.next = NULL]
  BY <1>5 DEF wake_up, schedule, r
<1>7. [r EXCEPT !.next = NULL].level = r.level
  BY <1>5 DEF SchedRecord
<1> QED BY <1>2, <1>5, <1>6, <1>7 DEF InOrder

\* The end of the timer interrupt puts behind others only a current task whose
\* last tick it charges.
LEMMA LeaveIrqOrder ==
    ASSUME NEW s, Steady(s), Pointed(s)
    PROVE  LET u == LeaveIrq(ChargeTick(s))
           IN  /\ OnlyBehind(s, u, s.current)
               /\ s.timeslice[s.current] # 1 => InOrder(s, u)
<1> DEFINE t == s.current
           left == (s.timeslice[t] + 255) % 256
           n == IF left = 0 THEN NULL ELSE s.next
           f == [s.timeslice EXCEPT ![t] = left]
           c == [s EXCEPT !.timeslice = f, !.next = n]
           u == [c EXCEPT !.in_irq = FALSE]
           v == LeaveIrq(ChargeTick(s))
<1>1. /\ s \in SchedRecord /\ QueuedOnce(s) /\ t \in Task /\ t \in s.linked
      /\ s.timeslice \in [Task -> 0..255] /\ s.level \in [Prio -> Seq(Task)]
  BY DEF Steady, Sound, SchedRecord
<1>2. c = ChargeTick(s)
  BY DEF ChargeTick
<1>3. Charged(s, c)
  BY <1>2, ChargeTickEffect
<1>4. left \in 0..255
  <2>1. 1 <= s.timeslice[t] /\ s.timeslice[t] \in 0..255
    BY <1>1 DEF Steady, Sliced
  <2>2. left = s.timeslice[t] - 1
    BY <2>1
  <2> QED BY <2>1, <2>2
<1>5. n \in Task \cup {NULL} /\ f \in [Task -> 0..255]
  BY <1>1, <1>4 DEF SchedRecord
<1> HIDE DEF left, n, f
<1>6. c.level = s.level /\ c \in SchedRecord
  BY <1>1, <1>5 DEF SchedRecord
<1> HIDE DEF c
<1>7. IrqStored(c, FALSE, u)
  BY <1>3, StoreIrq DEF Charged
<1>8. u.level = s.level /\ u \in SchedRecord
  BY <1>6 DEF SchedRecord
<1>9. v = arch_context_switch(IF u.next = NULL THEN __schedule(u) ELSE u)
  BY <1>2 DEF LeaveIrq
<1> HIDE DEF u, v
<1>10. /\ Sound(u) /\ u.current = t /\ u.linked = s.linked
       /\ u.timeslice = [s.timeslice EXCEPT ![t] = @ - 1]
       /\ u.next = IF s.timeslice[t] = 1 THEN NULL ELSE s.next
  BY <1>3, <1>7, Zenon DEF Charged, IrqStored
<1>11. OnlyBehind(u, v, t) /\ (s.timeslice[t] # 1 => InOrder(u, v))
  <2>1. CASE u.next = NULL
    <3>1. s.timeslice[t] # 1 => u.timeslice[u.current] # 0
      BY <1>1, <1>10
    <3> QED BY <1>1, <1>9, <1>10, <2>1, <3>1, ScheduleOrder
  <2>2. CASE u.next # NULL
    <3>1. v.level = u.level
      BY <1>8, <1>9, <2>2 DEF arch_context_switch, SchedRecord
    <3>2. InOrder(u, v)
      BY <1>8, <1>10, <3>1, SameOrder DEF Sound
    <3> QED BY <3>2 DEF InOrder, OnlyBehind
  <2> QED BY <2>1, <2>2
<1> QED BY <1>8, <1>11 DEF OnlyBehind, InOrder, v

\* What OrderKept says of one step.
InTurn ==
    \A p \in Prio : \A a, b \in Task :
        Before(sched.level[p], a, b) /\ Before(sched'.level[p], b, a)
            => a = Current /\ InHandler /\ sched.timeslice[a] = 1

\* Every step of the scheduler keeps the order of service.
LEMMA OrderStep ==
    ASSUME KernelInv, [SchedNext]_schedVars
    PROVE  InTurn
<1>1. /\ Steady(sched) /\ Pointed(sched)
      /\ sched \in SchedRecord /\ QueuedOnce(sched) /\ BitmapExact(sched)
      /\ Thread \subseteq Task /\ PlacesOK
  BY DEF KernelInv, Steady, Sound, Task
<1>2. ASSUME InOrder(sched, sched') PROVE InTurn
  BY <1>2 DEF InOrder, InTurn
<1>3. ASSUME sched'.level = sched.level PROVE InTurn
  BY <1>1, <1>2, <1>3, SameOrder
<1>4. CASE pthread_yield \/ sleep_schedule \/ BootYield
  <2>1. ~sched.in_irq /\ sched' = schedule(sched)
    BY <1>4 DEF pthread_yield, sleep_schedule, BootYield, Calls, At
  <2> QED BY <1>1, <1>2, <2>1, SwitchOrder
<1>5. CASE BootEnable \/ sleep \/ IrqEnter
  <2>1. sched'.level = sched.level
    BY <1>1, <1>5 DEF BootEnable, sleep, IrqEnter, EnterIrq, SchedRecord
  <2> QED BY <1>3, <2>1
<1>6. CASE timer_add \/ timer_delete \/ UNCHANGED schedVars
  BY <1>3, <1>6 DEF timer_add, timer_delete, schedVars
<1>7. ASSUME NEW t \in Thread, sched_timeout(t) PROVE InTurn
  <2>1. sched.in_irq /\ sched' = wake_up(sched, t)
    BY <1>7 DEF sched_timeout, InHandler
  <2> QED BY <1>1, <1>2, <2>1, WakeUpOrder
<1>8. CASE IrqLeave
  <2>1. InHandler /\ sched' = LeaveIrq(ChargeTick(sched))
    BY <1>8 DEF IrqLeave
  <2>2. /\ OnlyBehind(sched, sched', Current)
        /\ sched.timeslice[Current] # 1 => InOrder(sched, sched')
    BY <1>1, <2>1, LeaveIrqOrder DEF Current
  <2>3. CASE sched.timeslice[Current] = 1
    BY <2>1, <2>2, <2>3 DEF OnlyBehind, InTurn
  <2> QED BY <1>2, <2>2, <2>3
<1>9. ASSUME NEW p \in Priorities, BootCreate(p) PROVE InTurn
  <2> DEFINE t == Min(FreeSlots(sched))
             i == InitSlot(sched, t, p)
  <2>1. t \in Thread /\ sched.state[t] = "NONE"
    <3>1. FreeSlots(sched) \in SUBSET Nat /\ FreeSlots(sched) # {}
      BY <1>9, SchedAssumption DEF BootCreate, FreeSlots
    <3>2. t \in FreeSlots(sched)
      BY <3>1, MinOfSet
    <3> QED BY <3>2 DEF FreeSlots
  <2>2. sched' = wake_up(i, t) /\ pc[Idle] = "init"
    BY <1>9 DEF BootCreate
  <2> HIDE DEF t
  <2>3. sched.in_irq /\ t \in Task /\ p \in Prio
    BY <1>1, <2>1, <2>2, PrioritiesAssumption DEF PlacesOK
  <2>4. t \notin sched.linked
    <3>1. t # Current
      BY <2>1, <2>2, <1>1, SchedAssumption DEF PlacesOK
    <3> QED BY <1>1, <2>1, <2>3, <3>1 DEF Steady, Ready, Current
  <2>5. SlotFilled(sched, t, p, i)
    BY <1>1, <2>3, <2>4, InitSlotEffect
  <2>6. i.level = sched.level
    BY <1>1 DEF InitSlot, SchedRecord
  <2> HIDE DEF i
  <2>7. i \in SchedRecord /\ QueuedOnce(i) /\ BitmapExact(i) /\ i.in_irq
    BY <2>3, <2>5 DEF SlotFilled, Steady, Sound
  <2>8. InOrder(i, sched')
    BY <2>2, <2>3, <2>7, WakeUpOrder
  <2>9. InOrder(sched, sched')
    BY <2>6, <2>8 DEF InOrder
  <2> QED BY <1>2, <2>9
<1> QED BY <1>4, <1>5, <1>6, <1>7, <1>8, <1>9 DEF SchedNext, Boot, Sleeping, Timer

\* Within a priority a task falls behind another one only as the current task,
\* at the tick that uses up its slice: yield(), sleep(), wake-ups and the
\* preemption by a higher priority never cost it its turn.
THEOREM OrderKeptCorrect == SchedSpec => OrderKept
<1>1. SchedInv /\ [SchedNext]_schedVars => InTurn
  BY OrderStep DEF SchedInv
<1>2. [InTurn]_schedVars <=> [\A p \in Prio : \A a, b \in Task :
          Before(sched.level[p], a, b) /\ Before(sched'.level[p], b, a)
              => a = Current /\ InHandler /\ sched.timeslice[a] = 1]_schedVars
  BY DEF InTurn
<1> QED BY <1>1, <1>2, SchedInvariant, PTL DEF SchedSpec, OrderKept
=============================================================================
