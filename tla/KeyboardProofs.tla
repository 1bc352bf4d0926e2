--------------------------- MODULE KeyboardProofs ---------------------------
(***************************************************************************)
(* Proofs about the keyboard driver, for every number of threads, set of   *)
(* keys and size of the buffer: a reader is never left asleep with data in *)
(* the buffer, the modifier bits are those of the keys held down, and the  *)
(* circular buffer implements the input of InputSpec.                      *)
(***************************************************************************)
EXTENDS Keyboard, SchedProofs, SequenceTheorems

-----------------------------------------------------------------------------
(***************************************************************************)
(* The handler on the scheduler's state.                                   *)
(***************************************************************************)
\* The end of an interrupt that does not charge the time slice.
LEMMA EpilogueEffect ==
    ASSUME NEW s, Steady(s), Pointed(s)
    PROVE  Left(s, LeaveIrq(s))
<1> DEFINE u == [s EXCEPT !.in_irq = FALSE]
           v == LeaveIrq(s)
<1>1. IrqStored(s, FALSE, u) /\ Steady(u)
  BY StoreIrq, StoreIrqSteady DEF Steady
<1>2. v = arch_context_switch(IF u.next = NULL THEN __schedule(u) ELSE u)
  BY DEF LeaveIrq
<1> HIDE DEF u, v
<1>3. /\ u.next = s.next /\ u.current = s.current /\ u.state = s.state
      /\ u.linked = s.linked /\ u.in_irq = FALSE
      /\ u.priority = s.priority /\ u.effective_priority = s.effective_priority
  BY <1>1 DEF IrqStored
<1>4. CASE s.next = NULL
  <2>1. v = arch_context_switch(__schedule(u))
    BY <1>2, <1>3, <1>4
  <2>2. Switched(u, v)
    BY <1>1, <2>1, SwitchEffect DEF Steady, Sliced
  <2> QED BY <1>3, <2>2 DEF Switched, Left, v
<1>5. CASE s.next # NULL
  <2>1. v = [u EXCEPT !.current = u.next] /\ u.next = u.current
    BY <1>2, <1>3, <1>5 DEF arch_context_switch, Pointed
  <2>2. u \in SchedRecord
    BY <1>1 DEF Steady, Sound
  <2>3. v = u
    BY <2>1, <2>2 DEF SchedRecord
  <2>4. Settled(s) => Highest(u, u.current)
    BY <1>3, <1>5 DEF Settled, Highest
  <2> QED BY <1>1, <1>3, <2>1, <2>3, <2>4 DEF Left, v
<1> QED BY <1>4, <1>5

\* A whole interrupt of the keyboard: the kernel's invariant is kept, the state
\* of the threads is the same but for the one it wakes.
LEMMA HandlerStep ==
    ASSUME KernelInv, ~sched.in_irq, NEW w \in Thread \cup {NULL},
           sched' = LeaveIrq(IF w # NULL THEN wake_up(EnterIrq(sched), w) ELSE EnterIrq(sched)),
           UNCHANGED <<pc, timers>>
    PROVE  /\ KernelInv'
           /\ \A t \in Thread : sched'.state[t] = IF t = w THEN "RUNNING" ELSE sched.state[t]
<1> DEFINE e == EnterIrq(sched)
           a == IF w # NULL THEN wake_up(e, w) ELSE e
<1>1. sched \in SchedRecord /\ Steady(sched) /\ Pointed(sched)
  BY DEF KernelInv, Steady, Sound
<1>2. IrqStored(sched, TRUE, e) /\ Steady(e)
  BY <1>1, StoreIrq, StoreIrqSteady DEF EnterIrq, Steady
<1> HIDE DEF e
<1>3. Steady(a) /\ Pointed(a)
      /\ \A t \in Thread : a.state[t] = IF t = w THEN "RUNNING" ELSE sched.state[t]
  <2>1. CASE w = NULL
    BY <1>1, <1>2, <2>1, SchedAssumption DEF IrqStored, Pointed
  <2>2. CASE w # NULL
    <3>1. w \in Task /\ Thread \subseteq Task
      BY <2>2 DEF Task
    <3>2. PICK r : MadeRunning(e, w, r) /\ Rescheduled(r, wake_up(e, w))
      BY <1>2, <3>1, WakeUpEffect
    <3>3. a = wake_up(e, w)
      BY <2>2
    <3>4. Steady(a) /\ a.state = r.state
      BY <3>2, <3>3 DEF Rescheduled
    <3>5. r.in_irq = TRUE
      BY <1>2, <3>2 DEF MadeRunning, IrqStored
    <3>6. Pointed(a)
      BY <3>2, <3>3, <3>5 DEF Rescheduled, Pointed
    <3>7. r.state = [sched.state EXCEPT ![w] = "RUNNING"]
      BY <1>2, <3>2, Zenon DEF MadeRunning, IrqStored
    <3>8. sched.state \in [Task -> State]
      BY <1>1 DEF SchedRecord
    <3> QED BY <3>1, <3>4, <3>6, <3>7, <3>8
  <2> QED BY <2>1, <2>2
<1> HIDE DEF a
<1>4. Left(a, sched')
  BY <1>3, EpilogueEffect DEF a, e
<1>5. /\ Steady(sched') /\ sched'.next = sched'.current /\ sched'.in_irq = FALSE
      /\ sched'.state = a.state
  BY <1>4 DEF Left
<1>6. sched'.next # NULL
  BY <1>5, SchedAssumption DEF Steady, Sound, SchedRecord, Task
<1>7. PlacesOK'
  BY <1>3, <1>5 DEF KernelInv, PlacesOK
<1> QED BY <1>3, <1>5, <1>6, <1>7 DEF KernelInv, Pointed

-----------------------------------------------------------------------------
(***************************************************************************)
(* The inductive invariant.                                                *)
(***************************************************************************)
\* A thread waits in getchar() only as the one reader, and is RUNNING there
\* unless it is registered and there is nothing to read.
Waiting ==
    /\ waiter \in Readers \cup {NULL}
    /\ \A t \in Thread : pc[t] = "getchar" => t \in Readers
    /\ \A t \in Readers :
          pc[t] = "getchar" /\ sched.state[t] # "RUNNING" => cb.len = 0 /\ waiter = t

\* The modifiers once key k has been pressed or released.
Applied(set, k, up) ==
    IF k \in Modifiers THEN IF up THEN set \ {k} ELSE set \cup {k} ELSE set

\* The codes are all that is left of the codes of key k.
KeyLine(k, up) ==
    /\ down = Applied(key, k, up)
    /\ \/ line = <<Code(k, up)>> /\ esc = IF k \in Extended THEN "e0" ELSE "none"
       \/ k \in Extended /\ line = <<Code("e0", FALSE), Code(k, up)>> /\ esc = "none"

\* What is left of the codes of Pause: the left control key that it pretends to
\* press is the right one for the driver, because of the prefix, and must not
\* be down.
NoCtrl == {"l_ctrl", "r_ctrl"} \cap down = {}

PauseLine ==
    \/ /\ NoCtrl
       /\ \/ /\ key = down /\ esc = "none"
             /\ line = <<Code("e1", FALSE), Code("l_ctrl", FALSE), Code("num_lock", FALSE),
                         Code("e1", FALSE), Code("l_ctrl", TRUE), Code("num_lock", TRUE)>>
          \/ /\ key = down /\ esc = "e1"
             /\ line = <<Code("l_ctrl", FALSE), Code("num_lock", FALSE),
                         Code("e1", FALSE), Code("l_ctrl", TRUE), Code("num_lock", TRUE)>>
          \/ /\ key = down \cup {"r_ctrl"} /\ esc = "none"
             /\ line = <<Code("num_lock", FALSE),
                         Code("e1", FALSE), Code("l_ctrl", TRUE), Code("num_lock", TRUE)>>
          \/ /\ key = down \cup {"r_ctrl"} /\ esc = "none"
             /\ line = <<Code("e1", FALSE), Code("l_ctrl", TRUE), Code("num_lock", TRUE)>>
          \/ /\ key = down \cup {"r_ctrl"} /\ esc = "e1"
             /\ line = <<Code("l_ctrl", TRUE), Code("num_lock", TRUE)>>
    \/ /\ key = down
       /\ \/ esc = "none" /\ line = <<Code("e0", FALSE), Code("scroll_lock", FALSE),
                                      Code("e0", FALSE), Code("scroll_lock", TRUE)>>
          \/ esc = "e0" /\ line = <<Code("scroll_lock", FALSE),
                                    Code("e0", FALSE), Code("scroll_lock", TRUE)>>
          \/ esc = "none" /\ line = <<Code("e0", FALSE), Code("scroll_lock", TRUE)>>
          \/ esc = "e0" /\ line = <<Code("scroll_lock", TRUE)>>

LineInv ==
    /\ down \in SUBSET Modifiers
    /\ \/ line = <<>> /\ key = down /\ esc = "none"
       \/ \E k \in AllKeys \ {"pause"}, up \in BOOLEAN : KeyLine(k, up)
       \/ PauseLine

KeyboardInv == KernelInv /\ Waiting /\ LineInv

-----------------------------------------------------------------------------
(***************************************************************************)
(* The scan codes.                                                         *)
(***************************************************************************)
\* A code is of one key, pressed or released.
LEMMA CodeFields ==
    ASSUME NEW a, NEW b, NEW c, NEW d, Code(a, b) = Code(c, d)
    PROVE  a = c /\ b = d
BY DEF Code

\* The first code of a line and the rest of it.
LEMMA HeadTail ==
    ASSUME NEW a, NEW b, NEW c, NEW d, NEW e, NEW f
    PROVE  /\ Head(<<a>>) = a /\ Tail(<<a>>) = <<>>
           /\ Head(<<a, b>>) = a /\ Tail(<<a, b>>) = <<b>>
           /\ Head(<<a, b, c>>) = a /\ Tail(<<a, b, c>>) = <<b, c>>
           /\ Head(<<a, b, c, d>>) = a /\ Tail(<<a, b, c, d>>) = <<b, c, d>>
           /\ Head(<<a, b, c, d, e>>) = a /\ Tail(<<a, b, c, d, e>>) = <<b, c, d, e>>
           /\ Head(<<a, b, c, d, e, f>>) = a /\ Tail(<<a, b, c, d, e, f>>) = <<b, c, d, e, f>>
OBVIOUS

\* Pressing or releasing a key, when the codes of the last one have been read.
LEMMA PressLine ==
    ASSUME LineInv, NEW k \in AllKeys, NEW up \in BOOLEAN, press(k, up)
    PROVE  LineInv'
<1>1. /\ line = <<>> /\ key' = key /\ esc' = esc
      /\ down' = IF up THEN down \ {k} ELSE down \cup ({k} \cap Modifiers)
      /\ line' = CASE k = "pause" -> IF up THEN <<>> ELSE PauseCodes
                   [] k \in Extended -> <<Code("e0", FALSE), Code(k, up)>>
                   [] OTHER -> <<Code(k, up)>>
  BY DEF press
<1>2. key = down /\ esc = "none" /\ down \in SUBSET Modifiers
  BY <1>1 DEF LineInv, KeyLine, PauseLine
<1>3. down' \in SUBSET Modifiers
  BY <1>1, <1>2
<1>4. down' = Applied(key, k, up)
  BY <1>1, <1>2 DEF Applied
<1>5. CASE k = "pause"
  <2>1. "pause" \notin Modifiers /\ "pause" \notin Extended
    BY DEF Modifiers, Extended
  <2>2. down' = down
    BY <1>1, <1>2, <1>5, <2>1
  <2>3. CASE up
    <3>1. line' = <<>>
      BY <1>1, <1>5, <2>1, <2>3
    <3> QED BY <1>1, <1>2, <1>3, <2>2, <3>1 DEF LineInv
  <2>4. CASE ~up
    <3>1. line' = PauseCodes
      BY <1>1, <1>5, <2>1, <2>4
    <3>2. PauseLine'
      <4>1. CASE {"l_ctrl", "r_ctrl"} \cap down = {}
        BY <1>1, <1>2, <2>2, <3>1, <4>1 DEF PauseLine, PauseCodes, NoCtrl
      <4>2. CASE {"l_ctrl", "r_ctrl"} \cap down # {}
        BY <1>1, <1>2, <2>2, <3>1, <4>2 DEF PauseLine, PauseCodes
      <4> QED BY <4>1, <4>2
    <3> QED BY <1>3, <3>2 DEF LineInv
  <2> QED BY <2>3, <2>4
<1>6. CASE k # "pause"
  <2>1. line' = IF k \in Extended THEN <<Code("e0", FALSE), Code(k, up)>> ELSE <<Code(k, up)>>
    BY <1>1, <1>6
  <2>2. KeyLine(k, up)'
    BY <1>1, <1>2, <1>4, <2>1 DEF KeyLine
  <2> QED BY <1>3, <1>6, <2>2 DEF LineInv
<1> QED BY <1>5, <1>6

\* A prefix is read: the codes behind it are of an extended key or of Pause.
LEMMA PrefixLine ==
    ASSUME LineInv, NEW p \in {"e0", "e1"}, handle_prefix(p)
    PROVE  LineInv'
<1>1. /\ line # <<>> /\ Head(line) = Code(p, FALSE) /\ line' = Tail(line) /\ esc' = p
      /\ key' = key /\ down' = down
  BY DEF handle_prefix, Interrupts
<1>2. p \notin AllKeys
  BY DEF AllKeys, Modifiers, Locks, Extended
<1>3. CASE \E k \in AllKeys \ {"pause"}, up \in BOOLEAN : KeyLine(k, up)
  <2>1. PICK k \in AllKeys \ {"pause"}, up \in BOOLEAN : KeyLine(k, up)
    BY <1>3
  <2>2. line # <<Code(k, up)>>
    <3> SUFFICES ASSUME line = <<Code(k, up)>> PROVE FALSE
      OBVIOUS
    <3>1. Code(k, up) = Code(p, FALSE)
      BY <1>1
    <3> QED BY <1>2, <3>1, CodeFields
  <2>3. k \in Extended /\ line = <<Code("e0", FALSE), Code(k, up)>> /\ down = Applied(key, k, up)
    BY <2>1, <2>2 DEF KeyLine
  <2>4. Code("e0", FALSE) = Code(p, FALSE) /\ line' = <<Code(k, up)>>
    BY <1>1, <2>3, HeadTail, Zenon
  <2>5. p = "e0"
    BY <2>4, CodeFields
  <2>6. KeyLine(k, up)'
    BY <1>1, <2>3, <2>4, <2>5 DEF KeyLine
  <2> QED BY <1>1, <2>6 DEF LineInv
<1>4. CASE PauseLine
  <2> DEFINE A == Code("e1", FALSE)
             B == Code("l_ctrl", FALSE)
             C == Code("num_lock", FALSE)
             D == Code("l_ctrl", TRUE)
             E == Code("num_lock", TRUE)
             F == Code("e0", FALSE)
             G == Code("scroll_lock", FALSE)
             H == Code("scroll_lock", TRUE)
  <2>1. /\ Code(p, FALSE) \notin {B, C, D, E, G, H}
        /\ Code(p, FALSE) = A => p = "e1"
        /\ Code(p, FALSE) = F => p = "e0"
    BY <1>2, CodeFields DEF AllKeys, Modifiers, Locks
  <2>2. \/ NoCtrl /\ key = down /\ line = <<A, B, C, A, D, E>>
        \/ NoCtrl /\ key = down /\ line = <<B, C, A, D, E>>
        \/ NoCtrl /\ key = down \cup {"r_ctrl"} /\ line = <<C, A, D, E>>
        \/ NoCtrl /\ key = down \cup {"r_ctrl"} /\ line = <<A, D, E>>
        \/ NoCtrl /\ key = down \cup {"r_ctrl"} /\ line = <<D, E>>
        \/ key = down /\ line = <<F, G, F, H>>
        \/ key = down /\ line = <<G, F, H>>
        \/ key = down /\ line = <<F, H>>
        \/ key = down /\ line = <<H>>
    BY <1>4 DEF PauseLine
  <2> HIDE DEF A, B, C, D, E, F, G, H
  <2>3. \/ NoCtrl /\ key = down /\ line' = <<B, C, A, D, E>> /\ p = "e1"
        \/ NoCtrl /\ key = down \cup {"r_ctrl"} /\ line' = <<D, E>> /\ p = "e1"
        \/ key = down /\ line' = <<G, F, H>> /\ p = "e0"
        \/ key = down /\ line' = <<H>> /\ p = "e0"
    <3>1. line = <<A, B, C, A, D, E>> => Head(line) = A /\ Tail(line) = <<B, C, A, D, E>>
      BY HeadTail
    <3>2. line = <<B, C, A, D, E>> => Head(line) = B /\ Tail(line) = <<C, A, D, E>>
      BY HeadTail
    <3>3. line = <<C, A, D, E>> => Head(line) = C /\ Tail(line) = <<A, D, E>>
      BY HeadTail
    <3>4. line = <<A, D, E>> => Head(line) = A /\ Tail(line) = <<D, E>>
      BY HeadTail
    <3>5. line = <<D, E>> => Head(line) = D /\ Tail(line) = <<E>>
      BY HeadTail
    <3>6. line = <<F, G, F, H>> => Head(line) = F /\ Tail(line) = <<G, F, H>>
      BY HeadTail
    <3>7. line = <<G, F, H>> => Head(line) = G /\ Tail(line) = <<F, H>>
      BY HeadTail
    <3>8. line = <<F, H>> => Head(line) = F /\ Tail(line) = <<H>>
      BY HeadTail
    <3>9. line = <<H>> => Head(line) = H /\ Tail(line) = <<>>
      BY HeadTail
    <3> QED BY <1>1, <2>1, <2>2, <3>1, <3>2, <3>3, <3>4, <3>5, <3>6, <3>7, <3>8, <3>9, Zenon
  <2>4. NoCtrl => NoCtrl'
    BY <1>1 DEF NoCtrl
  <2>5. PauseLine'
    BY <1>1, <2>3, <2>4 DEF PauseLine, A, B, C, D, E, F, G, H
  <2> QED BY <1>1, <2>5 DEF LineInv
<1> QED BY <1>1, <1>3, <1>4 DEF LineInv

\* The code of a key is read.
LEMMA KeyCodeLine ==
    ASSUME LineInv, NEW k \in AllKeys, NEW up \in BOOLEAN, keyboard_handler(k, up)
    PROVE  LineInv'
<1>1. /\ line # <<>> /\ Head(line) = Code(k, up) /\ line' = Tail(line) /\ esc' = "none"
      /\ key' = (IF k \in Modifiers
                 THEN IF up THEN key \ {KeyBit(k)} ELSE key \cup {KeyBit(k)}
                 ELSE key)
      /\ down' = down
  BY DEF keyboard_handler, Interrupts
<1>2. "e0" \notin AllKeys /\ "e1" \notin AllKeys
  BY DEF AllKeys, Modifiers, Locks, Extended
<1>3. CASE \E c \in AllKeys \ {"pause"}, b \in BOOLEAN : KeyLine(c, b)
  <2>1. PICK c \in AllKeys \ {"pause"}, b \in BOOLEAN : KeyLine(c, b)
    BY <1>3
  <2>2. line # <<Code("e0", FALSE), Code(c, b)>>
    <3> SUFFICES ASSUME line = <<Code("e0", FALSE), Code(c, b)>> PROVE FALSE
      OBVIOUS
    <3>1. Code("e0", FALSE) = Code(k, up)
      BY <1>1, HeadTail, Zenon
    <3> QED BY <1>2, <3>1, CodeFields
  <2>3. /\ line = <<Code(c, b)>> /\ down = Applied(key, c, b)
        /\ esc = IF c \in Extended THEN "e0" ELSE "none"
    BY <2>1, <2>2 DEF KeyLine
  <2>4. Code(c, b) = Code(k, up) /\ line' = <<>>
    BY <1>1, <2>3
  <2>5. c = k /\ b = up
    BY <2>4, CodeFields
  <2>6. k \in Modifiers => KeyBit(k) = k
    BY <2>3, <2>5 DEF KeyBit, Modifiers, Extended
  <2>7. key' = down
    BY <1>1, <2>3, <2>5, <2>6 DEF Applied
  <2> QED BY <1>1, <2>4, <2>7 DEF LineInv
<1>4. CASE PauseLine
  <2> DEFINE A == Code("e1", FALSE)
             B == Code("l_ctrl", FALSE)
             C == Code("num_lock", FALSE)
             D == Code("l_ctrl", TRUE)
             E == Code("num_lock", TRUE)
             F == Code("e0", FALSE)
             G == Code("scroll_lock", FALSE)
             H == Code("scroll_lock", TRUE)
  <2>1. /\ Code(k, up) # A /\ Code(k, up) # F
        /\ Code(k, up) = B => k = "l_ctrl" /\ up = FALSE
        /\ Code(k, up) = C => k = "num_lock"
        /\ Code(k, up) = D => k = "l_ctrl" /\ up = TRUE
        /\ Code(k, up) = G => k = "scroll_lock"
        /\ Code(k, up) = H => k = "scroll_lock"
    <3>1. \A c, b : Code(k, up) = Code(c, b) => k = c /\ up = b
      BY CodeFields
    <3>2. k # "e0" /\ k # "e1"
      BY <1>2
    <3> QED BY <3>1, <3>2, Zenon
  <2>2. \/ NoCtrl /\ key = down /\ line = <<A, B, C, A, D, E>>
        \/ NoCtrl /\ key = down /\ line = <<B, C, A, D, E>> /\ esc = "e1"
        \/ NoCtrl /\ key = down \cup {"r_ctrl"} /\ line = <<C, A, D, E>>
        \/ NoCtrl /\ key = down \cup {"r_ctrl"} /\ line = <<A, D, E>>
        \/ NoCtrl /\ key = down \cup {"r_ctrl"} /\ line = <<D, E>> /\ esc = "e1"
        \/ key = down /\ line = <<F, G, F, H>>
        \/ key = down /\ line = <<G, F, H>>
        \/ key = down /\ line = <<F, H>>
        \/ key = down /\ line = <<H>>
    BY <1>4 DEF PauseLine
  <2> HIDE DEF A, B, C, D, E, F, G, H
  <2>3. \/ NoCtrl /\ key = down /\ line' = <<C, A, D, E>> /\ k = "l_ctrl" /\ up = FALSE /\ esc = "e1"
        \/ NoCtrl /\ key = down \cup {"r_ctrl"} /\ line' = <<A, D, E>> /\ k = "num_lock"
        \/ NoCtrl /\ key = down \cup {"r_ctrl"} /\ line' = <<E>> /\ k = "l_ctrl" /\ up = TRUE /\ esc = "e1"
        \/ key = down /\ line' = <<F, H>> /\ k = "scroll_lock"
        \/ key = down /\ line' = <<>> /\ k = "scroll_lock"
    <3>1. line = <<A, B, C, A, D, E>> => Head(line) = A /\ Tail(line) = <<B, C, A, D, E>>
      BY HeadTail
    <3>2. line = <<B, C, A, D, E>> => Head(line) = B /\ Tail(line) = <<C, A, D, E>>
      BY HeadTail
    <3>3. line = <<C, A, D, E>> => Head(line) = C /\ Tail(line) = <<A, D, E>>
      BY HeadTail
    <3>4. line = <<A, D, E>> => Head(line) = A /\ Tail(line) = <<D, E>>
      BY HeadTail
    <3>5. line = <<D, E>> => Head(line) = D /\ Tail(line) = <<E>>
      BY HeadTail
    <3>6. line = <<F, G, F, H>> => Head(line) = F /\ Tail(line) = <<G, F, H>>
      BY HeadTail
    <3>7. line = <<G, F, H>> => Head(line) = G /\ Tail(line) = <<F, H>>
      BY HeadTail
    <3>8. line = <<F, H>> => Head(line) = F /\ Tail(line) = <<H>>
      BY HeadTail
    <3>9. line = <<H>> => Head(line) = H /\ Tail(line) = <<>>
      BY HeadTail
    <3> QED BY <1>1, <2>1, <2>2, <3>1, <3>2, <3>3, <3>4, <3>5, <3>6, <3>7, <3>8, <3>9, Zenon
  <2>4. "l_ctrl" \in Modifiers /\ "num_lock" \notin Modifiers /\ "scroll_lock" \notin Modifiers
        /\ (esc = "e1" => KeyBit("l_ctrl") = "r_ctrl")
    BY DEF Modifiers, KeyBit
  <2>5. NoCtrl => NoCtrl' /\ "r_ctrl" \notin down
    BY <1>1 DEF NoCtrl
  <2>6. CASE NoCtrl /\ key = down /\ line' = <<C, A, D, E>> /\ k = "l_ctrl" /\ up = FALSE /\ esc = "e1"
    <3>1. key' = down \cup {"r_ctrl"}
      BY <1>1, <2>4, <2>6
    <3> QED BY <1>1, <2>5, <2>6, <3>1 DEF LineInv, PauseLine, A, C, D, E
  <2>7. CASE NoCtrl /\ key = down \cup {"r_ctrl"} /\ line' = <<A, D, E>> /\ k = "num_lock"
    <3>1. key' = down \cup {"r_ctrl"}
      BY <1>1, <2>4, <2>7
    <3> QED BY <1>1, <2>5, <2>7, <3>1 DEF LineInv, PauseLine, A, D, E
  <2>8. CASE NoCtrl /\ key = down \cup {"r_ctrl"} /\ line' = <<E>> /\ k = "l_ctrl" /\ up = TRUE /\ esc = "e1"
    <3>1. key' = down
      BY <1>1, <2>4, <2>5, <2>8
    <3>2. KeyLine("num_lock", TRUE)'
      BY <1>1, <2>4, <2>8, <3>1 DEF KeyLine, Applied, Extended, E
    <3>3. "num_lock" \in AllKeys \ {"pause"} /\ TRUE \in BOOLEAN
      BY DEF AllKeys, Locks
    <3> QED BY <1>1, <3>2, <3>3 DEF LineInv
  <2>9. CASE key = down /\ line' = <<F, H>> /\ k = "scroll_lock"
    <3>1. key' = down
      BY <1>1, <2>4, <2>9
    <3> QED BY <1>1, <2>9, <3>1 DEF LineInv, PauseLine, F, H
  <2>10. CASE key = down /\ line' = <<>> /\ k = "scroll_lock"
    <3>1. key' = down
      BY <1>1, <2>4, <2>10
    <3> QED BY <1>1, <2>10, <3>1 DEF LineInv
  <2> QED BY <2>3, <2>6, <2>7, <2>8, <2>9, <2>10
<1> QED BY <1>1, <1>3, <1>4 DEF LineInv

-----------------------------------------------------------------------------
(***************************************************************************)
(* The reader.                                                             *)
(***************************************************************************)
\* Steps of the scheduler wake threads, and put none to sleep in getchar().
LEMMA SchedWaiting ==
    ASSUME KernelInv, Waiting, SchedNext, UNCHANGED keyboardVars
    PROVE  KernelInv' /\ Waiting'
<1>1. KernelInv' /\ SchedMove
  BY KernelStep
<1>2. waiter' = waiter /\ cb' = cb
  BY DEF keyboardVars
<1>3. "getchar" \notin SchedPc /\ Readers \subseteq Thread /\ Thread \subseteq Task
  BY KeyboardAssumption DEF SchedPc, Task
<1>4. \A t \in Thread : pc'[t] = "getchar" => pc[t] = "getchar"
  BY <1>1, <1>3 DEF SchedMove
<1>5. ASSUME NEW t \in Readers, pc'[t] = "getchar", sched'.state[t] # "RUNNING"
      PROVE  cb.len = 0 /\ waiter = t
  <2>1. t \in Thread /\ pc[t] = "getchar"
    BY <1>3, <1>4, <1>5
  <2>2. sched'.state[t] = sched.state[t]
    BY <1>1, <1>5, <2>1 DEF SchedMove
  <2> QED BY <1>5, <2>1, <2>2 DEF Waiting
<1> QED BY <1>1, <1>2, <1>4, <1>5 DEF Waiting

\* An interrupt wakes the reader that waits, so that whatever it stores no
\* reader sleeps on.
LEMMA HandlerWaiting ==
    ASSUME KernelInv, Waiting,
           (\E p \in {"e0", "e1"} : handle_prefix(p))
             \/ (\E k \in AllKeys, up \in BOOLEAN : keyboard_handler(k, up))
    PROVE  KernelInv' /\ Waiting'
<1>1. waiter \in Thread \cup {NULL} /\ NULL \notin Thread /\ Readers \subseteq Thread
  BY KeyboardAssumption, SchedAssumption DEF Waiting
<1>2. CASE \E p \in {"e0", "e1"} : handle_prefix(p)
  <2>1. /\ ~sched.in_irq /\ sched' = LeaveIrq(EnterIrq(sched)) /\ UNCHANGED <<pc, timers>>
        /\ cb' = cb /\ waiter' = waiter
    BY <1>2 DEF handle_prefix, Interrupts
  <2>2. /\ KernelInv'
        /\ \A t \in Thread : sched'.state[t] = IF t = NULL THEN "RUNNING" ELSE sched.state[t]
    BY <2>1, HandlerStep
  <2> QED BY <1>1, <2>1, <2>2 DEF Waiting
<1>3. CASE \E k \in AllKeys, up \in BOOLEAN : keyboard_handler(k, up)
  <2>1. /\ ~sched.in_irq /\ sched' = LeaveIrq(WakeWaiter(EnterIrq(sched)))
        /\ UNCHANGED <<pc, timers>> /\ waiter' = waiter
    BY <1>3 DEF keyboard_handler, Interrupts
  <2>2. sched' = LeaveIrq(IF waiter # NULL THEN wake_up(EnterIrq(sched), waiter) ELSE EnterIrq(sched))
    BY <2>1 DEF WakeWaiter
  <2>3. /\ KernelInv'
        /\ \A t \in Thread : sched'.state[t] = IF t = waiter THEN "RUNNING" ELSE sched.state[t]
    BY <1>1, <2>1, <2>2, HandlerStep
  <2>4. \A t \in Readers : pc[t] = "getchar" => sched'.state[t] = "RUNNING"
    BY <1>1, <2>3 DEF Waiting
  <2> QED BY <2>1, <2>3, <2>4 DEF Waiting
<1> QED BY <1>2, <1>3

\* getchar() keeps the kernel sound and its account of the waiter.
LEMMA GetcharWaiting ==
    ASSUME KernelInv, Waiting, getchar_read \/ getchar_sleep
    PROVE  KernelInv' /\ Waiting'
<1>1. InGetchar
  BY DEF getchar_read, getchar_sleep
<1>2. ~sched.in_irq /\ pc[Current] \in {"user", "getchar"}
  BY <1>1 DEF InGetchar, Calls, At
<1>3. /\ Current \in Thread /\ Current # Idle /\ Current \in Task /\ sched.in_irq = FALSE
      /\ sched.next = sched.current
  BY <1>2, ThreadRuns
<1>4. Current \in Readers /\ \A t \in Readers : t = Current
  BY <1>1, <1>3, KeyboardAssumption DEF InGetchar, At, Waiting
<1>5. /\ Steady(sched) /\ timers \subseteq Thread
      /\ sched.state \in [Task -> State]
      /\ pc = [t \in Task |-> pc[t]]
      /\ Readers \subseteq Thread /\ Thread \subseteq Task
  BY KeyboardAssumption DEF KernelInv, Steady, Sound, SchedRecord, Task
<1>6. CASE getchar_read
  <2>1. Goto("user") /\ sched' = sched /\ timers' = timers /\ waiter' \in {NULL, waiter}
    BY <1>6 DEF getchar_read
  <2>2. KernelInv'
    BY <1>2, <1>3, <1>5, <2>1, ThreadStep
  <2>3. \A t \in Thread : pc'[t] = IF t = Current THEN "user" ELSE pc[t]
    BY <1>5, <2>1 DEF Goto
  <2> QED BY <1>4, <1>5, <2>1, <2>2, <2>3 DEF Waiting
<1>7. CASE getchar_sleep
  <2>1. Goto("getchar") /\ sched' = Block(sched) /\ timers' = timers /\ waiter' = Current
        /\ cb.len = 0 /\ cb' = cb
    BY <1>7 DEF getchar_sleep
  <2>2. /\ Steady(sched') /\ sched'.in_irq = FALSE /\ sched'.next = sched'.current
        /\ sched'.state = [sched.state EXCEPT ![Current] = "SLEEPING"]
    BY <1>3, <1>5, <2>1, BlockEffect DEF Current
  <2>3. \A t \in Thread : sched'.state[t] = "NONE" => sched.state[t] = "NONE"
    BY <1>3, <1>5, <2>2
  <2>4. KernelInv'
    BY <1>2, <1>3, <1>5, <2>1, <2>2, <2>3, ThreadStep
  <2>5. \A t \in Thread : pc'[t] = IF t = Current THEN "getchar" ELSE pc[t]
    BY <1>5, <2>1 DEF Goto
  <2> QED BY <1>4, <1>5, <2>1, <2>4, <2>5 DEF Waiting
<1> QED BY <1>6, <1>7

-----------------------------------------------------------------------------
\* The invariant is inductive.
LEMMA KeyboardInvariant == KeyboardSpec => []KeyboardInv
<1>1. KeyboardInit => KeyboardInv
  <2> HAVE KeyboardInit
  <2>1. KernelInv
    BY SchedInitInv DEF KeyboardInit, SchedInv
  <2>2. \A t \in Thread : pc[t] = "none"
    BY SchedAssumption DEF KeyboardInit, SchedInit, Task
  <2>3. Waiting
    BY <2>2, KeyboardAssumption DEF KeyboardInit, Waiting
  <2>4. LineInv
    BY DEF KeyboardInit, LineInv
  <2> QED BY <2>1, <2>3, <2>4 DEF KeyboardInv
<1>2. KeyboardInv /\ [KeyboardNext]_allVars => KeyboardInv'
  <2> SUFFICES ASSUME KeyboardInv, [KeyboardNext]_allVars PROVE KeyboardInv'
    OBVIOUS
  <2>1. KernelInv /\ Waiting /\ LineInv
    BY DEF KeyboardInv
  <2>2. ASSUME UNCHANGED <<key, esc, line, down>> PROVE LineInv'
    BY <2>1, <2>2 DEF LineInv, KeyLine, PauseLine, NoCtrl
  <2>3. CASE SchedNext /\ UNCHANGED keyboardVars
    BY <2>1, <2>2, <2>3, SchedWaiting DEF KeyboardInv, keyboardVars
  <2>4. ASSUME NEW k \in Keys, NEW up \in BOOLEAN, press(k, up) PROVE KeyboardInv'
    <3>1. k \in AllKeys
      BY KeyboardAssumption
    <3>2. LineInv'
      BY <2>1, <2>4, <3>1, PressLine
    <3>3. KernelInv' /\ Waiting'
      BY <2>1, <2>4 DEF press, schedVars, KernelInv, PlacesOK, Current, Waiting
    <3> QED BY <3>2, <3>3 DEF KeyboardInv
  <2>5. ASSUME NEW p \in {"e0", "e1"}, handle_prefix(p) PROVE KeyboardInv'
    BY <2>1, <2>5, PrefixLine, HandlerWaiting DEF KeyboardInv
  <2>6. ASSUME NEW k \in AllKeys, NEW up \in BOOLEAN, keyboard_handler(k, up) PROVE KeyboardInv'
    BY <2>1, <2>6, KeyCodeLine, HandlerWaiting DEF KeyboardInv
  <2>7. CASE getchar_read
    BY <2>1, <2>2, <2>7, GetcharWaiting DEF KeyboardInv, getchar_read
  <2>8. CASE getchar_sleep
    BY <2>1, <2>2, <2>8, GetcharWaiting DEF KeyboardInv, getchar_sleep
  <2>9. CASE UNCHANGED allVars
    BY <2>1, <2>2, <2>9 DEF KeyboardInv, allVars, KernelInv, PlacesOK, Current, Waiting
  <2> QED BY <2>3, <2>4, <2>5, <2>6, <2>7, <2>8, <2>9 DEF KeyboardNext, Handler
<1> QED BY <1>1, <1>2, PTL DEF KeyboardSpec

\* getchar() loses no wake-up: a reader that is off the run queue is registered,
\* and the buffer is empty.
THEOREM ReaderCorrect == KeyboardSpec => []NoSleepOnData
<1>1. KeyboardInv => NoSleepOnData
  <2> SUFFICES ASSUME KeyboardInv, NEW t \in Readers, pc[t] = "getchar", t \notin sched.linked
               PROVE  cb.len = 0 /\ waiter = t
    BY DEF NoSleepOnData
  <2>1. t \in Task
    BY KeyboardAssumption DEF Task
  <2>2. sched.state[t] # "RUNNING"
    BY <2>1 DEF KeyboardInv, KernelInv, Steady, Ready
  <2> QED BY <2>2 DEF KeyboardInv, Waiting
<1> QED BY <1>1, KeyboardInvariant, PTL

\* The driver's modifier bits are those of the keys held down whenever it has
\* read all the codes of a key, whatever keys came before, Pause included.
THEOREM ModifiersCorrect == KeyboardSpec => []ModifiersMatch
<1>1. KeyboardInv => ModifiersMatch
  BY DEF KeyboardInv, LineInv, KeyLine, PauseLine, ModifiersMatch
<1> QED BY <1>1, KeyboardInvariant, PTL

-----------------------------------------------------------------------------
(***************************************************************************)
(* The circular buffer implements a queue of bytes.                        *)
(***************************************************************************)
Bytes == {"char", "esc", "[", "letter", "esc_", "[_", "digit", "~", "Esc", "[[", "[[[", "name"}

CircularBuffer ==
    [read : 0..(Size - 1), write : 0..(Size - 1), len : 0..Size,
     buffer : [0..(Size - 1) -> Bytes \cup {NULL}]]

\* The bytes that have been written and not read lie between read and write.
BufferOK(b) == b \in CircularBuffer /\ b.write = (b.read + b.len) % Size

Waits(b) == [j \in 1..b.len |-> b.buffer[(b.read + j - 1) % Size]]

\* An index that has passed the end of the buffer at most once.
Around(a) == IF a < Size THEN a ELSE a - Size

\* Such an index comes round by a subtraction.
LEMMA Wrap ==
    ASSUME NEW a \in 0..(2 * Size - 1)
    PROVE  a % Size = Around(a)
BY KeyboardAssumption DEF Around

\* The arithmetic of the buffer's indices: the offset from write of a byte that
\* waits is beyond the room there is, and that of a new one is its number.
IndicesOK(r, l, w, n) ==
    /\ r + l \in 0..(2 * Size - 1) /\ r + l + n \in 0..(2 * Size - 1)
    /\ w \in 0..(Size - 1) /\ w + n \in 0..(2 * Size - 1)
    /\ Around(w + n) = Around(r + l + n) /\ Around(w + n) \in 0..(Size - 1)
    /\ \A k \in 0..(Size - 1) :
          k + Size - w \in 0..(2 * Size - 1) /\ Around(k + Size - w) \in Nat
    /\ \A j \in 1..(l + n) :
          /\ r + j - 1 \in 0..(2 * Size - 1) /\ Around(r + j - 1) \in 0..(Size - 1)
          /\ j <= l => ~(Around(Around(r + j - 1) + Size - w) < n)
          /\ j > l => Around(Around(r + j - 1) + Size - w) = j - l - 1

\* They are so when what is written fits.
LEMMA Offsets ==
    ASSUME NEW r \in 0..(Size - 1), NEW l \in 0..Size, NEW w, w = Around(r + l),
           NEW n \in Nat, n <= Size - l
    PROVE  IndicesOK(r, l, w, n)
BY KeyboardAssumption DEF Around, IndicesOK

\* The parts of a buffer.
LEMMA Parts ==
    ASSUME NEW b, BufferOK(b)
    PROVE  \E r \in 0..(Size - 1), l \in 0..Size, f \in [0..(Size - 1) -> Bytes \cup {NULL}] :
              b = [read |-> r, write |-> Around(r + l), len |-> l, buffer |-> f]
<1>1. /\ Size \in Nat \ {0} /\ b.read \in 0..(Size - 1) /\ b.len \in 0..Size
      /\ b.buffer \in [0..(Size - 1) -> Bytes \cup {NULL}]
      /\ b = [read |-> b.read, write |-> b.write, len |-> b.len, buffer |-> b.buffer]
  BY KeyboardAssumption DEF BufferOK, CircularBuffer
<1>2. b.read + b.len \in 0..(2 * Size - 1)
  BY <1>1
<1>3. b.write = Around(b.read + b.len)
  BY <1>2, Wrap DEF BufferOK
<1> QED BY <1>1, <1>3

IsWhole(b, r, l, f) ==
    /\ BufferOK(b)
    /\ Waits(b) \in Seq(Bytes \cup {NULL}) /\ Len(Waits(b)) = l
    /\ \A j \in 1..l : Waits(b)[j] = f[Around(r + j - 1)]

\* A record with such parts is a buffer, whose bytes are a sequence.
LEMMA Whole ==
    ASSUME NEW r \in 0..(Size - 1), NEW l \in 0..Size, NEW w, w = Around(r + l),
           NEW f \in [0..(Size - 1) -> Bytes \cup {NULL}],
           NEW b, b = [read |-> r, write |-> w, len |-> l, buffer |-> f]
    PROVE  IsWhole(b, r, l, f)
<1>1. /\ r + l \in 0..(2 * Size - 1) /\ w \in 0..(Size - 1)
      /\ \A j \in 1..l : r + j - 1 \in 0..(2 * Size - 1) /\ Around(r + j - 1) \in 0..(Size - 1)
  BY KeyboardAssumption DEF Around
<1>2. BufferOK(b)
  <2>1. w = (r + l) % Size
    BY <1>1, Wrap
  <2>2. b \in CircularBuffer
    BY <1>1 DEF CircularBuffer
  <2> QED BY <2>1, <2>2 DEF BufferOK
<1>3. \A j \in 1..l : (r + j - 1) % Size = Around(r + j - 1)
  BY <1>1, Wrap
<1>4. Waits(b) = [j \in 1..l |-> f[Around(r + j - 1)]]
  BY <1>3 DEF Waits
<1>5. Waits(b) \in [1..l -> Bytes \cup {NULL}] /\ \A j \in 1..l : Waits(b)[j] = f[Around(r + j - 1)]
  <2> HIDE DEF Bytes
  <2> QED BY <1>1, <1>4
<1>6. l \in Nat
  BY KeyboardAssumption
<1>7. Waits(b) \in Seq(Bytes \cup {NULL}) /\ Len(Waits(b)) = l
  <2> HIDE DEF Bytes, Waits
  <2> QED BY <1>5, <1>6
<1> QED BY <1>2, <1>5, <1>7 DEF IsWhole

\* Writing what there is room for appends it.
LEMMA WriteEffect ==
    ASSUME NEW b, BufferOK(b), NEW u \in Seq(Bytes), Len(u) <= Size - b.len
    PROVE  LET v == circular_buffer_write(b, u)
           IN  BufferOK(v) /\ Waits(v) = Waits(b) \o u
<1> DEFINE v == circular_buffer_write(b, u)
           n == Len(u)
<1>1. PICK r \in 0..(Size - 1), l \in 0..Size, f \in [0..(Size - 1) -> Bytes \cup {NULL}] :
          b = [read |-> r, write |-> Around(r + l), len |-> l, buffer |-> f]
  BY Parts
<1>2. PICK w : w = Around(r + l)
  OBVIOUS
<1>3. Size \in Nat \ {0} /\ n \in Nat /\ n <= Size - l /\ Size - l \in Nat
  BY <1>1, KeyboardAssumption
<1>4. Min({Len(u), circular_buffer_space(b)}) = n
  <2>1. {n, Size - l} \in SUBSET Nat /\ {n, Size - l} # {}
    BY <1>3
  <2>2. Min({n, Size - l}) \in {n, Size - l} /\ Min({n, Size - l}) <= n
    BY <2>1, MinOfSet
  <2>3. circular_buffer_space(b) = Size - l
    BY <1>1 DEF circular_buffer_space
  <2> QED BY <1>3, <2>2, <2>3
<1> HIDE DEF n
<1>5. /\ r + l \in 0..(2 * Size - 1) /\ r + l + n \in 0..(2 * Size - 1)
      /\ w \in 0..(Size - 1) /\ w + n \in 0..(2 * Size - 1)
      /\ Around(w + n) = Around(r + l + n) /\ Around(w + n) \in 0..(Size - 1)
      /\ \A k \in 0..(Size - 1) :
            k + Size - w \in 0..(2 * Size - 1) /\ Around(k + Size - w) \in Nat
      /\ \A j \in 1..(l + n) :
            /\ r + j - 1 \in 0..(2 * Size - 1) /\ Around(r + j - 1) \in 0..(Size - 1)
            /\ j <= l => ~(Around(Around(r + j - 1) + Size - w) < n)
            /\ j > l => Around(Around(r + j - 1) + Size - w) = j - l - 1
  <2>1. IndicesOK(r, l, w, n)
    BY <1>2, <1>3, Offsets
  <2> QED BY <2>1 DEF IndicesOK
<1> DEFINE g == [k \in 0..(Size - 1) |-> IF Around(k + Size - w) < n
                                         THEN u[Around(k + Size - w) + 1] ELSE f[k]]
<1>6. v = [read |-> r, write |-> Around(w + n), len |-> l + n, buffer |-> g]
  <2>1. v = [read |-> r, write |-> (w + n) % Size, len |-> l + n,
             buffer |-> [k \in 0..(Size - 1) |->
                            IF (k + Size - w) % Size < n
                            THEN u[((k + Size - w) % Size) + 1] ELSE f[k]]]
    <3> DEFINE G == [k \in 0..(Size - 1) |-> IF (k + Size - w) % Size < n
                                              THEN u[((k + Size - w) % Size) + 1] ELSE f[k]]
    <3>1. b.read = r /\ b.write = w /\ b.len = l /\ b.buffer = f /\ DOMAIN f = 0..(Size - 1)
      BY <1>1, <1>2
    <3>2. v = [b EXCEPT !.buffer = G, !.write = (w + n) % Size, !.len = l + n]
      BY <1>4, <3>1 DEF circular_buffer_write
    <3> HIDE DEF G, v
    <3>3. v = [read |-> r, write |-> (w + n) % Size, len |-> l + n, buffer |-> G]
      BY <1>1, <3>2
    <3> QED BY <3>3 DEF G
  <2>2. (w + n) % Size = Around(w + n) /\ \A k \in 0..(Size - 1) : (k + Size - w) % Size = Around(k + Size - w)
    BY <1>5, Wrap
  <2>3. g = [k \in 0..(Size - 1) |->
                            IF (k + Size - w) % Size < n
                            THEN u[((k + Size - w) % Size) + 1] ELSE f[k]]
    BY <2>2
  <2> QED BY <2>1, <2>2, <2>3, Zenon
<1>7. g \in [0..(Size - 1) -> Bytes \cup {NULL}]
  <2>1. ASSUME NEW k \in 0..(Size - 1)
        PROVE  (IF Around(k + Size - w) < n THEN u[Around(k + Size - w) + 1] ELSE f[k]) \in Bytes \cup {NULL}
    <3>1. CASE Around(k + Size - w) < n
      <4>1. Around(k + Size - w) + 1 \in 1..Len(u)
        BY <1>3, <1>5, <3>1 DEF n
      <4>2. u[Around(k + Size - w) + 1] \in Bytes
        BY <4>1, ElementOfSeq
      <4> QED BY <3>1, <4>2
    <3>2. CASE ~(Around(k + Size - w) < n)
      BY <3>2
    <3> QED BY <3>1, <3>2
  <2> HIDE DEF Bytes
  <2> QED BY <2>1
<1>8. \A k \in 0..(Size - 1) : g[k] = IF Around(k + Size - w) < n
                                      THEN u[Around(k + Size - w) + 1] ELSE f[k]
  OBVIOUS
<1> HIDE DEF g, v
<1>9. /\ BufferOK(v) /\ Waits(v) \in Seq(Bytes \cup {NULL}) /\ Len(Waits(v)) = l + n
      /\ \A j \in 1..(l + n) : Waits(v)[j] = g[Around(r + j - 1)]
  <2>1. l + n \in 0..Size /\ Around(w + n) = Around(r + (l + n))
    BY <1>3, <1>5
  <2>2. IsWhole(v, r, l + n, g)
    BY <1>6, <1>7, <2>1, Whole
  <2> QED BY <2>2 DEF IsWhole
<1>10. /\ Waits(b) \in Seq(Bytes \cup {NULL}) /\ Len(Waits(b)) = l
       /\ \A j \in 1..l : Waits(b)[j] = f[Around(r + j - 1)]
  <2>1. IsWhole(b, r, l, f)
    BY <1>1, Whole
  <2> QED BY <2>1 DEF IsWhole
<1>11. /\ Waits(b) \o u \in Seq(Bytes \cup {NULL}) /\ Len(Waits(b) \o u) = l + n
       /\ \A j \in 1..(l + n) :
             (Waits(b) \o u)[j] = IF j <= l THEN Waits(b)[j] ELSE u[j - l]
  <2>1. u \in Seq(Bytes \cup {NULL})
    OBVIOUS
  <2> QED BY <1>10, <2>1, ConcatProperties DEF n
<1>12. ASSUME NEW j \in 1..(l + n) PROVE Waits(v)[j] = (Waits(b) \o u)[j]
  <2> DEFINE k == Around(r + j - 1)
  <2>1. /\ k \in 0..(Size - 1)
        /\ j <= l => ~(Around(k + Size - w) < n)
        /\ j > l => Around(k + Size - w) = j - l - 1
    BY <1>5
  <2>2. Waits(v)[j] = g[k]
    BY <1>9
  <2> HIDE DEF k
  <2>3. g[k] = IF Around(k + Size - w) < n THEN u[Around(k + Size - w) + 1] ELSE f[k]
    BY <1>8, <2>1
  <2>4. CASE j <= l
    <3>1. j \in 1..l
      BY <1>3, <2>4
    <3> QED BY <1>10, <1>11, <2>1, <2>2, <2>3, <2>4, <3>1 DEF k
  <2>5. CASE j > l
    <3>1. Around(k + Size - w) < n /\ Around(k + Size - w) + 1 = j - l /\ ~(j <= l)
      BY <1>3, <2>1, <2>5
    <3> QED BY <1>11, <2>2, <2>3, <3>1
  <2>6. j <= l \/ j > l
    BY <1>3
  <2> QED BY <2>4, <2>5, <2>6, Zenon
<1>13. Waits(v) = Waits(b) \o u
  <2> HIDE DEF Bytes
  <2> QED BY <1>9, <1>11, <1>12, SeqEqual
<1> QED BY <1>9, <1>13 DEF v

\* Writing to a buffer that is full changes nothing.
LEMMA WriteFull ==
    ASSUME NEW b, BufferOK(b), b.len = Size, NEW u \in Seq(Bytes)
    PROVE  circular_buffer_write(b, u) = b
<1>1. PICK r \in 0..(Size - 1), l \in 0..Size, f \in [0..(Size - 1) -> Bytes \cup {NULL}] :
          b = [read |-> r, write |-> Around(r + l), len |-> l, buffer |-> f]
  BY Parts
<1>2. PICK w : w = Around(r + l)
  OBVIOUS
<1>3. b.read = r /\ b.write = w /\ b.len = l /\ b.buffer = f /\ DOMAIN f = 0..(Size - 1)
      /\ l = Size /\ Len(u) \in Nat /\ Size \in Nat \ {0}
  BY <1>1, <1>2, KeyboardAssumption
<1>4. Min({Len(u), circular_buffer_space(b)}) = 0
  <2>1. circular_buffer_space(b) = 0
    BY <1>3 DEF circular_buffer_space
  <2>2. Min({Len(u), 0}) \in {Len(u), 0} /\ Min({Len(u), 0}) <= 0
    BY <1>3, MinOfSet
  <2> QED BY <1>3, <2>1, <2>2
<1>5. w \in 0..(Size - 1) /\ (w + 0) % Size = w
  <2>1. w \in 0..(Size - 1)
    BY <1>2, <1>3 DEF Around
  <2>2. w + 0 \in 0..(2 * Size - 1)
    BY <1>3, <2>1
  <2>3. Around(w + 0) = w
    BY <1>3, <2>1 DEF Around
  <2> QED BY <2>1, <2>2, <2>3, Wrap
<1> DEFINE G == [k \in 0..(Size - 1) |-> IF (k + Size - w) % Size < 0
                                         THEN u[((k + Size - w) % Size) + 1] ELSE f[k]]
<1>6. circular_buffer_write(b, u) = [b EXCEPT !.buffer = G, !.write = (w + 0) % Size, !.len = l + 0]
  BY <1>3, <1>4 DEF circular_buffer_write
<1>7. G = f
  <2>1. ASSUME NEW k \in 0..(Size - 1) PROVE ~((k + Size - w) % Size < 0)
    <3>1. k + Size - w \in Int
      BY <1>3, <1>5
    <3> QED BY <1>3, <3>1
  <2> QED BY <2>1
<1> HIDE DEF G
<1>8. l + 0 = l
  BY <1>3
<1>9. circular_buffer_write(b, u) = [b EXCEPT !.buffer = f, !.write = w, !.len = l]
  BY <1>5, <1>6, <1>7, <1>8
<1> QED BY <1>1, <1>2, <1>9

\* Reading takes the first byte.
LEMMA ReadEffect ==
    ASSUME NEW b, BufferOK(b), b.len > 0
    PROVE  LET v == circular_buffer_read(b)
           IN  BufferOK(v) /\ Waits(b) # <<>> /\ Waits(v) = Tail(Waits(b))
<1> DEFINE v == circular_buffer_read(b)
<1>1. PICK r \in 0..(Size - 1), l \in 0..Size, f \in [0..(Size - 1) -> Bytes \cup {NULL}] :
          b = [read |-> r, write |-> Around(r + l), len |-> l, buffer |-> f]
  BY Parts
<1>2. PICK w : w = Around(r + l)
  OBVIOUS
<1>3. PICK q : q = Around(r + 1)
  OBVIOUS
<1>4. Size \in Nat \ {0} /\ l \in 1..Size /\ l - 1 \in 0..Size
  BY <1>1, KeyboardAssumption
<1>5. /\ q \in 0..(Size - 1) /\ r + 1 \in 0..(2 * Size - 1) /\ w = Around(q + (l - 1))
      /\ \A j \in 1..(l - 1) : /\ Around(q + j - 1) = Around(r + (j + 1) - 1)
                               /\ Around(q + j - 1) # r /\ Around(q + j - 1) \in 0..(Size - 1)
  BY <1>2, <1>3, <1>4 DEF Around
<1> DEFINE g == [f EXCEPT ![r] = NULL]
<1>6. g \in [0..(Size - 1) -> Bytes \cup {NULL}] /\ \A k \in 0..(Size - 1) : k # r => g[k] = f[k]
  <2> HIDE DEF Bytes
  <2> QED OBVIOUS
<1> HIDE DEF g
<1>7. v = [read |-> q, write |-> w, len |-> l - 1, buffer |-> g]
  <2>1. (r + 1) % Size = q
    BY <1>3, <1>5, Wrap
  <2>2. v = [read |-> (r + 1) % Size, write |-> w, len |-> l - 1, buffer |-> g]
    <3>1. b.read = r /\ b.len = l /\ b.buffer = f
      BY <1>1
    <3>2. v = [b EXCEPT !.buffer = g, !.read = (r + 1) % Size, !.len = l - 1]
      BY <3>1 DEF circular_buffer_read, g
    <3> HIDE DEF v
    <3> QED BY <1>1, <1>2, <3>2
  <2> QED BY <2>1, <2>2
<1> HIDE DEF v
<1>8. /\ BufferOK(v) /\ Waits(v) \in Seq(Bytes \cup {NULL}) /\ Len(Waits(v)) = l - 1
      /\ \A j \in 1..(l - 1) : Waits(v)[j] = g[Around(q + j - 1)]
  <2>1. IsWhole(v, q, l - 1, g)
    BY <1>4, <1>5, <1>6, <1>7, Whole
  <2> QED BY <2>1 DEF IsWhole
<1>9. /\ Waits(b) \in Seq(Bytes \cup {NULL}) /\ Len(Waits(b)) = l
      /\ \A j \in 1..l : Waits(b)[j] = f[Around(r + j - 1)]
  <2>1. IsWhole(b, r, l, f)
    BY <1>1, Whole
  <2> QED BY <2>1 DEF IsWhole
<1> HIDE DEF Bytes
<1>10. Waits(b) # <<>>
  BY <1>4, <1>9
<1>11. /\ Tail(Waits(b)) \in Seq(Bytes \cup {NULL}) /\ Len(Tail(Waits(b))) = l - 1
       /\ \A j \in 1..(l - 1) : Tail(Waits(b))[j] = Waits(b)[j + 1]
  BY <1>9, <1>10, HeadTailProperties
<1>12. ASSUME NEW j \in 1..(l - 1) PROVE Waits(v)[j] = Tail(Waits(b))[j]
  <2>1. j + 1 \in 1..l
    BY <1>4
  <2> QED BY <1>5, <1>6, <1>8, <1>9, <1>11, <2>1
<1>13. Waits(v) = Tail(Waits(b))
  BY <1>8, <1>11, <1>12, SeqEqual
<1> QED BY <1>8, <1>10, <1>13 DEF v

\* What keys send are sequences of bytes.
LEMMA SentSeqs ==
    /\ Char \in Seq(Bytes) /\ Cursor \in Seq(Bytes) /\ Tilde \in Seq(Bytes) /\ Function \in Seq(Bytes)
    /\ Len(Char) = 1
BY DEF Char, Cursor, Tilde, Function, Bytes

\* v is the buffer, or the buffer with what one key sends.
Appended(v) ==
    v = cb \/ \E u \in Sent : Len(u) <= Size - cb.len /\ v = circular_buffer_write(cb, u)

\* A character is stored if there is room, a sequence if there is room for all.
LEMMA StoreEffect ==
    ASSUME BufferOK(cb)
    PROVE  /\ Appended(circular_buffer_write(cb, Char))
           /\ \A u \in {Cursor, Tilde, Function} : Appended(WriteWhole(u))
<1>1. cb.len \in 0..Size /\ Size \in Nat
  BY KeyboardAssumption DEF BufferOK, CircularBuffer
<1>2. Appended(circular_buffer_write(cb, Char))
  <2>1. CASE cb.len = Size
    BY <2>1, SentSeqs, WriteFull DEF Appended
  <2>2. CASE cb.len # Size
    <3>1. Len(Char) <= Size - cb.len /\ Char \in Sent
      BY <1>1, <2>2, SentSeqs DEF Sent
    <3> QED BY <3>1 DEF Appended
  <2> QED BY <2>1, <2>2
<1>3. ASSUME NEW u \in {Cursor, Tilde, Function} PROVE Appended(WriteWhole(u))
  <2>1. u \in Sent /\ Len(u) \in Nat
    BY SentSeqs DEF Sent
  <2>2. CASE circular_buffer_space(cb) >= Len(u)
    <3>1. WriteWhole(u) = circular_buffer_write(cb, u)
      BY <2>2 DEF WriteWhole
    <3>2. Len(u) <= Size - cb.len
      BY <1>1, <2>1, <2>2 DEF circular_buffer_space
    <3> QED BY <2>1, <3>1, <3>2 DEF Appended
  <2>3. CASE ~(circular_buffer_space(cb) >= Len(u))
    BY <2>3 DEF WriteWhole, Appended
  <2> QED BY <2>2, <2>3
<1> QED BY <1>2, <1>3

\* The handler stores what one key sends, or nothing.
LEMMA TranscodedEffect ==
    ASSUME BufferOK(cb), NEW k \in AllKeys, NEW up \in BOOLEAN
    PROVE  Appended(Transcoded(k, up))
<1>1. /\ Appended(cb) /\ Appended(circular_buffer_write(cb, Char))
      /\ Appended(WriteWhole(Cursor)) /\ Appended(WriteWhole(Tilde)) /\ Appended(WriteWhole(Function))
  BY StoreEffect DEF Appended
<1>2. Appended(chr(k))
  BY <1>1, Zenon DEF chr
<1>3. ASSUME k \in {"kp_star", "print", "kp_pgup", "page", "kp_home", "arrow", "kp_minus"}
      PROVE  Appended(keypad(k))
  <2> DEFINE moves == esc = "e0" \/ "num_lock" \notin led \/ Shift
  <2>1. CASE k \in {"kp_star", "print"}
    <3>1. keypad(k) = IF moves THEN cb ELSE circular_buffer_write(cb, Char)
      BY <2>1 DEF keypad
    <3> HIDE DEF moves
    <3> QED BY <1>1, <3>1, Zenon
  <2>2. CASE k \in {"kp_pgup", "page"}
    <3>1. keypad(k) = IF moves THEN WriteWhole(Tilde) ELSE circular_buffer_write(cb, Char)
      BY <2>2 DEF keypad
    <3> HIDE DEF moves
    <3> QED BY <1>1, <3>1, Zenon
  <2>3. CASE k \in {"kp_home", "arrow"}
    <3>1. keypad(k) = IF moves THEN WriteWhole(Cursor) ELSE circular_buffer_write(cb, Char)
      BY <2>3 DEF keypad
    <3> HIDE DEF moves
    <3> QED BY <1>1, <3>1, Zenon
  <2>4. CASE k = "kp_minus"
    <3>1. keypad(k) = circular_buffer_write(cb, Char)
      BY <2>4 DEF keypad
    <3> QED BY <1>1, <3>1, Zenon
  <2> QED BY <1>3, <2>1, <2>2, <2>3, <2>4
<1> DEFINE v == Transcoded(k, up)
<1>4. \/ v \in {cb, circular_buffer_write(cb, Char), chr(k), WriteWhole(Function)}
      \/ v = keypad(k) /\ k \in {"kp_star", "print", "kp_pgup", "page", "kp_home", "arrow", "kp_minus"}
  BY DEF Transcoded
<1> HIDE DEF v
<1>5. Appended(v)
  BY <1>1, <1>2, <1>3, <1>4, Zenon
<1> QED BY <1>5 DEF v

BufferInv == BufferOK(cb)

\* The step of the abstract input that a change of the buffer is.
LEMMA BufferStep ==
    ASSUME BufferOK(cb),
           \/ cb' = cb
           \/ Appended(cb')
           \/ cb.len > 0 /\ cb' = circular_buffer_read(cb)
    PROVE  BufferOK(cb') /\ [Input!Next]_Content
<1>1. Content = Waits(cb) /\ Content' = Waits(cb')
  BY DEF Content, Waits
<1>2. CASE cb' = cb
  BY <1>1, <1>2
<1>3. ASSUME NEW u \in Sent, Len(u) <= Size - cb.len, cb' = circular_buffer_write(cb, u)
      PROVE  BufferOK(cb') /\ Input!Next
  <2>1. u \in Seq(Bytes)
    BY SentSeqs DEF Sent
  <2>2. BufferOK(cb') /\ Waits(cb') = Waits(cb) \o u
    BY <1>3, <2>1, WriteEffect
  <2>3. Len(Waits(cb)) + Len(u) <= Size
    <3>1. \E r \in 0..(Size - 1), l \in 0..Size, f \in [0..(Size - 1) -> Bytes \cup {NULL}] :
              cb = [read |-> r, write |-> Around(r + l), len |-> l, buffer |-> f]
      BY Parts
    <3>2. Len(Waits(cb)) = cb.len
      BY <3>1, Whole DEF IsWhole
    <3> QED BY <1>3, <2>1, <3>2, KeyboardAssumption DEF BufferOK, CircularBuffer
  <2>4. Input!Type(u)
    BY <1>1, <2>2, <2>3 DEF Input!Type
  <2> QED BY <2>2, <2>4 DEF Input!Next
<1>4. CASE cb.len > 0 /\ cb' = circular_buffer_read(cb)
  <2>1. BufferOK(cb') /\ Waits(cb) # <<>> /\ Waits(cb') = Tail(Waits(cb))
    BY <1>4, ReadEffect
  <2> QED BY <1>1, <2>1 DEF Input!Next, Input!Read
<1> QED BY <1>2, <1>3, <1>4 DEF Appended

\* What getchar() returns, in all, is what the keys sent: in order, once, and
\* none of a sequence without the rest, however full the buffer is.
THEOREM InputRefinement == KeyboardSpec => ImplementsInput
<1>1. KeyboardInit => BufferInv /\ Input!Init
  <2> HAVE KeyboardInit
  <2>1. cb = circular_buffer_init /\ Size \in Nat \ {0}
    BY KeyboardAssumption DEF KeyboardInit
  <2> DEFINE f == [k \in 0..(Size - 1) |-> NULL]
  <2>2. cb = [read |-> 0, write |-> Around(0 + 0), len |-> 0, buffer |-> f]
    BY <2>1 DEF circular_buffer_init, Around
  <2>3. 0 \in 0..(Size - 1) /\ 0 \in 0..Size /\ f \in [0..(Size - 1) -> Bytes \cup {NULL}]
    BY <2>1
  <2> HIDE DEF f
  <2>4. IsWhole(cb, 0, 0, f)
    BY <2>2, <2>3, Whole
  <2>5. Content = <<>>
    <3>1. Waits(cb) \in Seq(Bytes \cup {NULL}) /\ Len(Waits(cb)) = 0
      BY <2>4 DEF IsWhole
    <3> HIDE DEF Bytes, Waits
    <3>2. Waits(cb) = <<>>
      BY <3>1, EmptySeq
    <3> QED BY <3>2 DEF Content, Waits
  <2> QED BY <2>4, <2>5 DEF IsWhole, Input!Init, BufferInv
<1>2. BufferInv /\ [KeyboardNext]_allVars => BufferInv' /\ [Input!Next]_Content
  <2> SUFFICES ASSUME BufferOK(cb), [KeyboardNext]_allVars
               PROVE  BufferOK(cb') /\ [Input!Next]_Content
    BY DEF BufferInv
  <2>1. CASE (SchedNext /\ UNCHANGED keyboardVars) \/ UNCHANGED allVars
    BY <2>1, BufferStep DEF keyboardVars, allVars
  <2>2. ASSUME NEW k \in Keys, NEW up \in BOOLEAN, press(k, up)
        PROVE  BufferOK(cb') /\ [Input!Next]_Content
    BY <2>2, BufferStep DEF press
  <2>3. ASSUME NEW p \in {"e0", "e1"}, handle_prefix(p)
        PROVE  BufferOK(cb') /\ [Input!Next]_Content
    BY <2>3, BufferStep DEF handle_prefix
  <2>4. ASSUME NEW k \in AllKeys, NEW up \in BOOLEAN, keyboard_handler(k, up)
        PROVE  BufferOK(cb') /\ [Input!Next]_Content
    <3>1. cb' = Transcoded(k, up)
      BY <2>4 DEF keyboard_handler
    <3>2. Appended(Transcoded(k, up))
      BY TranscodedEffect
    <3>3. \E v : v = cb' /\ Appended(v)
      BY <3>1, <3>2
    <3> QED BY <3>3, BufferStep
  <2>5. CASE getchar_read
    BY <2>5, BufferStep DEF getchar_read
  <2>6. CASE getchar_sleep
    BY <2>6, BufferStep DEF getchar_sleep
  <2> QED BY <2>1, <2>2, <2>3, <2>4, <2>5, <2>6 DEF KeyboardNext, Handler
<1>3. KeyboardSpec => Input!Init /\ [][Input!Next]_Content
  BY <1>1, <1>2, PTL DEF KeyboardSpec
<1> QED BY <1>3 DEF ImplementsInput, Input!Spec
=============================================================================
