------------------------------ MODULE Keyboard ------------------------------
(***************************************************************************)
(* The keyboard driver, drivers/keyboard.c, with its circular buffer, on   *)
(* top of the scheduler: the interrupt handler that turns scan codes into  *)
(* bytes, and getchar(), which waits for them.                             *)
(*                                                                         *)
(* A key sends one byte when it is pressed and another when it is          *)
(* released, for some keys after a prefix, each as an interrupt of its     *)
(* own.  The handler runs with interrupts disabled and is one step.  Keys  *)
(* are told apart as far as the handler's control flow does; the bytes it  *)
(* stores, as far as is needed to see whether what a key sends is whole.   *)
(* reboot(), on Ctrl-Alt-Del, changes nothing that is modelled.            *)
(***************************************************************************)
EXTENDS Sched

CONSTANTS
    Keys,       \* the keys that are used
    Readers,    \* the threads that call getchar()
    Size        \* sizeof(keyboard.buffer)

Modifiers == {"l_ctrl", "r_ctrl", "l_shift", "r_shift", "l_alt", "r_alt"}
Locks == {"caps_lock", "num_lock", "scroll_lock"}

\* The keys that send the prefix 0xe0.
Extended == {"r_ctrl", "r_alt", "kp_slash", "print", "arrow", "page"}

\* "letter" has no third character, "digit" has; "kp_..." are on the keypad,
\* where "home" stands for the keys that move the cursor, "pgup" for those
\* whose sequence ends in '~' and "minus" for those that are a character in
\* any case; "unknown" is a code beyond the table.
AllKeys == Modifiers \cup Locks \cup Extended \cup
           {"letter", "digit", "slash", "fn", "kp_star", "kp_home", "kp_pgup",
            "kp_minus", "pause", "sysrq", "unknown"}

\* The assertion in getchar() allows one reader at a time; only the shell's
\* thread reads the keyboard.
ASSUME KeyboardAssumption ==
    /\ Keys \subseteq AllKeys
    /\ Readers \subseteq Thread
    /\ \A r, s \in Readers : r = s
    /\ Size \in Nat \ {0}

VARIABLES
    key,        \* the bits of keyboard.key that are set
    led,        \* the bits of keyboard.led that are set
    esc,        \* keyboard.esc: "none" for 0, "e0" or "e1"
    cb,         \* keyboard.cb and keyboard.buffer
    waiter,     \* keyboard.waiter
    line,       \* the scan codes the keyboard has yet to send
    down        \* the modifier keys that are held down

keyboardVars == <<key, led, esc, cb, waiter, line, down>>
allVars == <<sched, pc, timers, key, led, esc, cb, waiter, line, down>>

-----------------------------------------------------------------------------
(***************************************************************************)
(* The circular buffer.  A byte that has been read is never read again: it *)
(* is NULL here.                                                           *)
(***************************************************************************)
circular_buffer_init ==
    [read |-> 0, write |-> 0, len |-> 0, buffer |-> [k \in 0..(Size - 1) |-> NULL]]

circular_buffer_space(b) == Size - b.len

\* As much of data as there is room for.
circular_buffer_write(b, data) ==
    LET n == Min({Len(data), circular_buffer_space(b)})
        Offset(k) == (k + Size - b.write) % Size
    IN  [b EXCEPT !.buffer = [k \in DOMAIN @ |->
                                 IF Offset(k) < n THEN data[Offset(k) + 1] ELSE @[k]],
                  !.write = (@ + n) % Size,
                  !.len = @ + n]

\* One byte, from a buffer that is not empty.
circular_buffer_read(b) ==
    [b EXCEPT !.buffer[b.read] = NULL, !.read = (@ + 1) % Size, !.len = @ - 1]

-----------------------------------------------------------------------------
(***************************************************************************)
(* The handler.  What it does with a scan code depends on the modifiers,   *)
(* the lock keys and the prefix.                                           *)
(***************************************************************************)
Char == <<"char">>
Cursor == <<"esc", "[", "letter">>
Tilde == <<"esc_", "[_", "digit", "~">>
Function == <<"Esc", "[[", "[[[", "name">>

Shift == {"l_shift", "r_shift"} \cap key # {}

\* Mutant: three bytes of room are enough for any sequence.
WriteIf3(u) ==
    IF circular_buffer_space(cb) >= 3 THEN circular_buffer_write(cb, u) ELSE cb

\* A sequence is stored only if there is room for all of it.
WriteWhole(u) ==
    IF circular_buffer_space(cb) >= Len(u) THEN circular_buffer_write(cb, u) ELSE cb

\* chr(): of the keys here only a letter has nothing in the third column.
chr(k) ==
    IF "r_alt" \in key /\ k = "letter" THEN cb ELSE circular_buffer_write(cb, Char)

keypad(k) ==
    LET moves == esc = "e0" \/ "num_lock" \notin led \/ Shift
    IN  CASE k \in {"kp_star", "print"} ->
                 IF moves THEN cb ELSE circular_buffer_write(cb, Char)
          [] k \in {"kp_pgup", "page"} ->
                 IF moves THEN WriteWhole(Tilde) ELSE circular_buffer_write(cb, Char)
          [] k \in {"kp_home", "arrow"} ->
                 IF moves THEN WriteWhole(Cursor) ELSE circular_buffer_write(cb, Char)
          [] k = "kp_minus" -> circular_buffer_write(cb, Char)

\* What transcode_func_table stores for key k.  The function for the key '/' of
\* the keypad does not look at the bit that tells a release from a press.
Transcoded(k, up) ==
    IF k = "kp_slash" /\ esc = "e0" THEN circular_buffer_write(cb, Char)
    ELSE IF up THEN cb
    ELSE CASE k \in {"letter", "digit", "slash", "kp_slash"} -> chr(k)
           [] k \in {"kp_star", "print", "kp_pgup", "page", "kp_home", "arrow",
                     "kp_minus"} -> keypad(k)
           [] k = "fn" -> WriteWhole(Function)
           [] OTHER -> cb

\* Mutant: the prefix is not looked at.
BitIgnoresPrefix(k) ==
    CASE k \in {"l_ctrl", "r_ctrl"} -> "l_ctrl"
      [] k \in {"l_alt", "r_alt"} -> "l_alt"
      [] OTHER -> k

\* The bit of keyboard.key: ctrl() and alt() tell right from left by the prefix.
KeyBit(k) ==
    CASE k \in {"l_ctrl", "r_ctrl"} -> IF esc # "none" THEN "r_ctrl" ELSE "l_ctrl"
      [] k \in {"l_alt", "r_alt"} -> IF esc # "none" THEN "r_alt" ELSE "l_alt"
      [] OTHER -> k

\* The bit of keyboard.led: scroll_lock() toggles the bit of num_lock().
LedOf(k) == IF k = "caps_lock" THEN "caps_lock" ELSE "num_lock"

Toggled(set, e) == IF e \in set THEN set \ {e} ELSE set \cup {e}

(***************************************************************************)
(* A key is pressed or released: external, the keyboard.  It sends the     *)
(* next scan codes when the last ones have been read.                      *)
(***************************************************************************)
Code(k, up) == [key |-> k, up |-> up]

\* Pause sends the codes of other keys, when it is pressed only.
PauseCodes ==
    IF {"l_ctrl", "r_ctrl"} \cap down = {}
    THEN <<Code("e1", FALSE), Code("l_ctrl", FALSE), Code("num_lock", FALSE),
           Code("e1", FALSE), Code("l_ctrl", TRUE), Code("num_lock", TRUE)>>
    ELSE <<Code("e0", FALSE), Code("scroll_lock", FALSE),
           Code("e0", FALSE), Code("scroll_lock", TRUE)>>

press(k, up) ==
    /\ line = <<>>
    /\ up /\ k \in Modifiers => k \in down
    /\ line' = CASE k = "pause" -> IF up THEN <<>> ELSE PauseCodes
                 [] k \in Extended -> <<Code("e0", FALSE), Code(k, up)>>
                 [] OTHER -> <<Code(k, up)>>
    /\ down' = IF up THEN down \ {k} ELSE down \cup ({k} \cap Modifiers)
    /\ UNCHANGED <<schedVars, key, led, esc, cb, waiter>>

\* An interrupt is taken wherever interrupts are enabled.
Interrupts(code) ==
    /\ ~sched.in_irq
    /\ pc[Current] \notin Masked
    /\ line # <<>>
    /\ code = Head(line)
    /\ line' = Tail(line)

handle_prefix(p) ==
    /\ Interrupts(Code(p, FALSE))
    /\ esc' = p
    /\ sched' = LeaveIrq(EnterIrq(sched))
    /\ UNCHANGED <<pc, timers, key, led, cb, waiter, down>>

\* Mutant: the reader is not woken.
WakeNobody(s) == s

\* The reader, if one waits, is woken by any key, whether or not it stored a
\* byte.
WakeWaiter(s) == IF waiter # NULL THEN wake_up(s, waiter) ELSE s

keyboard_handler(k, up) ==
    /\ Interrupts(Code(k, up))
    /\ cb' = Transcoded(k, up)
    /\ key' = IF k \in Modifiers
              THEN IF up THEN key \ {KeyBit(k)} ELSE key \cup {KeyBit(k)}
              ELSE key
    /\ led' = IF k \in Locks /\ ~up THEN Toggled(led, LedOf(k)) ELSE led
    /\ esc' = "none"
    /\ sched' = LeaveIrq(WakeWaiter(EnterIrq(sched)))
    /\ UNCHANGED <<pc, timers, waiter, down>>

-----------------------------------------------------------------------------
(***************************************************************************)
(* getchar().  A thread that has slept is at "getchar", with interrupts    *)
(* disabled, and clears waiter before it looks at the buffer again.        *)
(***************************************************************************)
InGetchar == (Calls("getchar") /\ Current \in Readers) \/ At("getchar")

getchar_read ==
    /\ InGetchar
    /\ cb.len > 0
    /\ cb' = circular_buffer_read(cb)
    /\ waiter' = IF At("getchar") THEN NULL ELSE waiter
    /\ Goto("user")
    /\ UNCHANGED <<sched, timers, key, led, esc, line, down>>

getchar_sleep ==
    /\ InGetchar
    /\ cb.len = 0
    /\ waiter' = Current
    /\ sched' = Block(sched)
    /\ Goto("getchar")
    /\ UNCHANGED <<timers, key, led, esc, cb, line, down>>

-----------------------------------------------------------------------------
KeyboardInit ==
    /\ SchedInit
    /\ key = {} /\ led = {} /\ esc = "none"
    /\ cb = circular_buffer_init
    /\ waiter = NULL
    /\ line = <<>> /\ down = {}

Handler ==
    \/ \E p \in {"e0", "e1"} : handle_prefix(p)
    \/ \E k \in AllKeys, up \in BOOLEAN : keyboard_handler(k, up)

KeyboardNext ==
    \/ SchedNext /\ UNCHANGED keyboardVars
    \/ \E k \in Keys, up \in BOOLEAN : press(k, up)
    \/ Handler
    \/ getchar_read
    \/ getchar_sleep

KeyboardSpec == KeyboardInit /\ [][KeyboardNext]_allVars

-----------------------------------------------------------------------------
(***************************************************************************)
(* Properties.                                                             *)
(***************************************************************************)
Sent == {Char, Cursor, Tilde, Function}

\* Once the scan codes of a key have been read, the driver's modifier bits are
\* those of the keys that are held down, the left and the right ones apart,
\* and no prefix is left over.
ModifiersMatch == line = <<>> => key = down /\ esc = "none"

\* No reader sleeps while there is something to read.
NoSleepOnData ==
    \A t \in Readers : pc[t] = "getchar" /\ t \notin sched.linked => cb.len = 0 /\ waiter = t

\* The bytes in the buffer, in the order in which they will be read, are those
\* that the keys sent: in order, once, and none of a sequence without the rest.
Content == [j \in 1..cb.len |-> cb.buffer[(cb.read + j - 1) % Size]]
Input == INSTANCE InputSpec WITH
             Units <- Sent, queue <- Content
ImplementsInput == Input!Spec
=============================================================================
