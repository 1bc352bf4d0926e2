------------------------------ MODULE Library ------------------------------
(***************************************************************************)
(* The C library of the kernel: the functions of lib/string.c, lib/stdlib.c,*)
(* lib/stdio.c and include/ctype.h that the shell and the console use.     *)
(*                                                                         *)
(* A character is its code.  Memory is a function from addresses to        *)
(* characters, and a pointer an address; where a function only reads a     *)
(* string, the string is the sequence of its characters without the NUL.   *)
(* LONG_MAX is a parameter: a long has any size up to 32 bits, and ints and *)
(* addresses have that of a long.                                          *)
(*                                                                         *)
(* The state is a number on which the functions are tried.                 *)
(***************************************************************************)
EXTENDS Integers, SequencesExt

CONSTANT LONG_MAX

\* 36 is a base that fits.
ASSUME LibraryAssumption == LONG_MAX \in Nat /\ LONG_MAX > 17

\* Nor has an address more than the 32 bits, or 8 digits, that a %p writes.
INT32_MAX == 2147483647
ASSUME AddressAssumption == LONG_MAX <= INT32_MAX

VARIABLE number     \* or NULL, after the last one

NUL == 0
BS == 8
TAB == 9
NL == 10
CR == 13
SPACE == 32
PLUS == 43
MINUS == 45
ZERO == 48
X == 120
NULL == -1

\* The code of a conversion of printf().
Percent == [percent |-> 37, X |-> 88, c |-> 99, d |-> 100, i |-> 105, l |-> 108,
            o |-> 111, p |-> 112, s |-> 115, u |-> 117, x |-> 120]

-----------------------------------------------------------------------------
(***************************************************************************)
(* include/ctype.h.                                                        *)
(***************************************************************************)
islower(c) == c \in 97..122
isupper(c) == c \in 65..90
isalpha(c) == isupper(c) \/ islower(c)
isdigit(c) == c \in 48..57
isspace(c) == c \in {9, 10, 11, 12, 13, 32}
isprint(c) == c \in 32..126
tolower(c) == IF isupper(c) THEN c - 65 + 97 ELSE c

-----------------------------------------------------------------------------
(***************************************************************************)
(* lib/string.c.                                                           *)
(***************************************************************************)
\* The first address from p on at which P holds: where a scan ends.
Scan(m, p, P(_)) == Min({q \in DOMAIN m : q >= p /\ P(m[q])})

strlen(m, p) == Scan(m, p, LAMBDA c : c = NUL) - p

\* The string at p.
String(m, p) == [k \in 1..strlen(m, p) |-> m[p + k - 1]]

\* Character k of the string s, counted from 1.
At(s, k) == IF k <= Len(s) THEN s[k] ELSE NUL

\* strcmp() = 0: no character differs up to the NUL of one of the two.
strcmp_equal(s, t) == \A k \in 1..(Min({Len(s), Len(t)}) + 1) : At(s, k) = At(t, k)

\* strchr() finds the NUL at the end of a string, too.
strchr(s, c) == c = NUL \/ c \in ToSet(s)

\* Bytes are copied one by one, upwards, so that a byte may be read after it
\* has been written.
CopyUp(m, dest, src, n) ==
    LET Copied[k \in 0..n] ==
            IF k = 0 THEN m
            ELSE LET c == Copied[k - 1] IN [c EXCEPT ![dest + k - 1] = c[src + k - 1]]
    IN  Copied[n]

\* Downwards the copy starts with the byte after the last one.
CopyDown(m, dest, src, n) ==
    LET Copied[k \in 0..n] ==
            IF k = 0 THEN m
            ELSE LET c == Copied[k - 1] IN [c EXCEPT ![dest + n - k + 1] = c[src + n - k + 1]]
    IN  Copied[n]

memmove(m, dest, src, n) ==
    IF dest < src THEN CopyUp(m, dest, src, n)
    ELSE IF dest > src THEN CopyDown(m, dest, src, n)
    ELSE m

\* Mutant: the character after a token is not overwritten.
StrtokKeepsDelimiter(m, str, delim) ==
    LET ptr == Scan(m, str, LAMBDA c : c = NUL \/ ~strchr(delim, c))
        end == Scan(m, ptr + 1, LAMBDA c : strchr(delim, c))
    IN  IF m[ptr] = NUL THEN [tok |-> NULL, mem |-> m, save |-> ptr]
        ELSE [tok |-> ptr, mem |-> m, save |-> IF m[end] = NUL THEN end ELSE end + 1]

\* strtok_r(): the token at or after str, memory with a NUL after the token,
\* and what is stored to *saveptr.
strtok_r(m, str, delim) ==
    LET ptr == Scan(m, str, LAMBDA c : c = NUL \/ ~strchr(delim, c))
        end == Scan(m, ptr + 1, LAMBDA c : strchr(delim, c))
    IN  IF m[ptr] = NUL THEN [tok |-> NULL, mem |-> m, save |-> ptr]
        ELSE [tok |-> ptr, mem |-> [m EXCEPT ![end] = NUL],
              save |-> IF m[end] = NUL THEN end ELSE end + 1]

-----------------------------------------------------------------------------
(***************************************************************************)
(* lib/stdlib.c: numbers that are read.                                    *)
(***************************************************************************)
ULONG_MAX == 2 * LONG_MAX + 1
LONG_MIN == -LONG_MAX - 1

\* What is left of a number in an unsigned long.
Wrapped(v) == v % (ULONG_MAX + 1)

\* The digit that c stands for; no digit is 36 or more.
DigitOf(c) ==
    CASE isdigit(c) -> c - ZERO
      [] isalpha(c) -> tolower(c) - (97 - 10)
      [] OTHER -> 36

\* Mutant: the test for overflow leaves out the digit.
OverflowsWithoutDigit(val, c, base) == val > ULONG_MAX \div base

Overflows(val, c, base) == val > (ULONG_MAX - c) \div base

\* The first place of s from k on at which P holds.
First(s, k, P(_)) == Min({j \in k..(Len(s) + 1) : P(At(s, j))})

Hex(s, k) == At(s, k) = ZERO /\ tolower(At(s, k + 1)) = X

DetectBase(s, k) ==
    CASE Hex(s, k) -> 16
      [] ~Hex(s, k) /\ At(s, k) = ZERO -> 8
      [] OTHER -> 10

\* The value of digits and whether it has overflowed.
Accumulate(digits, base) ==
    FoldLeft(LAMBDA r, c : [val |-> Wrapped(r.val * base + DigitOf(c)),
                            ovf |-> r.ovf \/ Overflows(r.val, DigitOf(c), base)],
             [val |-> 0, ovf |-> FALSE], digits)

\* The digits from k on, and the place after them.
Digits(s, k, base) ==
    LET end == First(s, k, LAMBDA c : DigitOf(c) >= base)
        acc == Accumulate(SubSeq(s, k, end - 1), base)
    IN  [val |-> acc.val, ovf |-> acc.ovf, parsed |-> end > k, end |-> end]

\* The number from k on, after its sign.
Unsigned(s, k, base) == Digits(s, IF base = 16 /\ Hex(s, k) THEN k + 2 ELSE k, base)

\* With the sign at k.
Signed(s, k, base) ==
    LET num == IF At(s, k) \in {MINUS, PLUS} THEN k + 1 ELSE k
        u == Unsigned(s, num, IF base = 0 THEN DetectBase(s, num) ELSE base)
    IN  [val |-> u.val, ovf |-> u.ovf, parsed |-> u.parsed, end |-> u.end,
         neg |-> At(s, k) = MINUS]

\* __strtoul(): the value, the flags, and the place after the last digit.  The
\* base is 0 or 2 to 36, as it is for all callers.
__strtoul(s, base) == Signed(s, First(s, 1, LAMBDA c : ~isspace(c)), base)

\* What strtol() and strtoul() return, with errno and *endptr.
Result(val, errno, end) == [val |-> val, errno |-> errno, end |-> end]

LongOf(v) ==
    CASE ~v.parsed -> Result(0, "EINVAL", 1)
      [] v.parsed /\ v.neg -> IF v.ovf \/ v.val > LONG_MAX + 1
                              THEN Result(LONG_MIN, "ERANGE", v.end)
                              ELSE Result(-v.val, "none", v.end)
      [] OTHER -> IF v.ovf \/ v.val > LONG_MAX THEN Result(LONG_MAX, "ERANGE", v.end)
                                               ELSE Result(v.val, "none", v.end)

strtol(s, base) == LongOf(__strtoul(s, base))

UnsignedLongOf(v) ==
    CASE ~v.parsed -> Result(0, "EINVAL", 1)
      [] v.parsed /\ v.ovf -> Result(ULONG_MAX, "ERANGE", v.end)
      [] OTHER -> Result(IF v.neg THEN Wrapped(-v.val) ELSE v.val, "none", v.end)

strtoul(s, base) == UnsignedLongOf(__strtoul(s, base))

-----------------------------------------------------------------------------
(***************************************************************************)
(* lib/stdio.c: what printf() writes, as the sequence of the characters    *)
(* given to putchar().                                                     *)
(***************************************************************************)
\* Mutant: one character too many.
PadTooFar(ctx, s) == [k \in 1..(ctx.min_width - Len(s) + 1) |-> ctx.pad] \o s

print_str(ctx, s) == [k \in 1..(ctx.min_width - Len(s)) |-> ctx.pad] \o s

\* The digits that __print_number() stores from the end of a buffer of 12
\* characters, and the sign in front of them.
PRINT_BUFFER == 12

NumberText(neg, n, base, letters) ==
    LET Text[v \in Nat] ==
            LET d == v % base
                c == IF d < 10 THEN ZERO + d ELSE letters + d - 10
            IN  IF v < base THEN <<c>> ELSE Append(Text[v \div base], c)
    IN  (IF neg THEN <<MINUS>> ELSE <<>>) \o Text[n]

print_unsigned(ctx, n, base) == print_str(ctx, NumberText(FALSE, n, base, 97))

\* -n is that of an int: it wraps for the least one, and the unsigned int it is
\* then passed as is right again.
print_number(ctx, n, base) ==
    print_str(ctx, NumberText(n < 0, Wrapped(IF n < 0 THEN -n ELSE n), base, 97))

\* With a min_width of more than 1 the loop never ends; no format asks for it.
print_char(ctx, c) == <<c>>

\* The conversions that take an argument.
Converted(ctx, c, arg) ==
    CASE c \in {Percent.i, Percent.d} -> print_number(ctx, arg, 10)
      [] c = Percent.X -> print_str(ctx, NumberText(FALSE, arg, 16, 65))
      [] c = Percent.p -> <<ZERO, X>> \o
                              print_unsigned([pad |-> ZERO, min_width |-> 8], arg, 16)
      [] c = Percent.x -> print_unsigned(ctx, arg, 16)
      [] c = Percent.u -> print_unsigned(ctx, arg, 10)
      [] c = Percent.o -> print_unsigned(ctx, arg, 8)
      [] c = Percent.s -> print_str(ctx, arg)
      [] c = Percent.c -> print_char(ctx, arg)

\* printf() after some characters of its format: what it has printed, the
\* arguments left, the context, and whether it is outside of a conversion, at
\* its beginning or after an l, after a 0, or after the digits of the width.
PrintStart(args) == [out |-> <<>>, args |-> args, pad |-> SPACE, min_width |-> 0, at |-> "text"]

Takes(c) == c \in {Percent[v] : v \in DOMAIN Percent \ {"percent", "l"}}

\* The next character.  In a conversion l is passed over, a 0 chooses the
\* padding, digits add to the width, and any other character ends it: one that
\* is no conversion, or follows a 0, stands for itself.
PrintStep(p, c) ==
    CASE p.at = "text" ->
             IF c = Percent.percent THEN [PrintStart(p.args) EXCEPT !.out = p.out, !.at = "begin"]
             ELSE [p EXCEPT !.out = Append(@, c)]
      [] p.at # "text" /\ isdigit(c) /\ (p.at # "begin" \/ c # ZERO) ->
             [p EXCEPT !.min_width = @ * 10 + c - ZERO, !.at = "width"]
      [] p.at = "begin" /\ c = ZERO -> [p EXCEPT !.pad = ZERO, !.at = "zero"]
      [] p.at \in {"begin", "width"} /\ c = Percent.l -> [p EXCEPT !.at = "begin"]
      [] p.at \in {"begin", "width"} /\ Takes(c) ->
             [p EXCEPT !.out = @ \o Converted(p, c, Head(p.args)), !.args = Tail(@), !.at = "text"]
      [] OTHER -> [p EXCEPT !.out = @ \o print_char(p, c), !.at = "text"]

\* No format of the repository ends within a conversion.
printf(format, args) == FoldLeft(PrintStep, PrintStart(args), format).out

-----------------------------------------------------------------------------
(***************************************************************************)
(* lib/hexdump.c.                                                          *)
(***************************************************************************)
\* The formats "%p:" and " %02x".
DumpAddress == <<Percent.percent, Percent.p, 58>>
DumpByte == <<SPACE, Percent.percent, ZERO, ZERO + 2, Percent.x>>

\* A line for the size bytes at ptr, or the first 16 of them.
DumpLine(m, ptr, size) ==
    LET Byte(i) == (IF i = 8 THEN <<SPACE>> ELSE <<>>) \o
                  (IF i < size THEN printf(DumpByte, <<m[ptr + i]>>)
                               ELSE <<SPACE, SPACE, SPACE>>)
        Text(c) == IF isprint(c) THEN c ELSE 46
    IN  printf(DumpAddress, <<ptr>>)
            \o FlattenSeq([i \in 1..16 |-> Byte(i - 1)]) \o <<SPACE, 124>>
            \o [i \in 1..Min({16, size}) |-> Text(m[ptr + i - 1])] \o <<124, NL>>

\* The lines: the bytes go 16 by 16.
hexdump(m, ptr, size) ==
    [l \in 1..((size + 15) \div 16) |-> DumpLine(m, ptr + 16 * (l - 1), size - 16 * (l - 1))]

-----------------------------------------------------------------------------
(***************************************************************************)
(* Every number is tried, up to three times what an unsigned long holds.   *)
(***************************************************************************)
MaxNumber == 3 * (ULONG_MAX + 1)

LibraryInit == number = 0

LibraryNext ==
    /\ number # NULL
    /\ number' = IF number < MaxNumber THEN number + 1 ELSE NULL

-----------------------------------------------------------------------------
(***************************************************************************)
(* Properties.                                                             *)
(***************************************************************************)
Bases == {8, 10, 16}
Prefix(b) == CASE b = 8 -> <<ZERO>> [] b = 10 -> <<>> [] b = 16 -> <<ZERO, X>>

\* strtol() and strtoul() read a number in octal, decimal and hexadecimal, with
\* blanks and a sign before it, told the base or finding it out, up to the first
\* character that is no digit; what is out of range is the nearest number in
\* range, and ERANGE, however often the value has wrapped.
NumbersRead ==
    \A b \in Bases, sign \in {<<>>, <<PLUS>>, <<MINUS>>},
       rest \in {<<>>, <<SPACE, ZERO>>, <<122>>} : number # NULL =>
        LET text == <<SPACE, TAB>> \o sign \o Prefix(b) \o NumberText(FALSE, number, b, 97)
            v == IF sign = <<MINUS>> THEN -number ELSE number
            Is(r, val, fits) == r = [val |-> val, errno |-> IF fits THEN "none" ELSE "ERANGE",
                                     end |-> Len(text) + 1]
        IN  \A base \in {0, b} :
                /\ Is(strtol(text \o rest, base),
                      Max({LONG_MIN, Min({LONG_MAX, v})}), v \in LONG_MIN..LONG_MAX)
                /\ Is(strtoul(text \o rest, base),
                      IF number <= ULONG_MAX THEN Wrapped(v) ELSE ULONG_MAX,
                      number <= ULONG_MAX)

\* The value of a sequence of digits.
ValueOf(s, b) == FoldLeft(LAMBDA v, c : v * b + DigitOf(c), 0, s)

\* printf("%04lx", k), say: '%', the padding, the width, l and the conversion.
Printed(zero, width, char, k) ==
    printf(<<Percent.percent>> \o (IF zero THEN <<ZERO>> ELSE <<>>) \o
           (IF width > 0 THEN <<ZERO + width>> ELSE <<>>) \o <<Percent.l, char>>, <<k>>)

\* A number has the digits of its value and no more, after as many zeros or
\* blanks as the width asks for.
PrintedRight(s, base, width, pad, k) ==
    \E first \in 1..Len(s) :
        /\ Len(s) = Max({Len(s) - first + 1, width})
        /\ \A i \in 1..(first - 1) : s[i] = pad
        /\ s[first] # ZERO \/ first = Len(s)
        /\ ValueOf(SubSeq(s, first, Len(s)), base) = k

\* Byte i of a dump is in the line of its address, in its column.
DumpedRight(m, ptr, lines, i) ==
    LET l == lines[(i \div 16) + 1]
        c == 13 + 3 * (i % 16) + (IF i % 16 < 8 THEN 0 ELSE 1)
    IN  /\ ValueOf(SubSeq(l, 3, 10), 16) = ptr + i - (i % 16)
        /\ ValueOf(SubSeq(l, c, c + 1), 16) = m[ptr + i]
        /\ l[c + 2] = SPACE

\* What is printed can be read back: numbers in every base and width, also
\* negative ones, in the 12 bytes there are for the digits of a full word, and
\* a dump of any size, which holds every byte once.
PrintedReadsBack ==
    number \in 0..ULONG_MAX =>
        /\ \A w \in 0..4, f \in {<<Percent.u, 10>>, <<Percent.x, 16>>, <<Percent.o, 8>>} :
               /\ PrintedRight(Printed(FALSE, w, f[1], number), f[2], w, SPACE, number)
               /\ w > 0 => PrintedRight(Printed(TRUE, w, f[1], number), f[2], w, ZERO, number)
        /\ number <= LONG_MAX + 1 =>
               Printed(FALSE, 0, Percent.d, -number) =
                   NumberText(number > 0, number, 10, 97)
        /\ LET m == [a \in 0..(number + 2) |-> (a * 11 + 3) % 256]
               lines == hexdump(m, 3, number)
           IN  /\ Len(lines) = (number + 15) \div 16
               /\ \A i \in 0..(number - 1) : DumpedRight(m, 3, lines, i)
        /\ \A b \in {8, 10} : Len(NumberText(b = 10, INT32_MAX, b, 97)) < PRINT_BUFFER
=============================================================================
