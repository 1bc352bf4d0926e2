----------------------------- MODULE ShellProofs -----------------------------
(***************************************************************************)
(* The line that is typed and the command that is run, for every size of   *)
(* the screen and of the line, every prompt and every table of commands;   *)
(* and the numbers that are read and printed, for every size of a long.    *)
(***************************************************************************)
EXTENDS Shell, FiniteSetTheorems, WellFoundedInduction, TLAPS

-----------------------------------------------------------------------------
(***************************************************************************)
(* Induction: over a set of numbers, since a set can be named in a proof.  *)
(***************************************************************************)
Below == {ss \in Nat \X Nat : ss[1] < ss[2]}

\* A set of numbers has a smallest one: where a scan of the library ends.
LEMMA MinOfSet ==
    ASSUME NEW A \in SUBSET Nat, A # {}
    PROVE  Min(A) \in A /\ \A a \in A : Min(A) <= a
<1>1. IsWellFoundedOn(Below, Nat)
  BY NatLessThanWellFounded DEF OpToRel, Below
<1>2. PICK m \in A : \A x \in A : <<x, m>> \notin Below
  BY <1>1, WFMin, Zenon
<1>3. ASSUME NEW x \in A PROVE m <= x
  <2>1. x \in Nat /\ m \in Nat /\ <<x, m>> \notin Below
    BY <1>2
  <2> QED BY <2>1 DEF Below
<1> QED BY <1>3 DEF Min

\* A set of numbers that has 0 and the successor of each of its numbers has
\* every number: a loop that goes up one by one.
LEMMA Induction ==
    ASSUME NEW A \in SUBSET Nat, 0 \in A, \A k \in A : k + 1 \in A
    PROVE  \A k \in Nat : k \in A
<1> DEFINE T == Nat \ A
<1>1. ASSUME T # {} PROVE FALSE
  <2>0. T \in SUBSET Nat
    OBVIOUS
  <2>1. PICK m \in T : \A x \in T : m <= x
    BY <1>1, <2>0, MinOfSet
  <2>2. m \in Nat /\ m # 0
    BY <2>1
  <2>3. m - 1 \in Nat /\ m - 1 < m /\ m = (m - 1) + 1
    BY <2>2
  <2>4. m - 1 \in A
    BY <2>1, <2>2, <2>3
  <2> QED BY <2>1, <2>3, <2>4
<1> QED BY <1>1

\* A bounded set of numbers has a greatest one.
LEMMA MaxOfSet ==
    ASSUME NEW m \in Nat, NEW A \in SUBSET (1..m), A # {}
    PROVE  Max(A) \in A /\ \A a \in A : a <= Max(A)
<1> DEFINE B == {m - a : a \in A}
<1>1. B \in SUBSET Nat /\ B # {}
  <2>1. ASSUME NEW a \in A PROVE m - a \in Nat
    OBVIOUS
  <2>2. PICK a \in A : TRUE
    OBVIOUS
  <2>3. m - a \in B
    BY <2>2
  <2> QED BY <2>1, <2>3
<1>2. PICK b \in B : \A x \in B : b <= x
  BY <1>1, MinOfSet
<1>3. PICK a \in A : b = m - a
  BY <1>2
<1>4. ASSUME NEW x \in A PROVE a >= x
  <2>1. b <= m - x /\ x \in Nat /\ a \in Nat
    BY <1>2
  <2> QED BY <1>3, <2>1
<1> QED BY <1>4 DEF Max

\* f is a step from S to S that may look at an element of C.
StepOn(f, S, C) == f \in [S \X C -> S]

Loops(g, S, f, base, len) ==
    /\ g \in [0..len -> S]
    /\ g[0] = base /\ \A k \in 1..len : g[k] = f[<<g[k - 1], k>>]

\* A loop that ends after so many steps is a function on their numbers.
LEMMA Iterated ==
    ASSUME NEW S, NEW f, StepOn(f, S, Nat), NEW base \in S, NEW len \in Nat
    PROVE  \E g : Loops(g, S, f, base, len)
<1> USE DEF StepOn
<1> DEFINE Runs(g, m) == g[0] = base /\ \A k \in 1..m : g[k] = f[<<g[k - 1], k>>]
           A == {m \in Nat : \E g \in [0..m -> S] : Runs(g, m)}
<1>1. 0 \in A
  <2> DEFINE g == [k \in 0..0 |-> base]
  <2>1. g \in [0..0 -> S] /\ Runs(g, 0)
    OBVIOUS
  <2> QED BY <2>1
<1>2. ASSUME NEW m \in A PROVE m + 1 \in A
  <2>1. PICK g \in [0..m -> S] : Runs(g, m)
    OBVIOUS
  <2> DEFINE h == [k \in 0..(m + 1) |-> IF k <= m THEN g[k] ELSE f[<<g[m], m + 1>>]]
  <2>2. m \in Nat /\ g[m] \in S
    BY <2>1
  <2>3. f[<<g[m], m + 1>>] \in S
    BY <2>2
  <2>4. h \in [0..(m + 1) -> S]
    BY <2>1, <2>2, <2>3
  <2>5. h[0] = base
    BY <2>1, <2>2
  <2>6. ASSUME NEW k \in 1..(m + 1) PROVE h[k] = f[<<h[k - 1], k>>]
    <3>1. k - 1 \in 0..(m + 1) /\ k - 1 <= m /\ h[k - 1] = g[k - 1]
      BY <2>2
    <3>2. CASE k <= m
      BY <2>1, <2>2, <3>1, <3>2
    <3>3. CASE k = m + 1
      BY <2>2, <3>1, <3>3
    <3> QED BY <2>2, <3>2, <3>3
  <2>7. m + 1 \in Nat
    BY <2>2
  <2> HIDE DEF h
  <2>8. Runs(h, m + 1)
    BY <2>5, <2>6
  <2> HIDE DEF Runs
  <2> QED BY <2>4, <2>7, <2>8, Zenon
<1>3. A \in SUBSET Nat
  OBVIOUS
<1>4. len \in A
  <2> HIDE DEF A
  <2> QED BY <1>1, <1>2, <1>3, Induction
<1> QED BY <1>4 DEF Loops

\* The same for the steps of FoldLeft, which go by sets of places.
Solves(g, S, f, base, s) ==
    /\ g \in [SUBSET (1..Len(s)) -> S]
    /\ \A a \in SUBSET (1..Len(s)) :
           g[a] = IF a = {} THEN base ELSE f[<<g[a \ {Max(a)}], s[Max(a)]>>]

\* What FoldLeft computes exists.
LEMMA FoldSets ==
    ASSUME NEW S, NEW C, NEW f, StepOn(f, S, C), NEW base \in S, NEW s \in Seq(C)
    PROVE  \E g : Solves(g, S, f, base, s)
<1> USE DEF StepOn
<1> DEFINE Eq(g, a) == g[a] = IF a = {} THEN base ELSE f[<<g[a \ {Max(a)}], s[Max(a)]>>]
           A == {m \in Nat : m <= Len(s) =>
                    \E g \in [SUBSET (1..m) -> S] : \A a \in SUBSET (1..m) : Eq(g, a)}
<1>1. 0 \in A
  <2> DEFINE g == [a \in SUBSET (1..0) |-> base]
  <2>1. g \in [SUBSET (1..0) -> S]
    OBVIOUS
  <2>2. ASSUME NEW a \in SUBSET (1..0) PROVE Eq(g, a)
    <3>1. a = {}
      OBVIOUS
    <3> QED BY <3>1
  <2> HIDE DEF g, Eq
  <2> QED BY <2>1, <2>2
<1>2. ASSUME NEW m \in A PROVE m + 1 \in A
  <2> HIDE DEF Eq
  <2>2. m \in Nat /\ m + 1 \in Nat /\ Len(s) \in Nat
    OBVIOUS
  <2>1. SUFFICES ASSUME m + 1 <= Len(s)
                 PROVE  \E g \in [SUBSET (1..(m + 1)) -> S] : \A a \in SUBSET (1..(m + 1)) : Eq(g, a)
    BY <2>2
  <2>8. m <= Len(s)
    BY <2>1, <2>2
  <2>3. PICK g \in [SUBSET (1..m) -> S] : \A a \in SUBSET (1..m) : Eq(g, a)
    BY <2>8, Zenon
  <2> USE DEF Eq
  <2> DEFINE h == [a \in SUBSET (1..(m + 1)) |->
                      IF a = {} THEN base ELSE f[<<g[a \ {Max(a)}], s[Max(a)]>>]]
  <2>4. ASSUME NEW a \in SUBSET (1..(m + 1)), a # {}
        PROVE  Max(a) \in 1..(m + 1) /\ a \ {Max(a)} \in SUBSET (1..m) /\ s[Max(a)] \in C
    <3>1. Max(a) \in a /\ \A x \in a : x <= Max(a)
      BY <2>2, <2>4, MaxOfSet, Zenon
    <3>4. Max(a) \in 1..(m + 1)
      BY <3>1
    <3>2. ASSUME NEW x \in a \ {Max(a)} PROVE x \in 1..m
      <4>1. x \in 1..(m + 1) /\ x <= Max(a) /\ x # Max(a)
        BY <3>1
      <4> QED BY <2>2, <3>4, <4>1
    <3>3. Max(a) \in 1..Len(s)
      BY <2>1, <2>2, <3>4
    <3>5. a \ {Max(a)} \in SUBSET (1..m)
      BY <3>2, Zenon
    <3>6. s[Max(a)] \in C
      BY <3>3
    <3> QED BY <3>4, <3>5, <3>6, Zenon
  <2>5. ASSUME NEW a \in SUBSET (1..m) PROVE h[a] = g[a]
    <3>1. a \in SUBSET (1..(m + 1))
      BY <2>2
    <3> QED BY <2>3, <3>1
  <2>6. h \in [SUBSET (1..(m + 1)) -> S]
    BY <2>3, <2>4
  <2>7. ASSUME NEW a \in SUBSET (1..(m + 1)) PROVE Eq(h, a)
    <3>1. CASE a = {}
      BY <3>1
    <3>2. CASE a # {}
      <4>1. h[a \ {Max(a)}] = g[a \ {Max(a)}]
        BY <2>4, <2>5, <3>2
      <4>2. h[a] = f[<<g[a \ {Max(a)}], s[Max(a)]>>]
        BY <3>2
      <4> QED BY <3>2, <4>1, <4>2
    <3> QED BY <3>1, <3>2
  <2> HIDE DEF h, Eq
  <2> QED BY <2>6, <2>7
<1>3. A \in SUBSET Nat
  OBVIOUS
<1>4. Len(s) \in A
  <2> HIDE DEF A
  <2> QED BY <1>1, <1>2, <1>3, Induction
<1> HIDE DEF Eq
<1>5. Len(s) <= Len(s)
  OBVIOUS
<1>6. \E g \in [SUBSET (1..Len(s)) -> S] : \A a \in SUBSET (1..Len(s)) : Eq(g, a)
  BY <1>4, <1>5, Zenon
<1> QED BY <1>6 DEF Eq, Solves

\* FoldLeft takes the places in order.
LEMMA LastPlace ==
    ASSUME NEW k \in Nat, k > 0
    PROVE  Max(1..k) = k /\ (1..k) \ {Max(1..k)} = 1..(k - 1)
<1>1. Max(1..k) \in 1..k /\ \A a \in 1..k : a <= Max(1..k)
  <2>1. 1..k \in SUBSET (1..k) /\ 1 \in 1..k
    OBVIOUS
  <2>2. 1..k # {}
    BY <2>1
  <2> QED BY <2>1, <2>2, MaxOfSet, Zenon
<1>2. Max(1..k) = k
  BY <1>1
<1> QED BY <1>2

\* A fold goes through the sequence place by place, where its step is f.
Goes(H, S, f, base, s) ==
    /\ \A a \in SUBSET (1..Len(s)) : a = {} => H[a] = base
    /\ \A a \in SUBSET (1..Len(s)) :
           a # {} /\ H[a \ {Max(a)}] \in S => H[a] = f[<<H[a \ {Max(a)}], s[Max(a)]>>]

Chain(g, S, f, base, s, H) ==
    /\ g \in [0..Len(s) -> S] /\ g[Len(s)] = H[1..Len(s)]
    /\ g[0] = base /\ \A k \in 1..Len(s) : g[k] = f[<<g[k - 1], s[k]>>]

\* So does one that FoldLeft takes.
LEMMA FoldChain ==
    ASSUME NEW S, NEW C, NEW f, StepOn(f, S, C), NEW base \in S, NEW s \in Seq(C), NEW H,
           Goes(H, S, f, base, s)
    PROVE  \E g : Chain(g, S, f, base, s, H)
<1> USE DEF StepOn, Goes
<1>1. PICK len \in Nat : len = Len(s)
  OBVIOUS
<1> DEFINE A == {k \in Nat : k <= len => H[1..k] \in S}
           g == [k \in 0..len |-> H[1..k]]
<1>2. ASSUME NEW k \in Nat, k + 1 <= len, H[1..k] \in S
      PROVE  H[1..(k + 1)] = f[<<H[1..k], s[k + 1]>>] /\ H[1..(k + 1)] \in S
  <2>1. Max(1..(k + 1)) = k + 1 /\ (1..(k + 1)) \ {Max(1..(k + 1))} = 1..(k + 1 - 1)
    <3>1. PICK j \in Nat : j = k + 1 /\ j > 0
      <4>1. k + 1 \in Nat /\ k + 1 > 0
        OBVIOUS
      <4> QED BY <4>1
    <3>2. Max(1..j) = j /\ (1..j) \ {Max(1..j)} = 1..(j - 1)
      BY <3>1, LastPlace, Zenon
    <3> QED BY <3>1, <3>2
  <2>2. 1..(k + 1 - 1) = 1..k
    OBVIOUS
  <2>3. k + 1 \in 1..(k + 1) /\ k + 1 \in 1..len
    BY <1>2
  <2>4. 1..(k + 1) \in SUBSET (1..len)
    BY <1>2
  <2>5. 1..(k + 1) # {}
    BY <2>3, Zenon
  <2>7. H[(1..(k + 1)) \ {Max(1..(k + 1))}] \in S
    BY <1>2, <2>1, <2>2
  <2>8. H[1..(k + 1)] = f[<<H[(1..(k + 1)) \ {Max(1..(k + 1))}], s[Max(1..(k + 1))]>>]
    BY <1>1, <2>4, <2>5, <2>7, Zenon
  <2>9. H[1..(k + 1)] = f[<<H[1..k], s[k + 1]>>]
    BY <2>1, <2>2, <2>8, Zenon
  <2>6. s[k + 1] \in C
    BY <1>1, <2>3
  <2> QED BY <1>2, <2>9, <2>6
<1>3. H[1..0] = base
  <2>1. 1..0 = {} /\ 1..0 \in SUBSET (1..Len(s))
    OBVIOUS
  <2> QED BY <2>1, Zenon
<1>4. \A k \in Nat : k \in A
  <2>1. 0 \in A
    BY <1>3
  <2>2. ASSUME NEW k \in A PROVE k + 1 \in A
    <3>1. SUFFICES ASSUME k + 1 <= len PROVE H[1..(k + 1)] \in S
      OBVIOUS
    <3>2. k \in Nat /\ k <= len
      BY <3>1
    <3>3. H[1..k] \in S
      BY <3>2
    <3> QED BY <1>2, <3>1, <3>2, <3>3
  <2>3. A \in SUBSET Nat
    OBVIOUS
  <2> HIDE DEF A
  <2> QED BY <2>1, <2>2, <2>3, Induction
<1>5. \A k \in 0..len : H[1..k] \in S
  <2>1. ASSUME NEW k \in 0..len PROVE H[1..k] \in S
    <3>1. k \in Nat /\ k <= len
      OBVIOUS
    <3> QED BY <1>4, <3>1
  <2> QED BY <2>1
<1>6. g \in [0..len -> S] /\ g[0] = base /\ g[len] = H[1..len]
  <2>1. 0 \in 0..len /\ len \in 0..len
    OBVIOUS
  <2>2. g[0] = H[1..0] /\ g[len] = H[1..len]
    BY <2>1, Zenon
  <2>3. g \in [0..len -> S]
    BY <1>5, Zenon
  <2> QED BY <1>3, <2>2, <2>3
<1>7. ASSUME NEW k \in 1..len PROVE g[k] = f[<<g[k - 1], s[k]>>]
  <2>1. PICK j \in Nat : k = j + 1 /\ k - 1 = j /\ j \in 0..len /\ k \in 0..len
    <3>1. k - 1 \in Nat /\ k = (k - 1) + 1 /\ k - 1 \in 0..len /\ k \in 0..len
      OBVIOUS
    <3> QED BY <3>1
  <2>2. g[j] = H[1..j] /\ g[k] = H[1..(j + 1)]
    BY <2>1
  <2>3. H[1..j] \in S /\ j + 1 <= len
    BY <1>5, <2>1
  <2>4. H[1..(j + 1)] = f[<<H[1..j], s[j + 1]>>]
    BY <1>2, <2>3
  <2> QED BY <2>1, <2>2, <2>4
<1> HIDE DEF g
<1> QED BY <1>1, <1>6, <1>7 DEF Chain

-----------------------------------------------------------------------------
(***************************************************************************)
(* The screen.  From the cursor on it is blank.                            *)
(***************************************************************************)
Lines == TEXT_BUFFER_ROWS
Width == TEXT_BUFFER_COLS
LastLine == TEXT_BUFFER_COLS * (TEXT_BUFFER_ROWS - 1)

\* What text_buffer_draw_char() keeps between two characters, and what it has
\* before it looks whether the cursor has left the screen.
Drawn(t, rows) ==
    /\ t \in [row : 0..rows, col : 0..(Width - 1), cell : [Cells -> Nat]]
    /\ \A p \in Cells : p >= Position(t) => t.cell[p] = SPACE

Screens == {t \in [row : 0..(Lines - 1), col : 0..(Width - 1), cell : [Cells -> Nat]] :
                \A p \in Cells : p >= Position(t) => t.cell[p] = SPACE}

\* The places of a line.
LEMMA Places ==
    ASSUME NEW r \in 0..Lines, NEW c \in 0..(Width - 1)
    PROVE  /\ Lines \in Nat /\ Width \in Nat /\ Width > 0 /\ Lines > 0
           /\ r * Width + c \in Nat
           /\ r < Lines => r * Width + c \in Cells
           /\ (r + 1) * Width = r * Width + Width
           /\ (r - 1) * Width = r * Width - Width
           /\ r = Lines => r * Width = LastLine + Width
           /\ LastLine \in Nat /\ LastLine = (Lines - 1) * Width
           /\ Cells = 0..(LastLine + Width - 1)
<1>1. Lines \in Nat /\ Width \in Nat /\ Width > 0 /\ Lines > 0
  BY TextBufferAssumption DEF Lines, Width
<1>2. PICK w \in Nat, h \in Nat : w = Width /\ h = Lines /\ w > 0 /\ h > 0
  BY <1>1
<1>3. r * w \in Nat /\ (r + 1) * w = r * w + w /\ (r - 1) * w = r * w - w
  BY <1>2
<1>4. (h - 1) * w \in Nat /\ w * (h - 1) = (h - 1) * w /\ h * w = (h - 1) * w + w
  BY <1>2
<1>5. ASSUME r < h PROVE r * w <= (h - 1) * w
  <2>1. PICK d \in Nat : h - 1 = r + d
    <3>1. h - 1 - r \in Nat /\ h - 1 = r + (h - 1 - r)
      BY <1>2, <1>5
    <3> QED BY <3>1
  <2>2. (r + d) * w = r * w + d * w /\ d * w \in Nat
    BY <1>2
  <2> QED BY <1>3, <2>1, <2>2
<1>6. LastLine = (h - 1) * w /\ Cells = 0..((h - 1) * w + w - 1)
  BY <1>2, <1>4 DEF LastLine, Cells, Lines, Width
<1> QED BY <1>1, <1>2, <1>3, <1>4, <1>5, <1>6

\* The size of the screen.
LEMMA ScreenSize ==
    /\ Lines \in Nat /\ Width \in Nat /\ Width > 0 /\ Lines > 0
    /\ LastLine \in Nat /\ LastLine = (Lines - 1) * Width
    /\ Lines * Width = LastLine + Width
    /\ Cells = 0..(LastLine + Width - 1)
<1>1. Lines \in 0..Lines /\ 0 \in 0..(Width - 1)
  BY TextBufferAssumption DEF Lines, Width
<1> QED BY <1>1, Places

Copies(m, dest, src, len, g) ==
    g = [k \in 0..len |-> IF k = 0 THEN m
                          ELSE [g[k - 1] EXCEPT ![dest + k - 1] = g[k - 1][src + k - 1]]]

\* memmove() of the lines to the line above, bytes that are read before they are
\* written, moves them all.
LEMMA LinesMove ==
    ASSUME NEW m \in [Cells -> Nat]
    PROVE  /\ memmove(m, 0, Width, LastLine) \in [Cells -> Nat]
           /\ \A p \in Cells : p < LastLine =>
                  p + Width \in Cells /\ memmove(m, 0, Width, LastLine)[p] = m[p + Width]
<1>1. PICK w \in Nat, last \in Nat : w = Width /\ last = LastLine /\ w > 0 /\ Cells = 0..(last + w - 1)
  BY ScreenSize
<1> DEFINE G == [k \in 0..last |-> [p \in Cells |-> IF p < k THEN m[p + w] ELSE m[p]]]
           H == CHOOSE g : Copies(m, 0, Width, LastLine, g)
<1>2. \A k \in 0..last, p \in Cells : p < k => p + w \in Cells
  BY <1>1
<1>3. \A k \in 0..last : G[k] = [p \in Cells |-> IF p < k THEN m[p + w] ELSE m[p]]
  OBVIOUS
<1>4. G[0] = m
  BY <1>1, <1>3
<1>5. ASSUME NEW k \in 0..last, k # 0
      PROVE  G[k] = [G[k - 1] EXCEPT ![0 + k - 1] = G[k - 1][w + k - 1]]
  <2>1. k - 1 \in 0..last /\ 0 + k - 1 = k - 1 /\ k - 1 \in Cells /\ w + k - 1 \in Cells /\ k \in Nat
    BY <1>1, <1>5
  <2>2. G[k - 1] = [p \in Cells |-> IF p < k - 1 THEN m[p + w] ELSE m[p]]
    BY <1>3, <2>1
  <2>3. G[k - 1][w + k - 1] = m[(k - 1) + w]
    <3>1. ~(w + k - 1 < k - 1) /\ w + k - 1 = (k - 1) + w
      BY <1>1, <2>1
    <3> QED BY <2>1, <2>2, <3>1
  <2> DEFINE E == [G[k - 1] EXCEPT ![k - 1] = m[(k - 1) + w]]
  <2>4. E = [p \in Cells |-> IF p = k - 1 THEN m[(k - 1) + w] ELSE IF p < k - 1 THEN m[p + w] ELSE m[p]]
    BY <2>1, <2>2
  <2>5. ASSUME NEW p \in Cells
        PROVE  (IF p = k - 1 THEN m[(k - 1) + w] ELSE IF p < k - 1 THEN m[p + w] ELSE m[p])
               = IF p < k THEN m[p + w] ELSE m[p]
    <3>1. p \in Nat
      BY <1>1
    <3> QED BY <2>1, <3>1
  <2>6. E = G[k]
    BY <1>3, <2>4, <2>5
  <2> QED BY <2>1, <2>3, <2>6
<1> HIDE DEF G
<1>6. Copies(m, 0, w, last, G)
  <2>1. G = [k \in 0..last |-> G[k]]
    BY DEF G
  <2> QED BY <1>4, <1>5, <2>1 DEF Copies
<1>7. Copies(m, 0, w, last, H)
  <2>1. Copies(m, 0, Width, LastLine, G)
    BY <1>1, <1>6
  <2>2. Copies(m, 0, Width, LastLine, H)
    BY <2>1, Zenon
  <2> QED BY <1>1, <2>2
<1>8. memmove(m, 0, Width, LastLine) = H[LastLine]
  <2>1. 0 < Width
    BY <1>1
  <2>2. memmove(m, 0, Width, LastLine) = CopyUp(m, 0, Width, LastLine)
    BY <2>1 DEF memmove
  <2> QED BY <2>2, Zenon DEF CopyUp, Copies
<1> HIDE DEF H
<1> DEFINE A == {k \in Nat : k <= last => H[k] = G[k]}
<1>9. \A k \in Nat : k \in A
  <2>1. 0 \in A
    BY <1>1, <1>4, <1>7 DEF Copies
  <2>2. ASSUME NEW k \in A PROVE k + 1 \in A
    <3>1. SUFFICES ASSUME k + 1 <= last PROVE H[k + 1] = G[k + 1]
      OBVIOUS
    <3>2. k \in Nat /\ k + 1 \in 0..last /\ k + 1 # 0 /\ (k + 1) - 1 = k /\ H[k] = G[k]
      BY <1>1, <3>1
    <3>3. H[k + 1] = [H[k] EXCEPT ![0 + (k + 1) - 1] = H[k][w + (k + 1) - 1]]
      BY <1>7, <3>2 DEF Copies
    <3> QED BY <1>5, <3>2, <3>3
  <2>3. A \in SUBSET Nat
    OBVIOUS
  <2> HIDE DEF A
  <2> QED BY <2>1, <2>2, <2>3, Induction
<1>10. H[last] = G[last]
  BY <1>1, <1>9
<1>11. G[last] = [p \in Cells |-> IF p < last THEN m[p + w] ELSE m[p]]
  <2>1. last \in 0..last
    OBVIOUS
  <2> QED BY <1>3, <2>1, Zenon
<1>12. \A p \in Cells : p < last => p + w \in Cells
  BY <1>1, <1>2
<1> QED BY <1>1, <1>8, <1>10, <1>11, <1>12

\* The cursor goes up with the cells, if at all.
Moved(t, u) ==
    \E d \in Nat :
        /\ Position(u) = Position(t) - d
        /\ \A p \in Cells : p < Position(u) => p + d \in Cells /\ u.cell[p] = t.cell[p + d]

\* The fields of a screen, and where its cursor is.
LEMMA Fields ==
    ASSUME NEW t, Drawn(t, Lines)
    PROVE  /\ t.row \in 0..Lines /\ t.col \in 0..(Width - 1) /\ t.cell \in [Cells -> Nat]
           /\ Position(t) = t.row * Width + t.col /\ Position(t) \in Nat
           /\ t.row < Lines => Position(t) \in Cells /\ t \in Screens
           /\ \A p \in Cells : p \in Nat
<1>1. t.row \in 0..Lines /\ t.col \in 0..(Width - 1) /\ t.cell \in [Cells -> Nat]
  BY DEF Drawn
<1>2. Position(t) = t.row * Width + t.col
  BY DEF Position, Width
<1>3. ASSUME t.row < Lines PROVE t \in Screens
  <2>1. t.row \in 0..(Lines - 1)
    BY <1>1, <1>3, Places
  <2>2. t \in [row : 0..(Lines - 1), col : 0..(Width - 1), cell : [Cells -> Nat]]
    BY <2>1 DEF Drawn
  <2> QED BY <2>2 DEF Drawn, Screens
<1>4. \A p \in Cells : p \in Nat
  BY ScreenSize
<1> QED BY <1>1, <1>2, <1>3, <1>4, Places

\* Between two characters the cursor is on the screen.
LEMMA ScreenDrawn ==
    ASSUME NEW t \in Screens
    PROVE  Drawn(t, Lines) /\ t.row < Lines
<1>1. t.row \in 0..(Lines - 1) /\ Lines \in Nat
  BY TextBufferAssumption DEF Screens, Lines
<1>2. t.row \in 0..Lines /\ t.row < Lines
  BY <1>1
<1>3. t \in [row : 0..Lines, col : 0..(Width - 1), cell : [Cells -> Nat]]
  BY <1>2 DEF Screens
<1> QED BY <1>2, <1>3 DEF Screens, Drawn

\* The lines go up when the cursor has left the screen.
LEMMA ScrollEffect ==
    ASSUME NEW t, Drawn(t, Lines), t.row = Lines => t.col = 0
    PROVE  Scroll(t) \in Screens /\ Moved(t, Scroll(t))
<1>1. /\ t.row \in 0..Lines /\ t.col \in 0..(Width - 1) /\ t.cell \in [Cells -> Nat]
      /\ Position(t) = t.row * Width + t.col /\ Position(t) \in Nat
      /\ \A p \in Cells : p \in Nat
  BY Fields
<1>2. CASE t.row < Lines
  <2>1. Scroll(t) = t
    BY <1>2 DEF Scroll, Lines
  <2>2. Moved(t, t)
    <3>1. \A p \in Cells : p + 0 = p
      BY <1>1
    <3>2. Position(t) = Position(t) - 0
      BY <1>1
    <3> QED BY <3>1, <3>2 DEF Moved
  <2> QED BY <1>2, <2>1, <2>2, Fields
<1>3. CASE t.row = Lines
  <2> DEFINE up == memmove(t.cell, 0, Width, LastLine)
             cell == [p \in Cells |-> IF p >= LastLine THEN SPACE ELSE up[p]]
             u == [row |-> Lines - 1, col |-> t.col, cell |-> cell]
  <2>1. /\ Lines \in Nat /\ Width \in Nat /\ Width > 0 /\ Lines > 0
        /\ LastLine \in Nat /\ LastLine = (Lines - 1) * Width
        /\ Lines * Width = LastLine + Width
        /\ Cells = 0..(LastLine + Width - 1)
    BY ScreenSize
  <2>2. Scroll(t) = u
    <3>1. Scroll(t) = [t EXCEPT !.row = Lines - 1, !.cell = cell]
      BY <1>3, <2>1 DEF Scroll, Lines, Width, LastLine
    <3>2. t = [row |-> t.row, col |-> t.col, cell |-> t.cell]
      BY DEF Drawn
    <3> HIDE DEF cell
    <3> QED BY <3>1, <3>2
  <2>3. up \in [Cells -> Nat] /\ \A p \in Cells : p < LastLine => p + Width \in Cells /\ up[p] = t.cell[p + Width]
    BY <1>1, LinesMove
  <2> HIDE DEF up
  <2>4. cell \in [Cells -> Nat]
    BY <2>3 DEF SPACE
  <2>5. /\ \A p \in Cells : p >= LastLine => cell[p] = SPACE
        /\ \A p \in Cells : p < LastLine => p + Width \in Cells /\ cell[p] = t.cell[p + Width]
    <3>1. \A p \in Cells : cell[p] = IF p >= LastLine THEN SPACE ELSE up[p]
      OBVIOUS
    <3>2. \A p \in Cells : p < LastLine => ~(p >= LastLine)
      BY <1>1, <2>1
    <3> QED BY <2>3, <3>1, <3>2
  <2> HIDE DEF cell
  <2>6. t \in [row : 0..Lines, col : 0..(Width - 1), cell : [Cells -> Nat]] /\ t.col = 0
    BY <1>3 DEF Drawn
  <2>7. u.row = Lines - 1 /\ u.col = 0 /\ u.cell = cell
    BY <2>6
  <2>8. u \in [row : 0..(Lines - 1), col : 0..(Width - 1), cell : [Cells -> Nat]]
    <3>1. Lines - 1 \in 0..(Lines - 1) /\ t.col \in 0..(Width - 1)
      BY <1>1, <2>1
    <3> QED BY <2>4, <3>1
  <2> HIDE DEF u
  <2>9. Position(u) = LastLine
    <3>1. Position(u) = (Lines - 1) * Width + 0
      BY <2>7 DEF Position, Width
    <3> QED BY <2>1, <3>1
  <2>10. Position(t) = LastLine + Width
    BY <1>1, <1>3, <2>1, <2>6
  <2>11. Position(u) = Position(t) - Width
    BY <2>1, <2>9, <2>10
  <2>12. Moved(t, u)
    BY <2>1, <2>5, <2>7, <2>9, <2>11 DEF Moved
  <2>13. u \in Screens
    BY <2>5, <2>7, <2>8, <2>9 DEF Screens
  <2> QED BY <2>2, <2>12, <2>13
<1> QED BY <1>1, <1>2, <1>3, Places

\* A character that is drawn stands before the cursor, and the others before it.
Appended(t, c, u) ==
    \E d \in Nat :
        /\ Position(u) = Position(t) + 1 - d
        /\ \A p \in Cells : p < Position(u) =>
               p + d \in Cells /\ u.cell[p] = IF p + d = Position(t) THEN c ELSE t.cell[p + d]

\* A character of its own is appended, at the end of a line and of the screen too.
LEMMA PlainEffect ==
    ASSUME NEW t \in Screens, NEW c \in Nat
    PROVE  DrawPlain(t, c) \in Screens /\ Appended(t, c, DrawPlain(t, c))
<1> DEFINE pos == Position(t)
           cell == [t.cell EXCEPT ![pos] = c]
           d == [t EXCEPT !.cell[pos] = c]
           x == IF t.col + 1 >= Width THEN Newline(d) ELSE [d EXCEPT !.col = @ + 1]
           u == Scroll(x)
<1>1. DrawPlain(t, c) = u
  BY DEF DrawPlain, text_buffer_draw_char_at, Width
<1>2. /\ t.row \in 0..Lines /\ t.row < Lines /\ t.col \in 0..(Width - 1) /\ t.cell \in [Cells -> Nat]
      /\ pos = t.row * Width + t.col /\ pos \in Nat /\ pos \in Cells
      /\ \A p \in Cells : p \in Nat
  BY Fields, ScreenDrawn
<1>3. /\ Lines \in Nat /\ Width \in Nat /\ Width > 0
      /\ (t.row + 1) * Width = t.row * Width + Width /\ t.row * Width \in Nat
  <2>1. 0 \in 0..(Width - 1)
    BY ScreenSize
  <2>2. t.row * Width + 0 \in Nat /\ t.row \in Nat
    BY <1>2, <2>1, Places
  <2> QED BY <1>2, <2>1, <2>2, Places, ScreenSize
<1>4. cell \in [Cells -> Nat] /\ \A p \in Cells : cell[p] = IF p = pos THEN c ELSE t.cell[p]
  BY <1>2
<1>5. d = [row |-> t.row, col |-> t.col, cell |-> cell]
  BY DEF Screens
<1>6. \A p \in Cells : p >= pos => t.cell[p] = SPACE
  BY DEF Screens
<1> HIDE DEF d, cell, pos
<1>7. /\ x.cell = cell /\ x \in [row : 0..Lines, col : 0..(Width - 1), cell : [Cells -> Nat]]
      /\ x.row * Width + x.col = pos + 1 /\ (x.row = Lines => x.col = 0)
  <2>1. CASE t.col + 1 >= Width
    <3>1. x = [row |-> t.row + 1, col |-> 0, cell |-> cell]
      BY <1>5, <2>1 DEF Newline
    <3>2. t.row + 1 \in 0..Lines /\ 0 \in 0..(Width - 1) /\ t.col + 1 = Width
      BY <1>2, <1>3, <2>1
    <3>3. (t.row + 1) * Width + 0 = pos + 1
      BY <1>2, <1>3, <3>2
    <3> QED BY <1>4, <3>1, <3>2, <3>3
  <2>2. CASE ~(t.col + 1 >= Width)
    <3>1. x = [row |-> t.row, col |-> t.col + 1, cell |-> cell]
      BY <1>5, <2>2
    <3>2. t.row # Lines /\ t.col + 1 \in 0..(Width - 1)
      BY <1>2, <1>3, <2>2
    <3>3. t.row * Width + (t.col + 1) = pos + 1
      BY <1>2, <1>3
    <3> QED BY <1>2, <1>4, <3>1, <3>2, <3>3
  <2> QED BY <2>1, <2>2
<1> HIDE DEF x
<1>8. Position(x) = pos + 1
  <2>1. Position(x) = x.row * Width + x.col
    BY DEF Position, Width
  <2> QED BY <1>7, <2>1
<1>9. Drawn(x, Lines)
  <2>1. ASSUME NEW p \in Cells, p >= pos + 1 PROVE x.cell[p] = SPACE
    <3>1. p # pos /\ p >= pos
      BY <1>2, <2>1
    <3> QED BY <1>4, <1>6, <1>7, <3>1
  <2> QED BY <1>7, <1>8, <2>1 DEF Drawn
<1>10. u \in Screens /\ Moved(x, u)
  BY <1>7, <1>9, ScrollEffect, Zenon
<1> HIDE DEF u
<1>11. PICK e \in Nat : /\ Position(u) = Position(x) - e
                        /\ \A p \in Cells : p < Position(u) => p + e \in Cells /\ u.cell[p] = x.cell[p + e]
  BY <1>10 DEF Moved
<1>12. Position(u) = pos + 1 - e
  <2>1. Position(u) = Position(x) - e
    BY <1>11
  <2> QED BY <1>2, <1>8, <2>1
<1>13. ASSUME NEW p \in Cells, p < Position(u)
       PROVE  p + e \in Cells /\ u.cell[p] = IF p + e = pos THEN c ELSE t.cell[p + e]
  BY <1>4, <1>7, <1>11, <1>13
<1>14. Appended(t, c, u)
  BY <1>12, <1>13 DEF Appended, pos
<1> QED BY <1>1, <1>10, <1>14

\* A newline leaves the rest of its line blank.
LEMMA NewlineEffect ==
    ASSUME NEW t \in Screens
    PROVE  Scroll(Newline(t)) \in Screens
<1> DEFINE x == Newline(t)
<1>1. /\ t.row \in 0..Lines /\ t.row < Lines /\ t.col \in 0..(Width - 1) /\ t.cell \in [Cells -> Nat]
      /\ Position(t) = t.row * Width + t.col /\ Position(t) \in Nat
      /\ \A p \in Cells : p \in Nat
  BY Fields, ScreenDrawn
<1>2. /\ Lines \in Nat /\ Width \in Nat /\ Width > 0 /\ t.row + 1 \in 0..Lines /\ 0 \in 0..(Width - 1)
      /\ (t.row + 1) * Width = t.row * Width + Width
  <2>1. 0 \in 0..(Width - 1) /\ Lines \in Nat /\ Width \in Nat /\ Width > 0
    BY ScreenSize
  <2>2. (t.row + 1) * Width = t.row * Width + Width
    BY <1>1, Places
  <2>3. t.row + 1 \in 0..Lines
    BY <1>1, <2>1
  <2> QED BY <2>1, <2>2, <2>3
<1>3. x = [row |-> t.row + 1, col |-> 0, cell |-> t.cell]
  BY DEF Newline
<1> HIDE DEF x
<1>4. x \in [row : 0..Lines, col : 0..(Width - 1), cell : [Cells -> Nat]] /\ x.cell = t.cell /\ x.col = 0
  BY <1>1, <1>2, <1>3
<1>5. Position(x) = (t.row + 1) * Width + 0
  BY <1>3 DEF Position, Width
<1>6. (t.row + 1) * Width + 0 >= Position(t) /\ (t.row + 1) * Width + 0 \in Nat
  <2>1. t.row * Width \in Nat
    BY <1>1, <1>2
  <2> QED BY <1>1, <1>2, <2>1
<1>7. Position(x) >= Position(t) /\ Position(x) \in Nat
  BY <1>5, <1>6
<1>8. ASSUME NEW p \in Cells, p >= Position(x) PROVE x.cell[p] = SPACE
  <2>1. p >= Position(t)
    BY <1>1, <1>7, <1>8
  <2> QED BY <1>4, <2>1 DEF Screens
<1>9. Drawn(x, Lines)
  BY <1>4, <1>8 DEF Drawn
<1> QED BY <1>4, <1>9, ScrollEffect DEF x

\* A backspace takes the cursor back by one, over the end of a line too, and
\* erases what it meets there.
Erased(t, u) ==
    /\ Position(u) = IF Position(t) = 0 THEN 0 ELSE Position(t) - 1
    /\ \A p \in Cells : p < Position(u) => u.cell[p] = t.cell[p]

\* So does Back(), from the first column too.
LEMMA BackEffect ==
    ASSUME NEW t \in Screens
    PROVE  /\ text_buffer_draw_char_at(Back(t), SPACE) \in Screens
           /\ Erased(t, text_buffer_draw_char_at(Back(t), SPACE))
<1> DEFINE x == Back(t)
           pos == IF Position(t) = 0 THEN 0 ELSE Position(t) - 1
           cell == [t.cell EXCEPT ![pos] = SPACE]
           u == [row |-> x.row, col |-> x.col, cell |-> cell]
<1>1. /\ t.row \in 0..Lines /\ t.row < Lines /\ t.col \in 0..(Width - 1) /\ t.cell \in [Cells -> Nat]
      /\ Position(t) = t.row * Width + t.col /\ Position(t) \in Nat
      /\ \A p \in Cells : p \in Nat
  BY Fields, ScreenDrawn
<1>2. /\ Lines \in Nat /\ Width \in Nat /\ Width > 0 /\ t.row \in Nat /\ t.col \in Nat
      /\ (t.row - 1) * Width = t.row * Width - Width /\ t.row * Width \in Nat
  BY <1>1, ScreenSize, Places
<1>3. t = [row |-> t.row, col |-> t.col, cell |-> t.cell]
  BY DEF Screens
<1>4. /\ x.row \in 0..(Lines - 1) /\ x.col \in 0..(Width - 1) /\ x.row * Width + x.col = pos
      /\ x = [row |-> x.row, col |-> x.col, cell |-> t.cell]
  <2>1. CASE t.col # 0
    <3>1. x = [row |-> t.row, col |-> t.col - 1, cell |-> t.cell]
      BY <1>3, <2>1 DEF Back
    <3>2. t.row \in 0..(Lines - 1) /\ t.col - 1 \in 0..(Width - 1) /\ Position(t) # 0
      BY <1>1, <1>2, <2>1
    <3>3. t.row * Width + (t.col - 1) = pos
      BY <1>1, <1>2, <3>2
    <3> QED BY <3>1, <3>2, <3>3
  <2>2. CASE t.col = 0 /\ t.row # 0
    <3>1. x = [row |-> t.row - 1, col |-> Width - 1, cell |-> t.cell]
      BY <1>3, <2>2 DEF Back, Width
    <3>2. t.row - 1 \in 0..(Lines - 1) /\ Width - 1 \in 0..(Width - 1)
      BY <1>1, <1>2, <2>2
    <3>3. PICK r \in Nat : t.row = r + 1
      <4>1. t.row \in Nat /\ t.row # 0
        BY <1>2, <2>2
      <4>2. t.row - 1 \in Nat /\ t.row = (t.row - 1) + 1
        BY <4>1
      <4> QED BY <4>2
    <3>4. t.row * Width = r * Width + Width /\ r * Width \in Nat
      BY <1>2, <3>3
    <3>5. Position(t) = t.row * Width /\ Position(t) # 0
      BY <1>1, <1>2, <2>2, <3>4
    <3>6. (t.row - 1) * Width + (Width - 1) = pos
      BY <1>2, <3>5
    <3> QED BY <3>1, <3>2, <3>6
  <2>3. CASE t.col = 0 /\ t.row = 0
    <3>1. x = t
      BY <2>3 DEF Back
    <3>2. 0 * Width = 0
      BY <1>2
    <3>3. Position(t) = 0
      BY <1>1, <2>3, <3>2
    <3>4. t.row \in 0..(Lines - 1)
      BY <1>1, <1>2
    <3> QED BY <1>1, <1>3, <2>3, <3>1, <3>2, <3>3, <3>4
  <2> QED BY <2>1, <2>2, <2>3
<1> HIDE DEF x
<1>5. Position(x) = pos
  <2>1. Position(x) = x.row * Width + x.col
    BY DEF Position, Width
  <2> QED BY <1>4, <2>1
<1>6. text_buffer_draw_char_at(x, SPACE) = u
  <2>1. [x EXCEPT !.cell[pos] = SPACE] = u
    BY <1>4
  <2> QED BY <1>5, <2>1 DEF text_buffer_draw_char_at
<1>7. pos \in Cells /\ pos \in Nat
  <2>1. Position(t) \in Cells
    BY Fields, ScreenDrawn
  <2> QED BY <1>1, <2>1, ScreenSize
<1>8. cell \in [Cells -> Nat] /\ \A p \in Cells : cell[p] = IF p = pos THEN SPACE ELSE t.cell[p]
  BY <1>1, <1>7 DEF SPACE
<1> HIDE DEF cell
<1>9. u.row = x.row /\ u.col = x.col /\ u.cell = cell /\ u \in [row : 0..(Lines - 1), col : 0..(Width - 1), cell : [Cells -> Nat]]
  BY <1>4, <1>8
<1> HIDE DEF u
<1>10. Position(u) = pos
  <2>1. Position(u) = u.row * Width + u.col
    BY DEF Position, Width
  <2> QED BY <1>4, <1>9, <2>1
<1>11. ASSUME NEW p \in Cells, p >= pos PROVE u.cell[p] = SPACE
  <2>1. p \in Nat /\ (p = pos \/ p >= Position(t))
    BY <1>1, <1>11
  <2> QED BY <1>8, <1>9, <2>1 DEF Screens
<1>12. u \in Screens
  BY <1>9, <1>10, <1>11 DEF Screens
<1>13. ASSUME NEW p \in Cells, p < pos PROVE u.cell[p] = t.cell[p]
  <2>1. p # pos
    BY <1>1, <1>7, <1>13
  <2> QED BY <1>8, <1>9, <2>1
<1>14. Erased(t, u)
  BY <1>10, <1>13 DEF Erased
<1> QED BY <1>6, <1>12, <1>14 DEF x

\* Characters drawn one after the other leave a screen.
LEMMA DrawsEffect ==
    ASSUME NEW t \in Screens, NEW s \in Seq(Nat)
    PROVE  FoldLeft(DrawPlain, t, s) \in Screens
<1> DEFINE f == [tc \in Screens \X Nat |-> DrawPlain(tc[1], tc[2])]
           Eq(g) == g = [a \in SUBSET DOMAIN s |->
                            IF a = {} THEN t ELSE DrawPlain(g[a \ {Max(a)}], s[Max(a)])]
           H == CHOOSE g : Eq(g)
<1>1. \A u \in Screens, c \in Nat : f[<<u, c>>] = DrawPlain(u, c)
  OBVIOUS
<1>2. f \in [Screens \X Nat -> Screens]
  BY PlainEffect
<1> HIDE DEF f
<1>3. PICK g : Solves(g, Screens, f, t, s)
  <2>1. StepOn(f, Screens, Nat)
    BY <1>2 DEF StepOn
  <2> QED BY <2>1, FoldSets, Zenon
<1>4. DOMAIN s = 1..Len(s) /\ Len(s) \in Nat
  OBVIOUS
<1>5. ASSUME NEW a \in SUBSET (1..Len(s)), a # {}
      PROVE  a \ {Max(a)} \in SUBSET (1..Len(s)) /\ s[Max(a)] \in Nat
  <2>1. Max(a) \in a
    BY <1>4, <1>5, MaxOfSet, Zenon
  <2>2. Max(a) \in 1..Len(s)
    BY <2>1
  <2>3. s[Max(a)] \in Nat
    BY <2>2
  <2>4. a \ {Max(a)} \in SUBSET (1..Len(s))
    BY Zenon
  <2> QED BY <2>3, <2>4
<1>6. Eq(g)
  <2>1. ASSUME NEW a \in SUBSET (1..Len(s))
        PROVE  g[a] = IF a = {} THEN t ELSE DrawPlain(g[a \ {Max(a)}], s[Max(a)])
    <3>1. CASE a = {}
      BY <1>3, <3>1, Zenon DEF Solves
    <3>2. CASE a # {}
      <4>1. g[a \ {Max(a)}] \in Screens /\ s[Max(a)] \in Nat
        BY <1>3, <1>5, <3>2 DEF Solves
      <4>2. f[<<g[a \ {Max(a)}], s[Max(a)]>>] = DrawPlain(g[a \ {Max(a)}], s[Max(a)])
        BY <1>1, <4>1, Zenon
      <4> QED BY <1>3, <3>2, <4>2, Zenon DEF Solves
    <3> QED BY <3>1, <3>2
  <2>2. g = [a \in SUBSET (1..Len(s)) |-> g[a]]
    BY <1>3, Zenon DEF Solves
  <2> QED BY <1>4, <2>1, <2>2, Zenon
<1>7. Eq(H)
  BY <1>6, Zenon
<1>8. FoldLeft(DrawPlain, t, s) = H[1..Len(s)]
  <2>1. FoldLeft(DrawPlain, t, s) = H[DOMAIN s]
    BY Zenon DEF FoldLeft, MapThenFoldSet
  <2> QED BY <1>4, <2>1, Zenon
<1> HIDE DEF H
<1>9. \A a \in SUBSET (1..Len(s)) : H[a] = IF a = {} THEN t ELSE DrawPlain(H[a \ {Max(a)}], s[Max(a)])
  BY <1>4, <1>7, Zenon
<1>10. \A a \in SUBSET (1..Len(s)) : a = {} => H[a] = t
  BY <1>9, Zenon
<1>11. ASSUME NEW a \in SUBSET (1..Len(s)), a # {}, H[a \ {Max(a)}] \in Screens
       PROVE  H[a] = f[<<H[a \ {Max(a)}], s[Max(a)]>>]
  BY <1>1, <1>5, <1>9, <1>11, Zenon
<1>12. PICK h : Chain(h, Screens, f, t, s, H)
  <2> HIDE DEF Eq
  <2>1. StepOn(f, Screens, Nat)
    BY <1>2 DEF StepOn
  <2>2. Goes(H, Screens, f, t, s)
    BY <1>10, <1>11, Zenon DEF Goes
  <2> QED BY <2>1, <2>2, FoldChain, Zenon
<1>13. Len(s) \in 0..Len(s)
  BY <1>4
<1> QED BY <1>8, <1>12, <1>13 DEF Chain

\* Whatever is written, what is left is a screen.
LEMMA PutcharEffect ==
    ASSUME NEW t \in Screens, NEW c \in Nat
    PROVE  /\ putchar(t, c) \in Screens
           /\ c \notin {BS, TAB, NL, CR} => Appended(t, c, putchar(t, c))
           /\ c = BS => Erased(t, putchar(t, c))
<1>1. CASE c = BS
  <2>1. putchar(t, c) = text_buffer_draw_char_at(Back(t), SPACE)
    BY <1>1 DEF putchar, BS, CR, NL, TAB
  <2> QED BY <1>1, <2>1, BackEffect
<1>2. CASE c = CR
  <2>1. putchar(t, c) = t
    BY <1>2 DEF putchar, BS, CR, NL, TAB
  <2> QED BY <1>2, <2>1 DEF BS, CR
<1>3. CASE c = NL
  <2>1. putchar(t, c) = Scroll(Newline(t))
    BY <1>3 DEF putchar, BS, CR, NL, TAB
  <2> QED BY <1>3, <2>1, NewlineEffect DEF BS, NL
<1>4. CASE c = TAB
  <2> DEFINE s == [k \in 1..(8 - (t.col % 8)) |-> SPACE]
  <2>1. putchar(t, c) = FoldLeft(DrawPlain, t, s)
    <3>1. c # BS /\ c # CR /\ c # NL
      BY <1>4 DEF BS, CR, NL, TAB
    <3> QED BY <1>4, <3>1, Zenon DEF putchar
  <2>2. s \in Seq(Nat)
    <3>1. t.col \in Nat
      BY Fields, ScreenDrawn
    <3>2. 8 - (t.col % 8) \in Nat
      BY <3>1
    <3> QED BY <3>2 DEF SPACE
  <2> HIDE DEF s
  <2> QED BY <1>4, <2>1, <2>2, DrawsEffect DEF BS, TAB
<1>5. CASE c \notin {BS, TAB, NL, CR}
  <2>1. putchar(t, c) = DrawPlain(t, c)
    BY <1>5 DEF putchar
  <2> QED BY <1>5, <2>1, PlainEffect
<1> QED BY <1>1, <1>2, <1>3, <1>4, <1>5

\* What is printed goes to the screen character by character.
LEMMA PutsChain ==
    ASSUME NEW t \in Screens, NEW s \in Seq(Nat)
    PROVE  \E h \in [0..Len(s) -> Screens] :
               /\ h[0] = t /\ \A k \in 1..Len(s) : h[k] = putchar(h[k - 1], s[k])
               /\ h[Len(s)] = Puts(t, s)
<1> DEFINE f == [tc \in Screens \X Nat |-> putchar(tc[1], tc[2])]
           Eq(g) == g = [a \in SUBSET DOMAIN s |->
                            IF a = {} THEN t ELSE putchar(g[a \ {Max(a)}], s[Max(a)])]
           H == CHOOSE g : Eq(g)
<1>1. \A u \in Screens, c \in Nat : f[<<u, c>>] = putchar(u, c)
  OBVIOUS
<1>2. f \in [Screens \X Nat -> Screens]
  BY PutcharEffect
<1> HIDE DEF f
<1>3. PICK g : Solves(g, Screens, f, t, s)
  <2>1. StepOn(f, Screens, Nat)
    BY <1>2 DEF StepOn
  <2> QED BY <2>1, FoldSets, Zenon
<1>4. DOMAIN s = 1..Len(s) /\ Len(s) \in Nat
  OBVIOUS
<1>5. ASSUME NEW a \in SUBSET (1..Len(s)), a # {}
      PROVE  a \ {Max(a)} \in SUBSET (1..Len(s)) /\ s[Max(a)] \in Nat
  <2>1. Max(a) \in a
    BY <1>4, <1>5, MaxOfSet, Zenon
  <2>2. Max(a) \in 1..Len(s)
    BY <2>1
  <2>3. s[Max(a)] \in Nat
    BY <2>2
  <2>4. a \ {Max(a)} \in SUBSET (1..Len(s))
    BY Zenon
  <2> QED BY <2>3, <2>4
<1>6. Eq(g)
  <2>1. ASSUME NEW a \in SUBSET (1..Len(s))
        PROVE  g[a] = IF a = {} THEN t ELSE putchar(g[a \ {Max(a)}], s[Max(a)])
    <3>1. CASE a = {}
      BY <1>3, <3>1, Zenon DEF Solves
    <3>2. CASE a # {}
      <4>1. g[a \ {Max(a)}] \in Screens /\ s[Max(a)] \in Nat
        BY <1>3, <1>5, <3>2 DEF Solves
      <4>2. f[<<g[a \ {Max(a)}], s[Max(a)]>>] = putchar(g[a \ {Max(a)}], s[Max(a)])
        BY <1>1, <4>1, Zenon
      <4> QED BY <1>3, <3>2, <4>2, Zenon DEF Solves
    <3> QED BY <3>1, <3>2
  <2>2. g = [a \in SUBSET (1..Len(s)) |-> g[a]]
    BY <1>3, Zenon DEF Solves
  <2> QED BY <1>4, <2>1, <2>2, Zenon
<1>7. Eq(H)
  BY <1>6, Zenon
<1>8. Puts(t, s) = H[1..Len(s)]
  <2>1. Puts(t, s) = H[DOMAIN s]
    BY Zenon DEF Puts, FoldLeft, MapThenFoldSet
  <2> QED BY <1>4, <2>1, Zenon
<1> HIDE DEF H
<1>9. \A a \in SUBSET (1..Len(s)) : H[a] = IF a = {} THEN t ELSE putchar(H[a \ {Max(a)}], s[Max(a)])
  BY <1>4, <1>7, Zenon
<1>10. \A a \in SUBSET (1..Len(s)) : a = {} => H[a] = t
  BY <1>9, Zenon
<1>11. ASSUME NEW a \in SUBSET (1..Len(s)), a # {}, H[a \ {Max(a)}] \in Screens
       PROVE  H[a] = f[<<H[a \ {Max(a)}], s[Max(a)]>>]
  BY <1>1, <1>5, <1>9, <1>11, Zenon
<1>12. PICK h : Chain(h, Screens, f, t, s, H)
  <2> HIDE DEF Eq
  <2>1. StepOn(f, Screens, Nat)
    BY <1>2 DEF StepOn
  <2>2. Goes(H, Screens, f, t, s)
    BY <1>10, <1>11, Zenon DEF Goes
  <2> QED BY <2>1, <2>2, FoldChain, Zenon
<1>13. ASSUME NEW k \in 1..Len(s) PROVE h[k] = putchar(h[k - 1], s[k])
  <2>1. k - 1 \in 0..Len(s) /\ s[k] \in Nat
    BY <1>4
  <2>2. h[k - 1] \in Screens
    BY <1>12, <2>1 DEF Chain
  <2> QED BY <1>1, <1>12, <2>1, <2>2 DEF Chain
<1> QED BY <1>8, <1>12, <1>13 DEF Chain

-----------------------------------------------------------------------------
(***************************************************************************)
(* The last len characters of text stand before the cursor.                *)
(***************************************************************************)
Shows(t, text, len) ==
    \A k \in Nat : k >= 1 /\ k <= Position(t) /\ k <= len =>
        t.cell[Position(t) - k] = text[len + 1 - k]

\* A character that is drawn is shown after the others.
LEMMA ShowsMore ==
    ASSUME NEW t \in Screens, NEW u \in Screens, NEW c, Appended(t, c, u),
           NEW len \in Nat, NEW text, NEW more, Shows(t, text, len),
           \A j \in 1..len : more[j] = text[j], more[len + 1] = c
    PROVE  Shows(u, more, len + 1)
<1>1. Position(t) \in Nat /\ Position(u) \in Nat /\ Position(u) \in Cells /\ Position(t) \in Cells
  BY Fields, ScreenDrawn
<1>2. PICK d \in Nat :
        /\ Position(u) = Position(t) + 1 - d
        /\ \A p \in Cells : p < Position(u) =>
               p + d \in Cells /\ u.cell[p] = IF p + d = Position(t) THEN c ELSE t.cell[p + d]
  BY DEF Appended
<1>3. PICK a \in Nat, b \in Nat : a = Position(t) /\ b = Position(u) /\ b = a + 1 - d
  BY <1>1, <1>2
<1>4. \A p \in Nat : p < b => p \in Cells
  BY <1>1, <1>3, ScreenSize
<1>5. ASSUME NEW k \in Nat, k >= 1, k <= b, k <= len + 1
      PROVE  u.cell[b - k] = more[(len + 1) + 1 - k]
  <2>1. b - k \in Nat /\ b - k < b /\ (b - k) + d = a + 1 - k
    BY <1>3, <1>5
  <2>2. a + 1 - k \in Cells /\ u.cell[b - k] = IF a + 1 - k = a THEN c ELSE t.cell[a + 1 - k]
    <3>1. b - k \in Cells /\ b - k < Position(u)
      BY <1>3, <1>4, <2>1
    <3>2. (b - k) + d \in Cells /\ u.cell[b - k] = IF (b - k) + d = Position(t) THEN c ELSE t.cell[(b - k) + d]
      BY <1>2, <3>1
    <3> QED BY <1>3, <2>1, <3>2
  <2>3. CASE k = 1
    <3>1. a + 1 - k = a /\ (len + 1) + 1 - k = len + 1
      BY <1>3, <2>3
    <3> QED BY <2>2, <3>1
  <2>4. CASE k # 1
    <3>1. PICK j \in Nat : k = j + 1 /\ j >= 1
      <4>1. k - 1 \in Nat /\ k = (k - 1) + 1 /\ k - 1 >= 1
        BY <1>5, <2>4
      <4> QED BY <4>1
    <3>2. a + 1 - k = a - j /\ a - j # a /\ (len + 1) + 1 - k = len + 1 - j /\ j <= len
      BY <1>3, <1>5, <3>1
    <3>3. a - j >= 0
      BY <2>2, <3>2, ScreenSize
    <3>4. j <= a
      BY <1>3, <3>3
    <3>5. t.cell[a - j] = text[len + 1 - j]
      BY <1>3, <3>1, <3>2, <3>4 DEF Shows
    <3>6. len + 1 - j \in 1..len
      BY <3>1, <3>2
    <3> QED BY <2>2, <3>2, <3>5, <3>6
  <2> QED BY <2>3, <2>4
<1> QED BY <1>3, <1>5 DEF Shows

\* A backspace shows one character less.
LEMMA ShowsLess ==
    ASSUME NEW t \in Screens, NEW u \in Screens, Erased(t, u),
           NEW len \in Nat, NEW text, NEW less, Shows(t, text, len + 1),
           \A j \in 1..len : less[j] = text[j]
    PROVE  Shows(u, less, len)
<1>1. Position(t) \in Nat /\ Position(u) \in Nat /\ Position(u) \in Cells /\ Position(t) \in Cells
  BY Fields, ScreenDrawn
<1>2. /\ Position(u) = IF Position(t) = 0 THEN 0 ELSE Position(t) - 1
      /\ \A p \in Cells : p < Position(u) => u.cell[p] = t.cell[p]
  BY DEF Erased
<1>3. PICK a \in Nat, b \in Nat : a = Position(t) /\ b = Position(u) /\ b = IF a = 0 THEN 0 ELSE a - 1
  BY <1>1, <1>2
<1>4. \A p \in Nat : p < b => p \in Cells
  BY <1>1, <1>3, ScreenSize
<1>5. ASSUME NEW k \in Nat, k >= 1, k <= b, k <= len
      PROVE  u.cell[b - k] = less[len + 1 - k]
  <2>1. b - k \in Nat /\ b - k < b /\ b = a - 1
    BY <1>3, <1>5
  <2>2. u.cell[b - k] = t.cell[b - k]
    BY <1>2, <1>3, <1>4, <2>1
  <2>3. b - k = a - (k + 1) /\ k + 1 \in Nat /\ k + 1 >= 1 /\ k + 1 <= a /\ k + 1 <= len + 1
    BY <1>3, <1>5, <2>1
  <2>4. t.cell[a - (k + 1)] = text[(len + 1) + 1 - (k + 1)]
    BY <1>3, <2>3 DEF Shows
  <2>5. (len + 1) + 1 - (k + 1) = len + 1 - k /\ len + 1 - k \in 1..len
    BY <1>5
  <2> QED BY <2>2, <2>3, <2>4, <2>5
<1> QED BY <1>3, <1>5 DEF Shows

\* The prompt is shown, wherever the cursor was.
LEMMA ShowsPrompt ==
    ASSUME NEW t \in Screens
    PROVE  Puts(t, Prompt) \in Screens /\ Shows(Puts(t, Prompt), Prompt, Len(Prompt))
<1>1. Prompt \in Seq(Nat) /\ \A k \in 1..Len(Prompt) : Prompt[k] \in Nat /\ Prompt[k] \notin {BS, TAB, NL, CR}
  <2>1. Prompt \in Seq(Char \ {BS, TAB, NL, CR})
    BY ShellAssumption
  <2>2. \A c \in Char : c \in Nat
    BY DEF Char
  <2> QED BY <2>1, <2>2
<1>2. PICK h \in [0..Len(Prompt) -> Screens] :
          /\ h[0] = t /\ \A k \in 1..Len(Prompt) : h[k] = putchar(h[k - 1], Prompt[k])
          /\ h[Len(Prompt)] = Puts(t, Prompt)
  BY <1>1, PutsChain
<1>3. PICK len \in Nat : len = Len(Prompt)
  BY <1>1
<1> DEFINE A == {k \in Nat : k <= len => Shows(h[k], Prompt, k)}
<1>4. 0 \in A
  BY DEF Shows
<1>5. ASSUME NEW k \in A PROVE k + 1 \in A
  <2>1. SUFFICES ASSUME k + 1 <= len PROVE Shows(h[k + 1], Prompt, k + 1)
    OBVIOUS
  <2>2. k \in Nat /\ k <= len /\ k \in 0..len /\ k + 1 \in 1..len /\ k + 1 \in 0..len /\ (k + 1) - 1 = k
    BY <2>1
  <2>3. h[k] \in Screens /\ h[k + 1] \in Screens /\ h[k + 1] = putchar(h[k], Prompt[k + 1])
    BY <1>2, <1>3, <2>2
  <2>4. Appended(h[k], Prompt[k + 1], h[k + 1])
    BY <1>1, <1>3, <2>2, <2>3, PutcharEffect
  <2>5. Shows(h[k], Prompt, k)
    BY <2>2
  <2> QED BY <2>2, <2>3, <2>4, <2>5, ShowsMore
<1>6. A \in SUBSET Nat
  OBVIOUS
<1>7. len \in A
  <2> HIDE DEF A
  <2> QED BY <1>4, <1>5, <1>6, Induction
<1>8. Shows(h[len], Prompt, len)
  BY <1>7
<1>9. h[len] \in Screens
  BY <1>2, <1>3
<1> QED BY <1>2, <1>3, <1>8, <1>9

\* Whatever is printed, the screen stays one.
LEMMA PutsEffect ==
    ASSUME NEW t \in Screens, NEW s \in Seq(Nat)
    PROVE  Puts(t, s) \in Screens
<1>1. Len(s) \in 0..Len(s)
  OBVIOUS
<1> QED BY <1>1, PutsChain

\* The screen is blank when the machine starts.
LEMMA ClearEffect == text_buffer_clear \in Screens
<1>1. 0 \in 0..(Lines - 1) /\ 0 \in 0..(Width - 1)
  BY ScreenSize
<1> QED BY <1>1 DEF text_buffer_clear, Screens, SPACE

-----------------------------------------------------------------------------
(***************************************************************************)
(* The words of a line.  The line is in m up to its NUL, at z.             *)
(***************************************************************************)
White == {SPACE, TAB, CR, NL}

Addresses == 0..(LINE_MAX - 1)

InMemory(m, z) ==
    /\ m \in [Addresses -> Char] /\ z \in Addresses
    /\ m[z] = NUL /\ \A q \in Addresses : q < z => m[q] # NUL

\* What strtok_r() looks for.
LEMMA Delimiters ==
    /\ ToSet(delim) = White /\ NUL \notin White
    /\ \A c : strchr(delim, c) <=> c = NUL \/ c \in White
<1>1. DOMAIN delim = 1..4
  BY DEF delim
<1>2. ToSet(delim) = {delim[i] : i \in 1..4}
  BY <1>1 DEF ToSet
<1>3. ASSUME NEW c PROVE c \in {delim[i] : i \in 1..4} <=> c \in White
  BY DEF delim, White
<1>4. ToSet(delim) = White
  BY <1>2, <1>3
<1>5. NUL \notin White
  BY DEF White, NUL, SPACE, TAB, CR, NL
<1> QED BY <1>4, <1>5 DEF strchr

\* A token from ptr to before end, or none.
IsToken(m, str, z, r, ptr, end) ==
    /\ r = [tok |-> ptr, mem |-> [m EXCEPT ![end] = NUL], save |-> IF end = z THEN z ELSE end + 1]
    /\ ptr \in Nat /\ end \in Nat /\ str <= ptr /\ ptr < end /\ end <= z
    /\ \A q \in Addresses : str <= q /\ q < ptr => m[q] \in White
    /\ \A q \in Addresses : ptr <= q /\ q < end => m[q] \notin White
    /\ end = z \/ m[end] \in White

\* strtok_r() finds the next token, and marks its end.
LEMMA StrtokEffect ==
    ASSUME NEW m \in [Addresses -> Char], NEW z \in Addresses, NEW str \in Nat, str <= z, m[z] = NUL,
           \A q \in Addresses : str <= q /\ q < z => m[q] # NUL
    PROVE  \/ /\ strtok_r(m, str, delim).tok = NULL
              /\ \A q \in Addresses : str <= q /\ q < z => m[q] \in White
           \/ \E ptr, end \in Nat : IsToken(m, str, z, strtok_r(m, str, delim), ptr, end)
<1>0. LINE_MAX \in Nat /\ z \in Nat /\ DOMAIN m = Addresses /\ \A q \in Addresses : q \in Nat
  BY ShellAssumption DEF Addresses
<1> DEFINE P == {q \in Addresses : q >= str /\ (m[q] = NUL \/ ~strchr(delim, m[q]))}
           ptr == Min(P)
           E == {q \in Addresses : q >= ptr + 1 /\ strchr(delim, m[q])}
           end == Min(E)
           r == strtok_r(m, str, delim)
<1>1. r = IF m[ptr] = NUL THEN [tok |-> NULL, mem |-> m, save |-> ptr]
          ELSE [tok |-> ptr, mem |-> [m EXCEPT ![end] = NUL],
                save |-> IF m[end] = NUL THEN end ELSE end + 1]
  BY <1>0, Zenon DEF strtok_r, Scan
<1>2. \A q \in Addresses : m[q] = NUL \/ ~strchr(delim, m[q]) <=> m[q] \notin White
  BY Delimiters
<1>3. ptr \in P /\ \A q \in P : ptr <= q
  <2>1. z \in P
    BY <1>0
  <2>2. P \in SUBSET Nat /\ P # {}
    BY <1>0, <2>1
  <2> HIDE DEF P
  <2> QED BY <2>2, MinOfSet
<1>4. ptr \in Addresses /\ ptr \in Nat /\ str <= ptr /\ ptr <= z /\ m[ptr] \notin White
  <2>1. z \in P
    BY <1>0
  <2> QED BY <1>0, <1>2, <1>3, <2>1
<1>5. ASSUME NEW q \in Addresses, str <= q, q < ptr PROVE m[q] \in White
  <2>1. q \notin P
    <3> HIDE DEF ptr
    <3> QED BY <1>0, <1>3, <1>4, <1>5
  <2>2. q >= str
    BY <1>0, <1>5
  <2> QED BY <1>2, <2>1, <2>2
<1> HIDE DEF ptr, P
<1>6. CASE m[ptr] = NUL
  <2>1. ptr = z
    BY <1>0, <1>4, <1>6
  <2>2. r.tok = NULL
    BY <1>1, <1>6
  <2>3. \A q \in Addresses : str <= q /\ q < z => m[q] \in White
    BY <1>5, <2>1
  <2> HIDE DEF r
  <2> QED BY <2>2, <2>3 DEF r
<1>7. CASE m[ptr] # NUL
  <2>1. ptr < z
    BY <1>0, <1>4, <1>7
  <2>2. z \in E
    BY <1>0, <1>4, <2>1, Delimiters
  <2>3. end \in E /\ \A q \in E : end <= q
    <3>1. E \in SUBSET Nat /\ E # {}
      BY <1>0, <2>2
    <3> HIDE DEF E
    <3> QED BY <3>1, MinOfSet
  <2>4. end \in Addresses /\ end \in Nat /\ ptr < end /\ end <= z /\ (m[end] = NUL \/ m[end] \in White)
    <3>1. end \in Addresses /\ end >= ptr + 1 /\ strchr(delim, m[end]) /\ end <= z
      BY <2>2, <2>3
    <3> HIDE DEF end
    <3>2. m[end] = NUL \/ m[end] \in White
      BY <3>1, Delimiters
    <3> QED BY <1>0, <1>4, <3>1, <3>2
  <2>5. ASSUME NEW q \in Addresses, ptr <= q, q < end PROVE m[q] \notin White
    <3>1. CASE q = ptr
      BY <1>4, <3>1
    <3>2. CASE q # ptr
      <4>1. q \notin E
        <5> HIDE DEF end, E
        <5> QED BY <1>0, <2>3, <2>4, <2>5
      <4>2. q >= ptr + 1
        BY <1>0, <1>4, <2>5, <3>2
      <4> QED BY <4>1, <4>2, Delimiters
    <3> QED BY <3>1, <3>2
  <2> HIDE DEF end, E
  <2>6. m[end] = NUL <=> end = z
    BY <1>0, <1>4, <2>4
  <2>7. r = [tok |-> ptr, mem |-> [m EXCEPT ![end] = NUL], save |-> IF end = z THEN z ELSE end + 1]
    BY <1>1, <1>7, <2>6
  <2>8. IsToken(m, str, z, r, ptr, end)
    BY <1>4, <1>5, <2>4, <2>5, <2>6, <2>7 DEF IsToken
  <2> HIDE DEF r
  <2>9. \E x, y \in Nat : IsToken(m, str, z, r, x, y)
    BY <1>4, <2>4, <2>8
  <2> QED BY <2>9 DEF r
<1> QED BY <1>6, <1>7

\* Where a word begins, counted from 0 as in memory.
Starts(m, z) == {q \in Addresses : q < z /\ m[q] \notin White /\ (q = 0 \/ m[q - 1] \in White)}

\* The word from q to before e is in mem as it was in m, with a NUL after it.
Kept(m, mem, z, q, e) ==
    /\ q < e /\ e <= z /\ mem[e] = NUL /\ (e = z \/ m[e] \in White)
    /\ \A x \in Addresses : q <= x /\ x < e => m[x] \notin White /\ mem[x] = m[x]

\* After some calls of strtok_r(): the memory from save on is as it was, and the
\* words that begin before save are the arguments, in order.
Parsing(m, z) ==
    {c \in [mem : [Addresses -> Char], save : Addresses, args : Seq(Addresses)] :
        /\ c.save <= z /\ \A q \in Addresses : c.save <= q /\ q <= z => c.mem[q] = m[q]
        /\ c.save = 0 \/ c.save = z \/ m[c.save - 1] \in White
        /\ \A i \in 1..Len(c.args) : c.args[i] \in Starts(m, z) /\ c.args[i] < c.save
        /\ \A i, j \in 1..Len(c.args) : i < j => c.args[i] < c.args[j]
        /\ \A q \in Starts(m, z) : q < c.save => \E i \in 1..Len(c.args) : c.args[i] = q
        /\ \A i \in 1..Len(c.args) :
               \E e \in Addresses : e <= c.save /\ Kept(m, c.mem, z, c.args[i], e)}

\* A call of strtok_r() in cmd_parse().
Call(c) ==
    LET t == strtok_r(c.mem, c.save, delim)
    IN  IF t.tok = NULL THEN c
        ELSE [mem |-> t.mem, save |-> t.save, args |-> Append(c.args, t.tok)]

\* Each call has found a word, or there is none left.
Found(m, z, c, k) == Len(c.args) = k \/ \A q \in Starts(m, z) : q < c.save

\* A call goes on to the next word.
LEMMA CallEffect ==
    ASSUME NEW m, NEW z, InMemory(m, z), NEW c \in Parsing(m, z)
    PROVE  Call(c) \in Parsing(m, z) /\ \A k \in Nat : Found(m, z, c, k) => Found(m, z, Call(c), k + 1)
<1>0. /\ m \in [Addresses -> Char] /\ z \in Addresses /\ z \in Nat /\ m[z] = NUL /\ LINE_MAX \in Nat
      /\ \A q \in Addresses : q < z => m[q] # NUL
      /\ \A q \in Addresses : q \in Nat
      /\ \A q \in Nat : q <= z => q \in Addresses
  BY ShellAssumption DEF InMemory, Addresses
<1>1. /\ c.mem \in [Addresses -> Char] /\ c.save \in Addresses /\ c.args \in Seq(Addresses)
      /\ c.save <= z /\ \A q \in Addresses : c.save <= q /\ q <= z => c.mem[q] = m[q]
      /\ c.save = 0 \/ c.save = z \/ m[c.save - 1] \in White
      /\ \A i \in 1..Len(c.args) : c.args[i] \in Starts(m, z) /\ c.args[i] < c.save
      /\ \A i, j \in 1..Len(c.args) : i < j => c.args[i] < c.args[j]
      /\ \A q \in Starts(m, z) : q < c.save => \E i \in 1..Len(c.args) : c.args[i] = q
      /\ \A i \in 1..Len(c.args) :
             \E e \in Addresses : e <= c.save /\ Kept(m, c.mem, z, c.args[i], e)
  BY DEF Parsing
<1>2. PICK mem, save, args : mem = c.mem /\ save = c.save /\ args = c.args
  OBVIOUS
<1>3. /\ mem \in [Addresses -> Char] /\ save \in Addresses /\ save \in Nat /\ args \in Seq(Addresses)
      /\ save <= z /\ \A q \in Addresses : save <= q /\ q <= z => mem[q] = m[q]
      /\ save = 0 \/ save = z \/ m[save - 1] \in White
  BY <1>0, <1>1, <1>2
<1>4. /\ \A i \in 1..Len(args) : args[i] \in Starts(m, z) /\ args[i] < save
      /\ \A i, j \in 1..Len(args) : i < j => args[i] < args[j]
      /\ \A q \in Starts(m, z) : q < save => \E i \in 1..Len(args) : args[i] = q
      /\ \A i \in 1..Len(args) : \E e \in Addresses : e <= save /\ Kept(m, mem, z, args[i], e)
  BY <1>1, <1>2
<1> DEFINE t == strtok_r(mem, save, delim)
<1>5. \/ /\ t.tok = NULL
         /\ \A q \in Addresses : save <= q /\ q < z => mem[q] \in White
      \/ \E ptr, end \in Nat : IsToken(mem, save, z, t, ptr, end)
  <2>1. mem[z] = NUL /\ \A q \in Addresses : save <= q /\ q < z => mem[q] # NUL
    BY <1>0, <1>3
  <2> QED BY <1>0, <1>3, <2>1, StrtokEffect
<1>6. Call(c) = IF t.tok = NULL THEN c ELSE [mem |-> t.mem, save |-> t.save, args |-> Append(args, t.tok)]
  BY <1>2 DEF Call
<1> HIDE DEF t
<1>7. CASE /\ t.tok = NULL
           /\ \A q \in Addresses : save <= q /\ q < z => mem[q] \in White
  <2>1. Call(c) = c
    BY <1>6, <1>7
  <2>2. ASSUME NEW q \in Starts(m, z) PROVE q < save
    <3>1. q \in Addresses /\ q \in Nat /\ q < z /\ m[q] \notin White
      BY <1>0 DEF Starts
    <3>2. ASSUME save <= q PROVE FALSE
      <4>1. mem[q] \in White /\ mem[q] = m[q]
        BY <1>0, <1>3, <1>7, <3>1, <3>2
      <4> QED BY <3>1, <4>1
    <3> QED BY <1>3, <3>1, <3>2
  <2> QED BY <1>2, <2>1, <2>2 DEF Found
<1>8. CASE \E ptr, end \in Nat : IsToken(mem, save, z, t, ptr, end)
  <2>1. PICK ptr \in Nat, end \in Nat : IsToken(mem, save, z, t, ptr, end)
    BY <1>8
  <2> DEFINE mem2 == [mem EXCEPT ![end] = NUL]
             save2 == IF end = z THEN z ELSE end + 1
             args2 == Append(args, ptr)
             d == [mem |-> mem2, save |-> save2, args |-> args2]
  <2>2. /\ t = [tok |-> ptr, mem |-> mem2, save |-> save2]
        /\ save <= ptr /\ ptr < end /\ end <= z
        /\ \A q \in Addresses : save <= q /\ q < ptr => mem[q] \in White
        /\ \A q \in Addresses : ptr <= q /\ q < end => mem[q] \notin White
        /\ end = z \/ mem[end] \in White
    BY <2>1 DEF IsToken
  <2>3. Call(c) = d
    <3>1. t.tok = ptr /\ t.mem = mem2 /\ t.save = save2 /\ ptr # NULL
      BY <2>2 DEF NULL
    <3> HIDE DEF mem2, save2
    <3> QED BY <1>6, <3>1
  <2>4. ptr \in Addresses /\ end \in Addresses /\ ptr < z
    BY <1>0, <2>2
  <2>5. \A q \in Addresses : save <= q /\ q <= z => mem[q] = m[q]
    BY <1>3
  <2>6. /\ \A q \in Addresses : save <= q /\ q < ptr => m[q] \in White
        /\ \A q \in Addresses : ptr <= q /\ q < end => m[q] \notin White
        /\ end = z \/ m[end] \in White
    <3>1. ASSUME NEW q \in Addresses, save <= q, q < ptr PROVE m[q] \in White
      BY <1>0, <2>2, <2>4, <2>5, <3>1
    <3>2. ASSUME NEW q \in Addresses, ptr <= q, q < end PROVE m[q] \notin White
      <4>1. save <= q /\ q <= z
        BY <1>0, <1>3, <2>2, <3>2
      <4> QED BY <2>2, <2>5, <3>2, <4>1
    <3>3. end = z \/ m[end] \in White
      BY <1>0, <1>3, <2>2, <2>4, <2>5
    <3> QED BY <3>1, <3>2, <3>3
  <2>7. ptr \in Starts(m, z)
    <3>1. m[ptr] \notin White
      BY <1>0, <2>2, <2>4, <2>6
    <3>2. CASE ptr = save
      BY <1>3, <2>4, <3>1, <3>2 DEF Starts
    <3>3. CASE ptr # save
      <4>1. ptr - 1 \in Nat /\ ptr - 1 <= z /\ save <= ptr - 1 /\ ptr - 1 < ptr
        BY <1>0, <1>3, <2>2, <3>3
      <4>2. m[ptr - 1] \in White
        BY <1>0, <2>6, <4>1
      <4> QED BY <2>4, <3>1, <4>2 DEF Starts
    <3> QED BY <3>2, <3>3
  <2>8. /\ save2 \in Addresses /\ save2 \in Nat /\ save2 <= z /\ ptr < save2 /\ end <= save2 /\ save <= save2
        /\ (end < save2 \/ save2 = z) /\ (save2 = z \/ m[save2 - 1] \in White)
    <3>1. CASE end = z
      BY <1>0, <1>3, <2>2, <3>1
    <3>2. CASE end # z
      <4>1. save2 = end + 1 /\ save2 \in Nat /\ save2 <= z /\ save2 - 1 = end
        BY <1>0, <2>2, <3>2
      <4>2. m[save2 - 1] \in White
        BY <2>6, <3>2, <4>1
      <4> QED BY <1>0, <1>3, <2>2, <4>1, <4>2
    <3> QED BY <3>1, <3>2
  <2>9. /\ mem2 \in [Addresses -> Char]
        /\ \A q \in Addresses : mem2[q] = IF q = end THEN NUL ELSE mem[q]
    BY <1>3, <2>4 DEF Char, NUL
  <2>10. /\ args2 \in Seq(Addresses) /\ Len(args2) = Len(args) + 1 /\ Len(args) \in Nat
         /\ args2[Len(args) + 1] = ptr
         /\ \A i \in 1..Len(args) : args2[i] = args[i] /\ i \in 1..Len(args2)
    BY <1>3, <2>4
  <2>11. \A i \in 1..Len(args2) : i \in 1..Len(args) \/ i = Len(args) + 1
    BY <2>10
  <2> HIDE DEF mem2, save2, args2
  <2>12. ASSUME NEW q \in Addresses, save2 <= q, q <= z PROVE mem2[q] = m[q]
    <3>1. CASE q = end
      <4>1. q = z /\ mem2[q] = NUL
        BY <1>0, <2>8, <2>9, <2>12, <3>1
      <4> QED BY <1>0, <4>1
    <3>2. CASE q # end
      <4>1. save <= q
        BY <1>0, <1>3, <2>8, <2>12
      <4> QED BY <2>5, <2>9, <2>12, <3>2, <4>1
    <3> QED BY <3>1, <3>2
  <2>13. ASSUME NEW i \in 1..Len(args2) PROVE args2[i] \in Starts(m, z) /\ args2[i] < save2
    <3>1. CASE i \in 1..Len(args)
      <4>1. args2[i] \in Starts(m, z) /\ args2[i] < save /\ args2[i] \in Addresses
        BY <1>3, <1>4, <2>10, <3>1
      <4>2. PICK a \in Nat : a = args2[i] /\ a < save
        BY <1>0, <4>1
      <4>3. a < save2
        BY <1>3, <2>8, <4>2
      <4> QED BY <4>1, <4>2, <4>3
    <3>2. CASE i = Len(args) + 1
      BY <2>7, <2>8, <2>10, <3>2
    <3> QED BY <2>11, <3>1, <3>2
  <2>14. ASSUME NEW i \in 1..Len(args2), NEW j \in 1..Len(args2), i < j PROVE args2[i] < args2[j]
    <3>1. i \in 1..Len(args) /\ (j \in 1..Len(args) \/ j = Len(args) + 1)
      BY <2>10, <2>14
    <3>2. CASE j \in 1..Len(args)
      BY <1>4, <2>10, <2>14, <3>1, <3>2
    <3>3. CASE j = Len(args) + 1
      <4>1. args2[i] < save /\ args2[i] \in Addresses /\ args2[j] = ptr
        BY <1>3, <1>4, <2>10, <3>1, <3>3
      <4>2. PICK a \in Nat : a = args2[i] /\ a < save
        BY <1>0, <4>1
      <4>3. a < ptr
        BY <1>3, <2>2, <4>2
      <4> QED BY <4>1, <4>2, <4>3
    <3> QED BY <3>1, <3>2, <3>3
  <2>15. ASSUME NEW q \in Starts(m, z), q < save2 PROVE \E i \in 1..Len(args2) : args2[i] = q
    <3>1. q \in Addresses /\ q \in Nat /\ q < z /\ m[q] \notin White /\ (q = 0 \/ m[q - 1] \in White)
      BY <1>0 DEF Starts
    <3>2. CASE q < save
      <4>1. PICK i \in 1..Len(args) : args[i] = q
        BY <1>4, <3>2
      <4> QED BY <2>10, <4>1
    <3>3. CASE q >= save
      <4>1. ~(q < ptr)
        BY <1>3, <2>6, <3>1, <3>3
      <4>2. ~(q > ptr)
        <5> SUFFICES ASSUME q > ptr PROVE FALSE
          OBVIOUS
        <5>1. q - 1 \in Nat /\ q - 1 < z /\ q # 0 /\ ptr <= q - 1
          BY <1>0, <3>1
        <5>2. m[q - 1] \in White /\ q - 1 \in Addresses
          BY <1>0, <3>1, <5>1
        <5>3. ~(q - 1 < end)
          BY <2>6, <5>1, <5>2
        <5>4. q > end
          BY <1>0, <3>1, <5>1, <5>3
        <5> QED BY <1>0, <2>8, <2>15, <3>1, <5>4 DEF save2
      <4>3. q = ptr
        BY <3>1, <4>1, <4>2
      <4>4. Len(args) + 1 \in 1..Len(args2)
        BY <2>10
      <4> QED BY <2>10, <4>3, <4>4
    <3> QED BY <1>3, <3>1, <3>2, <3>3
  <2>16. ASSUME NEW i \in 1..Len(args2)
         PROVE  \E e \in Addresses : e <= save2 /\ Kept(m, mem2, z, args2[i], e)
    <3>1. CASE i \in 1..Len(args)
      <4>1. PICK e \in Addresses : e <= save /\ Kept(m, mem, z, args[i], e)
        BY <1>4, <3>1
      <4>2. args2[i] = args[i]
        BY <2>10, <3>1
      <4>3. e < end /\ e <= save2 /\ e \in Nat
        BY <1>0, <1>3, <2>2, <2>8, <4>1
      <4>4. e # end /\ \A x \in Addresses : x < e => x # end
        BY <1>0, <4>3
      <4>5. mem2[e] = mem[e] /\ \A x \in Addresses : x < e => mem2[x] = mem[x]
        BY <2>9, <4>4
      <4>6. Kept(m, mem2, z, args2[i], e)
        BY <4>1, <4>2, <4>5 DEF Kept
      <4> QED BY <4>3, <4>6
    <3>2. CASE i = Len(args) + 1
      <4>1. args2[i] = ptr
        BY <2>10, <3>2
      <4>2. mem2[end] = NUL
        BY <2>4, <2>9
      <4>3. ASSUME NEW x \in Addresses, ptr <= x, x < end PROVE m[x] \notin White /\ mem2[x] = m[x]
        <5>1. x # end /\ save <= x /\ x <= z
          BY <1>0, <1>3, <2>2, <4>3
        <5> QED BY <2>5, <2>6, <2>9, <4>3, <5>1
      <4>4. Kept(m, mem2, z, ptr, end)
        BY <2>2, <2>6, <4>2, <4>3 DEF Kept
      <4> QED BY <2>4, <2>8, <4>1, <4>4
    <3> QED BY <2>11, <3>1, <3>2
  <2>17. d \in [mem : [Addresses -> Char], save : Addresses, args : Seq(Addresses)]
    BY <2>8, <2>9, <2>10
  <2>18. d.mem = mem2 /\ d.save = save2 /\ d.args = args2
    OBVIOUS
  <2> HIDE DEF d
  <2>19. d \in Parsing(m, z)
    BY <2>8, <2>12, <2>13, <2>14, <2>15, <2>16, <2>17, <2>18 DEF Parsing
  <2>20. ASSUME NEW k \in Nat, Found(m, z, c, k) PROVE Found(m, z, d, k + 1)
    <3>1. CASE Len(c.args) = k
      BY <1>2, <2>10, <2>18, <3>1 DEF Found
    <3>2. CASE \A q \in Starts(m, z) : q < c.save
      <4>1. ptr < save
        BY <1>2, <2>7, <3>2
      <4> QED BY <1>3, <2>2, <4>1
    <3> QED BY <2>20, <3>1, <3>2 DEF Found
  <2> QED BY <2>3, <2>19, <2>20
<1> QED BY <1>5, <1>7, <1>8

\* cmd_parse() calls strtok_r() so often, and finds as many words, or all.
LEMMA TokensEffect ==
    ASSUME NEW m, NEW z, InMemory(m, z)
    PROVE  Tokens(m) \in Parsing(m, z) /\ Found(m, z, Tokens(m), SHELL_ARGS_MAX_NUM)
<1>0. PICK max \in Nat : max = SHELL_ARGS_MAX_NUM
  BY ShellAssumption
<1> DEFINE base == [mem |-> m, save |-> 0, args |-> <<>>]
           f == [ck \in Parsing(m, z) \X Nat |-> Call(ck[1])]
           Eq(g) == g = [k \in 0..max |-> IF k = 0 THEN base ELSE Call(g[k - 1])]
           H == CHOOSE g : Eq(g)
<1>1. base \in Parsing(m, z) /\ Found(m, z, base, 0)
  <2>1. 0 \in Addresses /\ m \in [Addresses -> Char] /\ z \in Addresses /\ z \in Nat
        /\ \A q \in Addresses : q \in Nat
    BY ShellAssumption DEF InMemory, Addresses
  <2>2. base \in [mem : [Addresses -> Char], save : Addresses, args : Seq(Addresses)]
    BY <2>1
  <2>3. base.mem = m /\ base.save = 0 /\ base.args = <<>> /\ Len(base.args) = 0
    OBVIOUS
  <2> HIDE DEF base
  <2>4. \A q \in Starts(m, z) : ~(q < 0)
    BY <2>1 DEF Starts
  <2>5. 0 <= z
    BY <2>1
  <2>6. 1..0 = {}
    OBVIOUS
  <2>7. base \in Parsing(m, z)
    BY <2>2, <2>3, <2>4, <2>5, <2>6 DEF Parsing
  <2> QED BY <2>3, <2>7 DEF Found
<1> HIDE DEF base
<1>2. StepOn(f, Parsing(m, z), Nat)
  BY CallEffect DEF StepOn
<1>3. \A c \in Parsing(m, z), k \in Nat : f[<<c, k>>] = Call(c)
  OBVIOUS
<1> HIDE DEF f
<1>4. PICK g : Loops(g, Parsing(m, z), f, base, max)
  BY <1>0, <1>1, <1>2, Iterated, Zenon
<1>5. Eq(g)
  <2>1. ASSUME NEW k \in 0..max PROVE g[k] = IF k = 0 THEN base ELSE Call(g[k - 1])
    <3>1. CASE k = 0
      BY <1>4, <3>1 DEF Loops
    <3>2. CASE k # 0
      <4>1. k - 1 \in 0..max /\ k \in 1..max /\ k \in Nat
        BY <1>0, <3>2
      <4>2. g[k - 1] \in Parsing(m, z) /\ g[k] = f[<<g[k - 1], k>>]
        BY <1>4, <4>1 DEF Loops
      <4> QED BY <1>3, <3>2, <4>1, <4>2
    <3> QED BY <3>1, <3>2
  <2>2. g = [k \in 0..max |-> g[k]]
    BY <1>4 DEF Loops
  <2> QED BY <2>1, <2>2, Zenon
<1>6. Eq(H)
  BY <1>5, Zenon
<1>7. Tokens(m) = H[max]
  BY <1>0, Zenon DEF Tokens, Call, base
<1> HIDE DEF H
<1> DEFINE A == {k \in Nat : k <= max => H[k] \in Parsing(m, z) /\ Found(m, z, H[k], k)}
<1>8. \A k \in Nat : k \in A
  <2>1. 0 \in A
    <3>1. H[0] = base
      BY <1>0, <1>6
    <3> QED BY <1>1, <3>1
  <2>2. ASSUME NEW k \in A PROVE k + 1 \in A
    <3>1. SUFFICES ASSUME k + 1 <= max PROVE H[k + 1] \in Parsing(m, z) /\ Found(m, z, H[k + 1], k + 1)
      OBVIOUS
    <3>2. k \in Nat /\ k <= max /\ k + 1 \in 0..max /\ k + 1 # 0 /\ (k + 1) - 1 = k
      BY <1>0, <3>1
    <3>3. H[k] \in Parsing(m, z) /\ Found(m, z, H[k], k)
      BY <3>2
    <3>4. H[k + 1] = Call(H[k])
      BY <1>6, <3>2
    <3> QED BY <3>2, <3>3, <3>4, CallEffect
  <2>3. A \in SUBSET Nat
    OBVIOUS
  <2> HIDE DEF A
  <2> QED BY <2>1, <2>2, <2>3, Induction
<1> QED BY <1>0, <1>7, <1>8

\* As many numbers are in an increasing sequence as it is long, and as many
\* before each of them as come before it.
LEMMA Increasing ==
    ASSUME NEW len \in Nat, NEW a \in [1..len -> Nat], \A i, j \in 1..len : i < j => a[i] < a[j]
    PROVE  LET R == {a[i] : i \in 1..len}
           IN  /\ IsFiniteSet(R) /\ Cardinality(R) = len
               /\ \A i \in 1..len : Cardinality({x \in R : x < a[i]}) = i - 1
<1> DEFINE B(k) == {a[i] : i \in 1..k}
           A == {k \in Nat : k <= len => IsFiniteSet(B(k)) /\ Cardinality(B(k)) = k}
<1>1. \A k \in Nat : k \in A
  <2>1. 0 \in A
    <3>1. B(0) = {}
      OBVIOUS
    <3> HIDE DEF B
    <3> QED BY <3>1, FS_EmptySet
  <2>2. ASSUME NEW k \in A PROVE k + 1 \in A
    <3>1. SUFFICES ASSUME k + 1 <= len PROVE IsFiniteSet(B(k + 1)) /\ Cardinality(B(k + 1)) = k + 1
      OBVIOUS
    <3>2. k \in Nat /\ k <= len /\ k + 1 \in 1..len /\ k + 1 \in 1..(k + 1)
          /\ (\A i \in 1..k : i \in 1..len /\ i < k + 1 /\ i \in 1..(k + 1))
          /\ (\A i \in 1..(k + 1) : i \in 1..k \/ i = k + 1)
      BY <3>1
    <3>3. B(k + 1) = B(k) \cup {a[k + 1]}
      BY <3>2
    <3>4. a[k + 1] \notin B(k)
      <4>1. ASSUME NEW i \in 1..k PROVE a[i] # a[k + 1]
        <5>1. a[i] < a[k + 1] /\ a[i] \in Nat /\ a[k + 1] \in Nat
          BY <3>2
        <5> QED BY <5>1
      <4> QED BY <4>1
    <3>5. IsFiniteSet(B(k)) /\ Cardinality(B(k)) = k
      BY <3>2
    <3> HIDE DEF B
    <3>6. IsFiniteSet(B(k) \cup {a[k + 1]}) /\ Cardinality(B(k) \cup {a[k + 1]}) = Cardinality(B(k)) + 1
      BY <3>4, <3>5, FS_AddElement, Zenon
    <3> QED BY <3>3, <3>5, <3>6
  <2>3. A \in SUBSET Nat
    OBVIOUS
  <2> HIDE DEF A
  <2> QED BY <2>1, <2>2, <2>3, Induction
<1>2. ASSUME NEW i \in 1..len PROVE {x \in B(len) : x < a[i]} = B(i - 1)
  <2>0. i \in Nat /\ i - 1 \in Nat /\ \A j \in 1..(i - 1) : j \in 1..len /\ j < i
    OBVIOUS
  <2>1. ASSUME NEW j \in 1..len, a[j] < a[i] PROVE j \in 1..(i - 1)
    <3>1. ~(i < j) /\ i # j
      <4>1. a[i] \in Nat /\ a[j] \in Nat
        OBVIOUS
      <4>2. ~(a[i] < a[j]) /\ a[i] # a[j]
        BY <2>1, <4>1
      <4> QED BY <4>2
    <3> QED BY <3>1
  <2>2. \A j \in 1..(i - 1) : a[j] < a[i]
    BY <2>0
  <2> QED BY <2>0, <2>1, <2>2
<1>3. ASSUME NEW i \in 1..len PROVE Cardinality(B(i - 1)) = i - 1
  <2>1. PICK j \in Nat : j = i - 1 /\ j <= len
    <3>1. i - 1 \in Nat /\ i - 1 <= len
      OBVIOUS
    <3> QED BY <3>1
  <2> HIDE DEF B
  <2> QED BY <1>1, <2>1
<1>4. IsFiniteSet(B(len)) /\ Cardinality(B(len)) = len
  <2>1. len <= len
    OBVIOUS
  <2> HIDE DEF B
  <2> QED BY <1>1, <2>1
<1> HIDE DEF A
<1> QED BY <1>2, <1>3, <1>4

\* The parts of Words().
BlankAt(s, k) == k \notin 1..Len(s) \/ s[k] \in ToSet(delim)
WordStarts(s) == {k \in 1..Len(s) : BlankAt(s, k - 1) /\ ~BlankAt(s, k)}
StartOf(s, i) == CHOOSE k \in WordStarts(s) : Cardinality({j \in WordStarts(s) : j < k}) = i - 1
EndOf(s, k) == Min({j \in k..Len(s) : BlankAt(s, j + 1)})

\* s is the line that is in m up to z.
Holds(m, z, s) ==
    /\ InMemory(m, z) /\ s \in Seq(Char) /\ Len(s) = z
    /\ \A k \in 1..z : s[k] = m[k - 1]

\* A word begins where strtok_r() would find one.
LEMMA SameStarts ==
    ASSUME NEW m, NEW z, NEW s, Holds(m, z, s)
    PROVE  /\ \A q \in Starts(m, z) : q + 1 \in WordStarts(s)
           /\ \A k \in WordStarts(s) : k - 1 \in Starts(m, z)
           /\ \A k \in 1..z : BlankAt(s, k) <=> m[k - 1] \in White
           /\ \A k \in Int : k \notin 1..z => BlankAt(s, k)
<1>1. /\ z \in Nat /\ z \in Addresses /\ Len(s) = z /\ \A k \in 1..z : s[k] = m[k - 1]
      /\ \A q \in Addresses : q \in Nat
      /\ \A q \in Nat : q < z => q \in Addresses
  BY ShellAssumption DEF Holds, InMemory, Addresses
<1>2. \A k \in 1..z : BlankAt(s, k) <=> m[k - 1] \in White
  BY <1>1, Delimiters DEF BlankAt
<1>3. \A k \in Int : k \notin 1..z => BlankAt(s, k)
  BY <1>1 DEF BlankAt
<1>4. ASSUME NEW q \in Starts(m, z) PROVE q + 1 \in WordStarts(s)
  <2>1. q \in Nat /\ q < z /\ m[q] \notin White /\ (q = 0 \/ m[q - 1] \in White)
    BY <1>1 DEF Starts
  <2>2. q + 1 \in 1..z /\ (q + 1) - 1 = q
    BY <1>1, <2>1
  <2>3. ~BlankAt(s, q + 1)
    BY <1>2, <2>1, <2>2
  <2>4. BlankAt(s, q)
    <3>1. CASE q = 0
      BY <1>3, <3>1
    <3>2. CASE q # 0
      <4>1. q \in 1..z
        BY <1>1, <2>1, <3>2
      <4> QED BY <1>2, <2>1, <3>2, <4>1
    <3> QED BY <3>1, <3>2
  <2> QED BY <1>1, <2>2, <2>3, <2>4 DEF WordStarts
<1>5. ASSUME NEW k \in WordStarts(s) PROVE k - 1 \in Starts(m, z)
  <2>1. k \in 1..z /\ BlankAt(s, k - 1) /\ ~BlankAt(s, k)
    BY <1>1 DEF WordStarts
  <2>2. PICK q \in Nat : q = k - 1 /\ q < z /\ k = q + 1
    <3>1. k - 1 \in Nat /\ k - 1 < z /\ k = (k - 1) + 1
      BY <1>1, <2>1
    <3> QED BY <3>1
  <2>3. m[q] \notin White
    BY <1>2, <2>1, <2>2
  <2>4. q = 0 \/ m[q - 1] \in White
    <3>1. CASE q # 0
      <4>1. q \in 1..z
        BY <1>1, <2>2, <3>1
      <4> QED BY <1>2, <2>1, <2>2, <4>1
    <3> QED BY <3>1
  <2> QED BY <1>1, <2>2, <2>3, <2>4 DEF Starts
<1> QED BY <1>2, <1>3, <1>4, <1>5

\* A word that strtok_r() has cut off is the C string where it begins.
LEMMA WordKept ==
    ASSUME NEW m, NEW z, NEW s, Holds(m, z, s), NEW mem \in [Addresses -> Char],
           NEW q \in Addresses, NEW e \in Addresses, Kept(m, mem, z, q, e)
    PROVE  /\ String(mem, q) = SubSeq(s, q + 1, EndOf(s, q + 1))
           /\ String(mem, q) \in Seq(Char \ {NUL})
<1>1. /\ z \in Nat /\ z \in Addresses /\ Len(s) = z /\ s \in Seq(Char) /\ LINE_MAX \in Nat
      /\ q \in Nat /\ e \in Nat /\ q < e /\ e <= z
      /\ \A x \in Nat : x <= z => x \in Addresses
      /\ \A x \in Addresses : x \in Nat
  BY ShellAssumption DEF Holds, InMemory, Addresses, Kept
<1>2. /\ \A k \in 1..z : s[k] = m[k - 1] /\ k - 1 \in Addresses /\ m[k - 1] # NUL
      /\ \A x \in Addresses : x < z => m[x] # NUL
  BY <1>1 DEF Holds, InMemory
<1>3. /\ mem[e] = NUL /\ (e = z \/ m[e] \in White)
      /\ \A x \in Addresses : q <= x /\ x < e => m[x] \notin White /\ mem[x] = m[x]
  BY DEF Kept
<1>4. strlen(mem, q) = e - q
  <2> DEFINE Z == {x \in Addresses : x >= q /\ mem[x] = NUL}
  <2>1. strlen(mem, q) = Min(Z) - q
    <3>1. DOMAIN mem = Addresses
      OBVIOUS
    <3> QED BY <3>1, Zenon DEF strlen, Scan
  <2>2. e \in Z
    BY <1>1, <1>3
  <2>3. Min(Z) \in Z /\ \A x \in Z : Min(Z) <= x
    <3>1. Z \in SUBSET Nat /\ Z # {}
      BY <1>1, <2>2
    <3> HIDE DEF Z
    <3> QED BY <3>1, MinOfSet
  <2>4. Min(Z) \in Addresses /\ Min(Z) >= q /\ mem[Min(Z)] = NUL /\ Min(Z) <= e
    BY <2>2, <2>3
  <2> HIDE DEF Z
  <2>5. PICK x \in Nat : x = Min(Z) /\ x \in Addresses /\ x >= q /\ mem[x] = NUL /\ x <= e
    BY <1>1, <2>4
  <2>6. ~(x < e)
    <3> SUFFICES ASSUME x < e PROVE FALSE
      OBVIOUS
    <3>1. mem[x] = m[x] /\ m[x] # NUL
      BY <1>1, <1>2, <1>3, <2>5
    <3> QED BY <2>5, <3>1
  <2>7. x = e
    BY <1>1, <2>5, <2>6
  <2> QED BY <2>1, <2>5, <2>7
<1>5. EndOf(s, q + 1) = e
  <2> DEFINE J == {j \in (q + 1)..z : BlankAt(s, j + 1)}
  <2>1. EndOf(s, q + 1) = Min(J)
    BY <1>1, Zenon DEF EndOf
  <2>2. e \in J
    <3>1. e \in (q + 1)..z
      BY <1>1
    <3>2. CASE e = z
      <4>1. e + 1 \notin 1..z /\ e + 1 \in Int
        BY <1>1, <3>2
      <4> QED BY <3>1, <4>1, SameStarts
    <3>3. CASE e # z
      <4>1. e + 1 \in 1..z /\ (e + 1) - 1 = e
        BY <1>1, <3>3
      <4>2. BlankAt(s, e + 1)
        BY <1>3, <3>3, <4>1, SameStarts
      <4> QED BY <3>1, <4>2
    <3> QED BY <3>2, <3>3
  <2>3. Min(J) \in J /\ \A x \in J : Min(J) <= x
    <3>1. J \in SUBSET Nat /\ J # {}
      BY <1>1, <2>2
    <3> HIDE DEF J
    <3> QED BY <3>1, MinOfSet
  <2>4. Min(J) \in (q + 1)..z /\ BlankAt(s, Min(J) + 1) /\ Min(J) <= e
    BY <2>2, <2>3
  <2> HIDE DEF J
  <2>5. PICK j \in Nat : j = Min(J) /\ j \in (q + 1)..z /\ BlankAt(s, j + 1) /\ j <= e
    BY <1>1, <2>4
  <2>6. ~(j < e)
    <3> SUFFICES ASSUME j < e PROVE FALSE
      OBVIOUS
    <3>1. j + 1 \in 1..z /\ (j + 1) - 1 = j /\ j \in Addresses /\ q <= j
      BY <1>1, <2>5
    <3>2. m[j] \in White
      BY <2>5, <3>1, SameStarts
    <3> QED BY <1>3, <3>1, <3>2
  <2>7. j = e
    BY <1>1, <2>5, <2>6
  <2> QED BY <2>1, <2>5, <2>7
<1>6. String(mem, q) = [k \in 1..(e - q) |-> mem[q + k - 1]]
  BY <1>4, Zenon DEF String
<1>7. SubSeq(s, q + 1, e) = [k \in 1..(e - q) |-> s[q + k]]
  <2>1. q + 1 \in 1..Len(s) /\ e \in 1..Len(s) /\ 1 + e - (q + 1) = e - q
    BY <1>1
  <2>2. \A k \in 1..(e - q) : (q + 1) + k - 1 = q + k
    BY <1>1
  <2>3. SubSeq(s, q + 1, e) = [k \in 1..(1 + e - (q + 1)) |-> s[(q + 1) + k - 1]]
    BY <1>1, <2>1
  <2> QED BY <2>1, <2>2, <2>3
<1>8. ASSUME NEW k \in 1..(e - q)
      PROVE  mem[q + k - 1] = s[q + k] /\ s[q + k] \in Char \ {NUL}
  <2>1. q + k \in 1..z /\ (q + k) - 1 = q + k - 1 /\ q <= q + k - 1 /\ q + k - 1 < e
    BY <1>1
  <2>2. s[q + k] = m[q + k - 1] /\ q + k - 1 \in Addresses /\ m[q + k - 1] # NUL
    BY <1>2, <2>1
  <2>3. mem[q + k - 1] = m[q + k - 1]
    BY <1>3, <2>1, <2>2
  <2>4. s[q + k] \in Char
    BY <1>1, <2>1
  <2> QED BY <2>2, <2>3, <2>4
<1>9. String(mem, q) = SubSeq(s, q + 1, e)
  BY <1>6, <1>7, <1>8
<1>10. String(mem, q) \in Seq(Char \ {NUL})
  <2>1. e - q \in Nat
    BY <1>1
  <2> QED BY <1>6, <1>8, <2>1
<1> QED BY <1>5, <1>9, <1>10

\* Words() in its parts.
LEMMA WordsParts ==
    ASSUME NEW s
    PROVE  Words(s) = [i \in 1..Cardinality(WordStarts(s)) |->
                          SubSeq(s, StartOf(s, i), EndOf(s, StartOf(s, i)))]
  BY Zenon DEF Words, WordStarts, StartOf, EndOf, BlankAt

\* The arguments are the words, unless there are more than argv can hold.
LEMMA WordsFound ==
    ASSUME NEW m, NEW z, NEW s, Holds(m, z, s), NEW c \in Parsing(m, z),
           Found(m, z, c, SHELL_ARGS_MAX_NUM)
    PROVE  /\ Len(c.args) \in Nat /\ Len(Words(s)) \in Nat
           /\ Len(Words(s)) >= SHELL_ARGS_MAX_NUM <=> Len(c.args) >= SHELL_ARGS_MAX_NUM
           /\ Len(c.args) < SHELL_ARGS_MAX_NUM =>
                 /\ Words(s) = [i \in 1..Len(c.args) |-> String(c.mem, c.args[i])]
                 /\ \A i \in 1..Len(c.args) : String(c.mem, c.args[i]) \in Seq(Char \ {NUL})
<1>1. PICK max \in Nat : max = SHELL_ARGS_MAX_NUM
  BY ShellAssumption
<1>2. PICK mem, args, save : mem = c.mem /\ args = c.args /\ save = c.save
  OBVIOUS
<1>3. /\ mem \in [Addresses -> Char] /\ args \in Seq(Addresses) /\ Len(args) \in Nat
      /\ \A i \in 1..Len(args) : args[i] \in Starts(m, z) /\ args[i] < save
      /\ \A i, j \in 1..Len(args) : i < j => args[i] < args[j]
      /\ \A q \in Starts(m, z) : q < save => \E i \in 1..Len(args) : args[i] = q
      /\ \A i \in 1..Len(args) : \E e \in Addresses : Kept(m, mem, z, args[i], e)
  BY <1>2 DEF Parsing
<1>4. PICK len \in Nat : len = Len(args)
  BY <1>3
<1>5. \A q \in Addresses : q \in Nat
  BY ShellAssumption DEF Addresses
<1>6. \A i \in 1..len : args[i] \in Nat /\ args[i] \in Addresses
  BY <1>3, <1>4, <1>5
<1> DEFINE a == [i \in 1..len |-> args[i] + 1]
           R == {a[i] : i \in 1..len}
           W == WordStarts(s)
<1>7. \A i \in 1..len : a[i] = args[i] + 1
  OBVIOUS
<1>8. a \in [1..len -> Nat]
  BY <1>6
<1>9. ASSUME NEW i \in 1..len, NEW j \in 1..len, i < j PROVE a[i] < a[j]
  <2>1. args[i] < args[j]
    BY <1>3, <1>4, <1>9
  <2> QED BY <1>6, <1>7, <2>1
<1> HIDE DEF a
<1>10. IsFiniteSet(R) /\ Cardinality(R) = len /\ \A i \in 1..len : Cardinality({x \in R : x < a[i]}) = i - 1
  BY <1>8, <1>9, Increasing
<1>11. IsFiniteSet(W) /\ Cardinality(W) \in Nat
  <2>1. z \in Nat /\ Len(s) = z
    BY <1>5 DEF Holds, InMemory
  <2>2. IsFiniteSet(1..z)
    BY <2>1, FS_Interval
  <2>3. W \subseteq 1..z
    BY <2>1 DEF WordStarts
  <2> HIDE DEF W
  <2>4. IsFiniteSet(W)
    BY <2>2, <2>3, FS_Subset
  <2> QED BY <2>4, FS_CardinalityType
<1>12. R \subseteq W
  <2>1. ASSUME NEW i \in 1..len PROVE a[i] \in W
    BY <1>3, <1>4, <1>7, SameStarts
  <2> HIDE DEF W
  <2> QED BY <2>1
<1>13. len <= Cardinality(W)
  <2> HIDE DEF W, R
  <2> QED BY <1>10, <1>11, <1>12, FS_Subset
<1>14. ASSUME \A q \in Starts(m, z) : q < save PROVE W = R
  <2>1. ASSUME NEW k \in W PROVE k \in R
    <3>1. k - 1 \in Starts(m, z) /\ k \in Nat
      <4>1. k \in Nat
        BY <1>5 DEF WordStarts, Holds, InMemory
      <4> HIDE DEF W
      <4> QED BY <4>1, SameStarts DEF W
    <3>2. PICK i \in 1..len : args[i] = k - 1
      BY <1>3, <1>4, <1>14, <3>1
    <3>3. a[i] = k
      BY <1>6, <1>7, <3>1, <3>2
    <3> QED BY <3>3
  <2> HIDE DEF W, R
  <2> QED BY <1>12, <2>1
<1>15. Words(s) = [i \in 1..Cardinality(W) |-> SubSeq(s, StartOf(s, i), EndOf(s, StartOf(s, i)))]
  BY WordsParts
<1>16. Len(Words(s)) = Cardinality(W)
  <2> HIDE DEF W
  <2> QED BY <1>11, <1>15
<1>17. len = max \/ \A q \in Starts(m, z) : q < save
  BY <1>1, <1>2, <1>4 DEF Found
<1>18. len = max \/ Cardinality(W) = len
  BY <1>10, <1>14, <1>17
<1>19. Cardinality(W) >= max <=> len >= max
  <2> HIDE DEF W
  <2> QED BY <1>1, <1>11, <1>13, <1>18
<1>20. ASSUME len < max, NEW i \in 1..len
       PROVE  /\ Words(s)[i] = String(mem, args[i])
              /\ String(mem, args[i]) \in Seq(Char \ {NUL})
  <2>1. W = R
    BY <1>14, <1>17, <1>20
  <2>2. StartOf(s, i) = a[i]
    <3>1. a[i] \in W /\ Cardinality({j \in W : j < a[i]}) = i - 1
      BY <1>10, <2>1
    <3>2. ASSUME NEW k \in W, Cardinality({j \in W : j < k}) = i - 1 PROVE k = a[i]
      <4>1. PICK j \in 1..len : k = a[j]
        BY <2>1
      <4>2. Cardinality({x \in R : x < a[j]}) = j - 1
        BY <1>10
      <4>3. j - 1 = i - 1
        <5> HIDE DEF W, R
        <5> QED BY <2>1, <3>2, <4>1, <4>2
      <4>4. j = i
        BY <4>3
      <4> QED BY <4>1, <4>4
    <3> QED BY <3>1, <3>2 DEF StartOf
  <2>3. PICK e \in Addresses : Kept(m, mem, z, args[i], e)
    BY <1>3, <1>4
  <2>4. /\ String(mem, args[i]) = SubSeq(s, args[i] + 1, EndOf(s, args[i] + 1))
        /\ String(mem, args[i]) \in Seq(Char \ {NUL})
    BY <1>3, <1>6, <2>3, WordKept
  <2>5. Words(s)[i] = SubSeq(s, StartOf(s, i), EndOf(s, StartOf(s, i)))
    <3>1. Cardinality(W) = len
      BY <1>10, <2>1
    <3> HIDE DEF W
    <3> QED BY <1>15, <3>1
  <2> QED BY <1>7, <2>2, <2>4, <2>5
<1>21. ASSUME len < max PROVE Words(s) = [i \in 1..len |-> String(mem, args[i])]
  <2>1. Cardinality(W) = len
    <3> HIDE DEF W
    <3> QED BY <1>1, <1>18, <1>21
  <2>2. Words(s) = [i \in 1..len |-> Words(s)[i]]
    <3> HIDE DEF W
    <3> QED BY <1>15, <2>1
  <2> QED BY <1>20, <1>21, <2>2
<1> HIDE DEF W
<1> QED BY <1>1, <1>2, <1>4, <1>11, <1>16, <1>19, <1>20, <1>21

\* strcmp() tells strings apart.
LEMMA StrcmpEffect ==
    ASSUME NEW s \in Seq(Char \ {NUL}), NEW t \in Seq(Char \ {NUL})
    PROVE  strcmp_equal(s, t) <=> s = t
<1>1. PICK a \in Nat, b \in Nat : a = Len(s) /\ b = Len(t)
  OBVIOUS
<1>2. PICK least \in Nat : least = Min({a, b}) /\ least <= a /\ least <= b /\ (least = a \/ least = b)
  <2>1. {a, b} \in SUBSET Nat /\ {a, b} # {}
    OBVIOUS
  <2>2. Min({a, b}) \in {a, b} /\ \A x \in {a, b} : Min({a, b}) <= x
    BY <2>1, MinOfSet
  <2> QED BY <2>2
<1>3. strcmp_equal(s, t) <=> \A k \in 1..(least + 1) : At(s, k) = At(t, k)
  BY <1>1, <1>2 DEF strcmp_equal
<1>4. ASSUME \A k \in 1..(least + 1) : At(s, k) = At(t, k) PROVE s = t
  <2>1. \A k \in 1..a : s[k] # NUL /\ At(s, k) = s[k]
    BY <1>1 DEF At
  <2>2. \A k \in 1..b : t[k] # NUL /\ At(t, k) = t[k]
    BY <1>1 DEF At
  <2>3. a = b
    <3>1. CASE least = a /\ a < b
      <4>1. a + 1 \in 1..b /\ a + 1 \in 1..(least + 1) /\ ~(a + 1 <= Len(s))
        BY <1>1, <3>1
      <4>2. At(s, a + 1) = NUL /\ At(t, a + 1) # NUL
        BY <2>2, <4>1 DEF At
      <4> QED BY <1>4, <4>1, <4>2
    <3>2. CASE least = b /\ b < a
      <4>1. b + 1 \in 1..a /\ b + 1 \in 1..(least + 1) /\ ~(b + 1 <= Len(t))
        BY <1>1, <3>2
      <4>2. At(t, b + 1) = NUL /\ At(s, b + 1) # NUL
        BY <2>1, <4>1 DEF At
      <4> QED BY <1>4, <4>1, <4>2
    <3> QED BY <1>2, <3>1, <3>2
  <2>4. ASSUME NEW k \in 1..a PROVE s[k] = t[k]
    <3>1. k \in 1..(least + 1) /\ k \in 1..b
      BY <1>2, <2>3
    <3> QED BY <1>4, <2>1, <2>2, <3>1
  <2>5. s = [k \in 1..a |-> s[k]] /\ t = [k \in 1..b |-> t[k]]
    BY <1>1
  <2> QED BY <2>3, <2>4, <2>5
<1> QED BY <1>3, <1>4

\* The command with the name is found, and no other.
LEMMA FindEffect ==
    ASSUME NEW w \in Seq(Char \ {NUL})
    PROVE  \A i \in DOMAIN Commands : cmd_find(w) = i <=> Commands[i].exe = w
<1>1. /\ Commands \in Seq([exe : Seq(Char \ {NUL}), do : Handlers])
      /\ \A i, j \in DOMAIN Commands : Commands[i].exe = Commands[j].exe => i = j
  BY ShellAssumption
<1>2. \A i \in DOMAIN Commands : i \in Nat /\ i >= 1 /\ Commands[i].exe \in Seq(Char \ {NUL})
  <2>1. ASSUME NEW i \in DOMAIN Commands PROVE i \in Nat /\ i >= 1 /\ Commands[i].exe \in Seq(Char \ {NUL})
    <3>1. PICK C : C = [exe : Seq(Char \ {NUL}), do : Handlers]
      OBVIOUS
    <3>2. Commands \in Seq(C)
      BY <1>1, <3>1
    <3>3. i \in 1..Len(Commands) /\ Commands[i] \in C
      BY <3>2
    <3>4. Commands[i].exe \in Seq(Char \ {NUL})
      BY <3>1, <3>3, Zenon
    <3> QED BY <3>3, <3>4
  <2> QED BY <2>1
<1> DEFINE F == {i \in DOMAIN Commands : strcmp_equal(Commands[i].exe, w)}
<1>3. cmd_find(w) = IF F = {} THEN NULL ELSE Min(F)
  BY Zenon DEF cmd_find
<1>4. \A i \in DOMAIN Commands : i \in F <=> Commands[i].exe = w
  <2>1. ASSUME NEW i \in DOMAIN Commands PROVE strcmp_equal(Commands[i].exe, w) <=> Commands[i].exe = w
    <3>1. PICK e \in Seq(Char \ {NUL}) : e = Commands[i].exe
      BY <1>2
    <3> QED BY <3>1, StrcmpEffect
  <2> QED BY <2>1, Zenon
<1>5. F \in SUBSET Nat /\ F \subseteq DOMAIN Commands
  BY <1>2
<1> HIDE DEF F
<1>6. ASSUME NEW i \in DOMAIN Commands PROVE cmd_find(w) = i <=> i \in F
  <2>1. CASE F = {}
    BY <1>2, <1>3, <2>1 DEF NULL
  <2>2. CASE F # {}
    <3>1. Min(F) \in F
      BY <1>5, <2>2, MinOfSet
    <3>2. \A j \in F : j = Min(F)
      BY <1>1, <1>4, <1>5, <3>1
    <3> QED BY <1>3, <2>2, <3>1, <3>2
  <2> QED BY <2>1, <2>2
<1> QED BY <1>4, <1>6

\* readline() has put the line into the buffer, and a NUL after it.
Ready(m, s) ==
    /\ m \in [Addresses -> Char] /\ s \in Seq(Char) /\ Len(s) \in Addresses
    /\ m[Len(s)] = NUL /\ \A k \in 1..Len(s) : s[k] = m[k - 1]

\* A NUL that was typed ends the line earlier.
LEMMA CStringHeld ==
    ASSUME NEW m, NEW s, Ready(m, s)
    PROVE  \E z : Holds(m, z, CString(s))
<1>1. PICK len \in Nat : len = Len(s) /\ len \in Addresses /\ \A k \in Nat : k <= len => k \in Addresses
  BY ShellAssumption DEF Ready, Addresses
<1>2. /\ m \in [Addresses -> Char] /\ s \in Seq(Char) /\ m[len] = NUL
      /\ \A k \in 1..len : s[k] = m[k - 1] /\ s[k] \in Char
  BY <1>1 DEF Ready
<1> DEFINE K == {k \in 1..(len + 1) : k > len \/ s[k] = NUL}
<1>3. Min(K) \in K /\ \A k \in K : Min(K) <= k
  <2>1. len + 1 \in K
    OBVIOUS
  <2>2. K \in SUBSET Nat /\ K # {}
    BY <2>1
  <2> HIDE DEF K
  <2> QED BY <2>2, MinOfSet
<1>4. Min(K) \in 1..(len + 1) /\ (Min(K) > len \/ s[Min(K)] = NUL)
  BY <1>3
<1>5. CString(s) = SubSeq(s, 1, Min(K) - 1)
  BY <1>1, Zenon DEF CString
<1>6. PICK z \in Nat : z = Min(K) - 1 /\ z <= len /\ (z = len \/ s[z + 1] = NUL)
  <2> HIDE DEF K
  <2>1. PICK x \in Nat : x = Min(K) /\ x >= 1 /\ x <= len + 1 /\ (x > len \/ s[x] = NUL)
    BY <1>4
  <2>2. x - 1 \in Nat /\ x - 1 <= len /\ (x - 1 = len \/ s[(x - 1) + 1] = NUL)
    BY <2>1
  <2> QED BY <2>1, <2>2
<1>7. ASSUME NEW k \in 1..z PROVE s[k] # NUL
  <2>1. k \in 1..(len + 1) /\ k <= z
    BY <1>6
  <2>2. k \notin K
    <3> HIDE DEF K
    <3>1. PICK x \in Int : x = Min(K) /\ x = z + 1
      BY <1>4, <1>6
    <3> QED BY <1>3, <2>1, <3>1
  <2> QED BY <2>1, <2>2
<1> HIDE DEF K
<1>8. SubSeq(s, 1, z) \in Seq(Char) /\ Len(SubSeq(s, 1, z)) = z /\ \A k \in 1..z : SubSeq(s, 1, z)[k] = s[k]
  <2>1. SubSeq(s, 1, z) = [k \in 1..z |-> s[k]]
    BY <1>1, <1>2, <1>6
  <2>2. \A k \in 1..z : s[k] \in Char
    BY <1>2, <1>6
  <2> QED BY <2>1, <2>2
<1>9. m[z] = NUL
  <2>1. CASE z = len
    BY <1>2, <2>1
  <2>2. CASE z # len
    <3>1. z + 1 \in 1..len /\ (z + 1) - 1 = z
      BY <1>6, <2>2
    <3> QED BY <1>2, <1>6, <2>2, <3>1
  <2> QED BY <2>1, <2>2
<1>10. ASSUME NEW q \in Addresses, q < z PROVE m[q] # NUL
  <2>1. q \in Nat
    BY ShellAssumption DEF Addresses
  <2>2. q + 1 \in 1..z /\ q + 1 \in 1..len /\ (q + 1) - 1 = q
    BY <1>6, <1>10, <2>1
  <2> QED BY <1>2, <1>7, <2>2
<1>11. \A k \in 1..z : SubSeq(s, 1, z)[k] = m[k - 1]
  BY <1>2, <1>6, <1>8
<1>12. z \in Addresses
  BY <1>1, <1>6
<1>13. Holds(m, z, SubSeq(s, 1, z))
  BY <1>2, <1>8, <1>9, <1>10, <1>11, <1>12 DEF Holds, InMemory
<1>14. CString(s) = SubSeq(s, 1, z)
  BY <1>5, <1>6
<1> QED BY <1>13, <1>14

-----------------------------------------------------------------------------
(***************************************************************************)
(* What the commands print.                                                *)
(***************************************************************************)
\* Texts one after the other.
FlattenGoes(H, ss) ==
    /\ H[1] = ss[1] /\ FlattenSeq(ss) = H[Len(ss)]
    /\ \A k \in 1..Len(ss) : k + 1 \in 1..Len(ss) => H[k + 1] = H[k] \o ss[k + 1]

\* FlattenSeq puts the texts behind each other, from the first to the last.
LEMMA FlattenChain ==
    ASSUME NEW ss \in Seq(Seq(Nat)), Len(ss) > 0
    PROVE  \E H : FlattenGoes(H, ss)
<1>1. PICK len \in Nat : len = Len(ss) /\ len > 0
  OBVIOUS
<1> DEFINE T == Seq(Nat)
           f == [ck \in T \X Nat |-> IF ck[2] \in 1..len THEN ck[1] \o ss[ck[2]] ELSE ck[1]]
           Eq(g) == g = [i \in 1..len |-> IF i = 1 THEN ss[i] ELSE g[i - 1] \o ss[i]]
           H == CHOOSE g : Eq(g)
<1>2. \A k \in 1..len : ss[k] \in T
  BY <1>1
<1>3. ASSUME NEW c \in T, NEW k \in 1..len PROVE f[<<c, k>>] = c \o ss[k]
  <2>1. <<c, k>> \in T \X Nat
    OBVIOUS
  <2>2. f[<<c, k>>] = IF k \in 1..len THEN c \o ss[k] ELSE c
    BY <2>1
  <2> QED BY <2>2
<1>4. StepOn(f, T, Nat)
  BY <1>2 DEF StepOn
<1> HIDE DEF f
<1>5. <<>> \in T
  OBVIOUS
<1>6. PICK g : Loops(g, T, f, <<>>, len)
  <2> HIDE DEF T
  <2> QED BY <1>4, <1>5, Iterated, Zenon
<1> DEFINE h == [i \in 1..len |-> g[i]]
<1>7. \A k \in 1..len : k - 1 \in 0..len /\ k \in 0..len /\ k \in Nat /\ (k # 1 => k - 1 \in 1..len)
  OBVIOUS
<1>8. \A k \in 1..len : g[k] = g[k - 1] \o ss[k] /\ g[k - 1] \in T
  BY <1>3, <1>6, <1>7 DEF Loops
<1>9. g[0] = <<>>
  BY <1>6 DEF Loops
<1>10. ASSUME NEW i \in 1..len PROVE h[i] = IF i = 1 THEN ss[i] ELSE h[i - 1] \o ss[i]
  <2>1. CASE i = 1
    <3>1. i - 1 = 0 /\ <<>> \o ss[i] = ss[i]
      BY <1>2, <2>1
    <3> QED BY <1>8, <1>9, <2>1, <3>1
  <2>2. CASE i # 1
    BY <1>7, <1>8, <2>2
  <2> QED BY <2>1, <2>2
<1>11. Eq(h)
  <2>1. h = [i \in 1..len |-> h[i]]
    OBVIOUS
  <2> HIDE DEF h
  <2> QED BY <1>10, <2>1, Zenon
<1> HIDE DEF h
<1>12. Eq(H)
  BY <1>11, Zenon
<1>13. FlattenSeq(ss) = H[len]
  <2>1. len # 0
    BY <1>1
  <2> QED BY <1>1, <2>1, Zenon DEF FlattenSeq
<1> HIDE DEF H
<1>14. H[1] = ss[1]
  <2>1. 1 \in 1..len
    BY <1>1
  <2> QED BY <1>12, <2>1
<1>15. ASSUME NEW k \in 1..len, k + 1 \in 1..len PROVE H[k + 1] = H[k] \o ss[k + 1]
  <2>1. k + 1 # 1 /\ (k + 1) - 1 = k
    OBVIOUS
  <2> QED BY <1>12, <1>15, <2>1
<1>16. FlattenGoes(H, ss)
  BY <1>1, <1>13, <1>14, <1>15, Zenon DEF FlattenGoes
<1> QED BY <1>16

\* Lines one after the other are a text.
LEMMA FlattenType ==
    ASSUME NEW ss \in Seq(Seq(Nat))
    PROVE  FlattenSeq(ss) \in Seq(Nat)
<1>1. PICK len \in Nat : len = Len(ss)
  OBVIOUS
<1>2. CASE len = 0
  <2>1. FlattenSeq(ss) = ss
    BY <1>1, <1>2, Zenon DEF FlattenSeq
  <2>2. ss = [k \in 1..0 |-> ss[k]]
    <3>1. PICK T : T = Seq(Nat)
      OBVIOUS
    <3>2. ss \in Seq(T)
      BY <3>1
    <3>3. ss = [k \in 1..Len(ss) |-> ss[k]]
      BY <3>2
    <3> QED BY <1>1, <1>2, <3>3
  <2>3. [k \in 1..0 |-> ss[k]] \in Seq(Nat)
    OBVIOUS
  <2> QED BY <2>1, <2>2, <2>3
<1>3. CASE len # 0
  <2>1. \A k \in 1..len : ss[k] \in Seq(Nat)
    BY <1>1
  <2>2. PICK H : FlattenGoes(H, ss)
    <3>1. Len(ss) > 0
      BY <1>1, <1>3
    <3> QED BY <3>1, FlattenChain
  <2>3. /\ H[1] = ss[1] /\ FlattenSeq(ss) = H[len]
        /\ \A k \in 1..len : k + 1 \in 1..len => H[k + 1] = H[k] \o ss[k + 1]
    BY <1>1, <2>2, Zenon DEF FlattenGoes
  <2> DEFINE A == {k \in Nat : k + 1 <= len => H[k + 1] \in Seq(Nat)}
  <2>13. \A k \in Nat : k \in A
    <3>1. 0 \in A
      <4>1. 1 \in 1..len /\ 0 + 1 = 1
        BY <1>3
      <4> QED BY <2>1, <2>3, <4>1
    <3>2. ASSUME NEW k \in A PROVE k + 1 \in A
      <4>1. SUFFICES ASSUME k + 1 + 1 <= len PROVE H[k + 1 + 1] \in Seq(Nat)
        OBVIOUS
      <4>2. PICK j \in Nat : j = k + 1 /\ j \in 1..len /\ j + 1 \in 1..len
        <5>1. k + 1 \in Nat /\ k + 1 \in 1..len /\ (k + 1) + 1 \in 1..len
          BY <4>1
        <5> QED BY <5>1
      <4>3. H[j] \in Seq(Nat)
        BY <4>2
      <4>4. H[j + 1] = H[j] \o ss[j + 1] /\ ss[j + 1] \in Seq(Nat)
        BY <2>1, <2>3, <4>2
      <4>5. H[j + 1] \in Seq(Nat)
        BY <4>3, <4>4
      <4> QED BY <4>2, <4>5
    <3>3. A \in SUBSET Nat
      OBVIOUS
    <3> HIDE DEF A
    <3> QED BY <3>1, <3>2, <3>3, Induction
  <2>14. PICK k \in Nat : len = k + 1
    <3>1. len - 1 \in Nat /\ len = (len - 1) + 1
      BY <1>3
    <3> QED BY <3>1
  <2>15. k \in A
    BY <2>13
  <2>16. H[len] \in Seq(Nat)
    BY <2>14, <2>15
  <2> QED BY <2>3, <2>16
<1> QED BY <1>2, <1>3

\* What Accumulate() keeps, and a step of it.
Accs == [val : Nat, ovf : BOOLEAN]
AccZero == [val |-> 0, ovf |-> FALSE]
AccStep(r, c, base) == [val |-> Wrapped(r.val * base + DigitOf(c)),
                        ovf |-> r.ovf \/ Overflows(r.val, DigitOf(c), base)]

\* Nothing is read before the first digit.
LEMMA AccZeroType == AccZero \in Accs
  BY DEF AccZero, Accs

\* A digit is a number less than 36, and any other character 36.
LEMMA DigitType ==
    ASSUME NEW c \in Nat
    PROVE  DigitOf(c) \in 0..36
<1>1. CASE isdigit(c)
  <2>1. ~isalpha(c) /\ c \in 48..57
    BY <1>1 DEF isdigit, isalpha, islower, isupper
  <2>2. DigitOf(c) = c - ZERO
    BY <1>1, <2>1 DEF DigitOf
  <2> QED BY <2>1, <2>2 DEF ZERO
<1>2. CASE ~isdigit(c) /\ isalpha(c)
  <2>1. DigitOf(c) = tolower(c) - (97 - 10)
    BY <1>2 DEF DigitOf
  <2>2. tolower(c) \in 97..122
    BY <1>2 DEF isalpha, islower, isupper, tolower
  <2> QED BY <2>1, <2>2
<1>3. CASE ~isdigit(c) /\ ~isalpha(c)
  <2>1. DigitOf(c) = 36
    BY <1>3, Zenon DEF DigitOf
  <2> QED BY <2>1
<1> QED BY <1>1, <1>2, <1>3

\* An unsigned long is a number, whatever is stored to it.
LEMMA WrappedType ==
    ASSUME NEW v \in Int
    PROVE  Wrapped(v) \in 0..ULONG_MAX
<1>1. PICK u \in Nat : u = ULONG_MAX + 1 /\ u > 0 /\ ULONG_MAX = u - 1
  BY LibraryAssumption DEF ULONG_MAX
<1>2. v % u \in 0..(u - 1)
  BY <1>1
<1> QED BY <1>1, <1>2 DEF Wrapped

\* A digit more is a value and a flag again.
LEMMA AccStepType ==
    ASSUME NEW r \in Accs, NEW c \in Nat, NEW base \in Nat
    PROVE  AccStep(r, c, base) \in Accs
<1>1. r.val \in Nat /\ DigitOf(c) \in Nat
  BY DigitType DEF Accs
<1>2. r.val * base + DigitOf(c) \in Int
  BY <1>1
<1>3. Wrapped(r.val * base + DigitOf(c)) \in Nat
  BY <1>2, WrappedType, LibraryAssumption DEF ULONG_MAX
<1>4. (r.ovf \/ Overflows(r.val, DigitOf(c), base)) \in BOOLEAN
  OBVIOUS
<1> HIDE DEF Wrapped, Overflows
<1> QED BY <1>3, <1>4 DEF Accs, AccStep

\* Digits are read one by one.
LEMMA AccumulateChain ==
    ASSUME NEW s \in Seq(Nat), NEW base \in Nat
    PROVE  \E h \in [0..Len(s) -> Accs] :
               /\ h[0] = AccZero /\ \A k \in 1..Len(s) : h[k] = AccStep(h[k - 1], s[k], base)
               /\ h[Len(s)] = Accumulate(s, base)
<1> DEFINE f == [tc \in Accs \X Nat |-> AccStep(tc[1], tc[2], base)]
           Eq(g) == g = [a \in SUBSET DOMAIN s |->
                            IF a = {} THEN AccZero ELSE AccStep(g[a \ {Max(a)}], s[Max(a)], base)]
           H == CHOOSE g : Eq(g)
<1>1. \A u \in Accs, c \in Nat : f[<<u, c>>] = AccStep(u, c, base)
  OBVIOUS
<1>2. f \in [Accs \X Nat -> Accs]
  BY AccStepType DEF StepOn
<1> HIDE DEF f
<1>3. PICK g : Solves(g, Accs, f, AccZero, s)
  <2>1. StepOn(f, Accs, Nat)
    BY <1>2 DEF StepOn
  <2> QED BY <2>1, AccZeroType, FoldSets, Zenon
<1>4. DOMAIN s = 1..Len(s) /\ Len(s) \in Nat
  OBVIOUS
<1>5. ASSUME NEW a \in SUBSET (1..Len(s)), a # {}
      PROVE  a \ {Max(a)} \in SUBSET (1..Len(s)) /\ s[Max(a)] \in Nat
  <2>1. Max(a) \in a
    BY <1>4, <1>5, MaxOfSet, Zenon
  <2>2. Max(a) \in 1..Len(s)
    BY <2>1
  <2>3. s[Max(a)] \in Nat
    BY <2>2
  <2>4. a \ {Max(a)} \in SUBSET (1..Len(s))
    BY Zenon
  <2> QED BY <2>3, <2>4
<1>6. Eq(g)
  <2>1. ASSUME NEW a \in SUBSET (1..Len(s))
        PROVE  g[a] = IF a = {} THEN AccZero ELSE AccStep(g[a \ {Max(a)}], s[Max(a)], base)
    <3>1. CASE a = {}
      BY <1>3, <3>1, Zenon DEF Solves
    <3>2. CASE a # {}
      <4>1. g[a \ {Max(a)}] \in Accs /\ s[Max(a)] \in Nat
        BY <1>3, <1>5, <3>2 DEF Solves
      <4>2. f[<<g[a \ {Max(a)}], s[Max(a)]>>] = AccStep(g[a \ {Max(a)}], s[Max(a)], base)
        BY <1>1, <4>1, Zenon
      <4> QED BY <1>3, <3>2, <4>2, Zenon DEF Solves
    <3> QED BY <3>1, <3>2
  <2>2. g = [a \in SUBSET (1..Len(s)) |-> g[a]]
    BY <1>3, Zenon DEF Solves
  <2> QED BY <1>4, <2>1, <2>2, Zenon
<1>7. Eq(H)
  BY <1>6, Zenon
<1>8. Accumulate(s, base) = H[1..Len(s)]
  <2>1. Accumulate(s, base) = H[DOMAIN s]
    BY Zenon DEF Accumulate, AccStep, AccZero, FoldLeft, MapThenFoldSet
  <2> QED BY <1>4, <2>1, Zenon
<1> HIDE DEF H
<1>9. \A a \in SUBSET (1..Len(s)) : H[a] = IF a = {} THEN AccZero ELSE AccStep(H[a \ {Max(a)}], s[Max(a)], base)
  BY <1>4, <1>7, Zenon
<1>10. \A a \in SUBSET (1..Len(s)) : a = {} => H[a] = AccZero
  BY <1>9, Zenon
<1>11. ASSUME NEW a \in SUBSET (1..Len(s)), a # {}, H[a \ {Max(a)}] \in Accs
       PROVE  H[a] = f[<<H[a \ {Max(a)}], s[Max(a)]>>]
  BY <1>1, <1>5, <1>9, <1>11, Zenon
<1>12. PICK h : Chain(h, Accs, f, AccZero, s, H)
  <2> HIDE DEF Eq
  <2>1. StepOn(f, Accs, Nat)
    BY <1>2 DEF StepOn
  <2>2. Goes(H, Accs, f, AccZero, s)
    BY <1>10, <1>11, Zenon DEF Goes
  <2> QED BY <2>1, <2>2, AccZeroType, FoldChain, Zenon
<1>13. ASSUME NEW k \in 1..Len(s) PROVE h[k] = AccStep(h[k - 1], s[k], base)
  <2>1. k - 1 \in 0..Len(s) /\ s[k] \in Nat
    BY <1>4
  <2>2. h[k - 1] \in Accs
    BY <1>12, <2>1 DEF Chain
  <2> QED BY <1>1, <1>12, <2>1, <2>2 DEF Chain
<1> QED BY <1>8, <1>12, <1>13 DEF Chain

\* Characters are numbers.
LEMMA CharSeq ==
    ASSUME NEW s \in Seq(Char)
    PROVE  s \in Seq(Nat)
<1>1. \A k \in 1..Len(s) : s[k] \in Nat
  <2>1. \A c \in Char : c \in Nat
    BY DEF Char
  <2> QED BY <2>1
<1> QED BY <1>1

\* Outside of a string there is its NUL, which is no digit and no blank.
LEMMA AtType ==
    ASSUME NEW s \in Seq(Char), NEW k \in Nat, k >= 1
    PROVE  /\ At(s, k) \in Char /\ At(s, k) \in Nat /\ Len(s) \in Nat
           /\ k <= Len(s) => At(s, k) = s[k]
           /\ k > Len(s) => At(s, k) = NUL
           /\ DigitOf(NUL) = 36 /\ ~isspace(NUL)
<1>1. At(s, k) \in Char
  <2>1. CASE k <= Len(s)
    BY <2>1 DEF At
  <2>2. CASE ~(k <= Len(s))
    BY <2>2 DEF At, Char, NUL
  <2> QED BY <2>1, <2>2
<1>2. ~isdigit(NUL) /\ ~isalpha(NUL) /\ ~isspace(NUL)
  BY DEF NUL, isdigit, isalpha, islower, isupper, isspace
<1>3. DigitOf(NUL) = 36
  BY <1>2, Zenon DEF DigitOf
<1>4. \A c \in Char : c \in Nat
  BY DEF Char
<1>5. Len(s) \in Nat /\ (k <= Len(s) => At(s, k) = s[k]) /\ (k > Len(s) => At(s, k) = NUL)
  BY DEF At
<1> QED BY <1>1, <1>2, <1>3, <1>4, <1>5

\* The digits from k on end at e.
DigitsEnd(s, k, base, e) ==
    /\ e \in Nat /\ k <= e /\ e <= Len(s) + 1
    /\ DigitOf(At(s, e)) >= base
    /\ \A j \in Nat : k <= j /\ j < e => DigitOf(At(s, j)) < base

\* The digits of a number are read up to the first character that is none.
LEMMA DigitsEffect ==
    ASSUME NEW s \in Seq(Char), NEW k \in Nat, k >= 1, k <= Len(s) + 1, NEW base \in 2..36
    PROVE  \E e : /\ DigitsEnd(s, k, base, e) /\ SubSeq(s, k, e - 1) \in Seq(Char)
                  /\ Accumulate(SubSeq(s, k, e - 1), base) \in Accs
                  /\ Digits(s, k, base) = [val |-> Accumulate(SubSeq(s, k, e - 1), base).val,
                                           ovf |-> Accumulate(SubSeq(s, k, e - 1), base).ovf,
                                           parsed |-> e > k, end |-> e]
<1>1. PICK len \in Nat : len = Len(s)
  OBVIOUS
<1> DEFINE E == {j \in k..(len + 1) : DigitOf(At(s, j)) >= base}
           e == Min(E)
           acc == Accumulate(SubSeq(s, k, e - 1), base)
<1>2. len + 1 \in E
  <2>1. At(s, len + 1) = NUL /\ DigitOf(NUL) = 36
    BY <1>1, AtType
  <2> QED BY <1>1, <2>1
<1>3. e \in E /\ \A j \in E : e <= j
  <2>1. E \in SUBSET Nat /\ E # {}
    BY <1>2
  <2> HIDE DEF E
  <2> QED BY <2>1, MinOfSet
<1>4. e \in k..(len + 1) /\ DigitOf(At(s, e)) >= base
  BY <1>3
<1>5. ASSUME NEW j \in Nat, k <= j, j < e PROVE DigitOf(At(s, j)) < base
  <2>0. e \in Nat /\ e <= len + 1
    BY <1>4
  <2>1. j \in k..(len + 1) /\ j >= 1
    <3> HIDE DEF e
    <3> QED BY <1>5, <2>0
  <2>2. j \notin E
    <3> HIDE DEF e, E
    <3> QED BY <1>3, <1>5, <2>0
  <2>3. PICK x \in Nat : x = DigitOf(At(s, j))
    <3>1. At(s, j) \in Nat
      BY <2>1, AtType
    <3>2. DigitOf(At(s, j)) \in 0..36
      BY <3>1, DigitType
    <3> QED BY <3>2
  <2>4. ~(x >= base)
    BY <2>1, <2>2, <2>3
  <2> QED BY <2>3, <2>4
<1>6. Digits(s, k, base) = [val |-> acc.val, ovf |-> acc.ovf, parsed |-> e > k, end |-> e]
  BY <1>1, Zenon DEF Digits, First
<1> HIDE DEF e, E
<1>7. SubSeq(s, k, e - 1) \in Seq(Char)
  <2>0. e \in Nat /\ e - 1 \in Int /\ e - 1 <= len
    BY <1>4
  <2>1. SubSeq(s, k, e - 1) = [i \in 1..(e - k) |-> s[k + i - 1]] /\ e - k \in Nat
    <3>1. 1 + (e - 1) - k = e - k /\ e - k \in Nat
      BY <1>4
    <3> QED BY <1>1, <1>4, <2>0, <3>1
  <2>2. ASSUME NEW i \in 1..(e - k) PROVE s[k + i - 1] \in Char
    <3>1. k + i - 1 \in 1..len
      BY <1>4
    <3> QED BY <1>1, <3>1
  <2>3. PICK w \in Nat : w = e - k
    BY <2>1
  <2>4. \A i \in 1..w : s[k + i - 1] \in Char
    BY <2>2, <2>3
  <2>5. [i \in 1..w |-> s[k + i - 1]] \in Seq(Char)
    BY <2>4
  <2> QED BY <2>1, <2>3, <2>5
<1>8. acc \in Accs
  <2>1. PICK x \in Seq(Nat) : x = SubSeq(s, k, e - 1)
    BY <1>7, CharSeq
  <2>2. Len(x) \in 0..Len(x) /\ base \in Nat
    BY <2>1
  <2>4. PICK h \in [0..Len(x) -> Accs] : h[Len(x)] = Accumulate(x, base)
    BY <2>2, AccumulateChain
  <2>3. Accumulate(x, base) \in Accs
    BY <2>2, <2>4
  <2> QED BY <2>1, <2>3
<1>9. DigitsEnd(s, k, base, e)
  <2>1. e \in Nat /\ k <= e /\ e <= Len(s) + 1
    BY <1>1, <1>4
  <2> QED BY <1>4, <1>5, <2>1 DEF DigitsEnd
<1> QED BY <1>6, <1>7, <1>8, <1>9

\* strtoul() returns a number.
LEMMA StrtoulType ==
    ASSUME NEW s \in Seq(Char)
    PROVE  strtoul(s, 0).val \in Nat
<1>1. PICK len \in Nat : len = Len(s)
  OBVIOUS
<1> DEFINE K == {j \in 1..(len + 1) : ~isspace(At(s, j))}
           k == Min(K)
           num == IF At(s, k) \in {MINUS, PLUS} THEN k + 1 ELSE k
           base == DetectBase(s, num)
           d == IF base = 16 /\ Hex(s, num) THEN num + 2 ELSE num
           u == Digits(s, d, base)
           v == __strtoul(s, 0)
<1>2. k \in 1..(len + 1)
  <2>1. len + 1 \in K
    BY <1>1, AtType
  <2>2. K \in SUBSET Nat /\ K # {}
    BY <2>1
  <2>3. k \in K
    <3> HIDE DEF K
    <3> QED BY <2>2, MinOfSet
  <2> QED BY <2>3
<1>3. v = [val |-> u.val, ovf |-> u.ovf, parsed |-> u.parsed, end |-> u.end, neg |-> At(s, k) = MINUS]
  BY <1>1, Zenon DEF __strtoul, First, Signed, Unsigned
<1> HIDE DEF k, K
<1>4. \A j \in Nat : j >= 1 /\ At(s, j) # NUL => j <= len
  BY <1>1, AtType
<1>5. num \in 1..(len + 1)
  <2>1. CASE At(s, k) \in {MINUS, PLUS}
    <3>1. At(s, k) # NUL
      BY <2>1 DEF NUL, MINUS, PLUS
    <3> QED BY <1>2, <1>4, <2>1, <3>1
  <2>2. CASE At(s, k) \notin {MINUS, PLUS}
    BY <1>2, <2>2
  <2> QED BY <2>1, <2>2
<1> HIDE DEF num
<1>6. base \in {8, 10, 16}
  <2>1. CASE Hex(s, num)
    BY <2>1 DEF DetectBase
  <2>2. CASE ~Hex(s, num)
    BY <2>2 DEF DetectBase
  <2> QED BY <2>1, <2>2
<1>7. d \in 1..(len + 1)
  <2>1. CASE base = 16 /\ Hex(s, num)
    <3>1. At(s, num) # NUL /\ At(s, num + 1) # NUL
      <4>1. tolower(NUL) # X
        BY DEF tolower, isupper, NUL, X
      <4> QED BY <2>1, <4>1 DEF Hex, NUL, ZERO
    <3>2. num + 1 <= len
      BY <1>4, <1>5, <3>1
    <3> QED BY <1>5, <2>1, <3>2
  <2>2. CASE ~(base = 16 /\ Hex(s, num))
    BY <1>5, <2>2
  <2> QED BY <2>1, <2>2
<1> HIDE DEF base, d
<1>8. u.val \in Nat
  <2>1. d \in Nat /\ d >= 1 /\ d <= Len(s) + 1 /\ base \in 2..36
    BY <1>1, <1>6, <1>7
  <2>2. PICK e : /\ Accumulate(SubSeq(s, d, e - 1), base) \in Accs
                 /\ u = [val |-> Accumulate(SubSeq(s, d, e - 1), base).val,
                         ovf |-> Accumulate(SubSeq(s, d, e - 1), base).ovf,
                         parsed |-> e > d, end |-> e]
    BY <2>1, DigitsEffect, ZenonT(60)
  <2>3. u.val = Accumulate(SubSeq(s, d, e - 1), base).val
    BY <2>2
  <2> QED BY <2>2, <2>3 DEF Accs
<1> HIDE DEF u
<1>9. v.val \in Nat
  BY <1>3, <1>8
<1> HIDE DEF v
<1>10. ULONG_MAX \in Nat
  BY LibraryAssumption DEF ULONG_MAX
<1>11. Wrapped(-v.val) \in Nat
  <2>1. PICK x \in Int : x = -v.val
    BY <1>9
  <2>2. Wrapped(x) \in 0..ULONG_MAX
    BY WrappedType
  <2> QED BY <1>10, <2>1, <2>2
<1>12. UnsignedLongOf(v).val \in Nat
  <2>1. CASE ~v.parsed
    <3>1. UnsignedLongOf(v) = Result(0, "EINVAL", 1)
      BY <2>1 DEF UnsignedLongOf
    <3> QED BY <3>1 DEF Result
  <2>2. CASE v.parsed /\ v.ovf
    <3>1. UnsignedLongOf(v) = Result(ULONG_MAX, "ERANGE", v.end)
      BY <2>2 DEF UnsignedLongOf
    <3> QED BY <1>10, <3>1 DEF Result
  <2>3. CASE v.parsed /\ ~v.ovf
    <3>1. UnsignedLongOf(v) = Result(IF v.neg THEN Wrapped(-v.val) ELSE v.val, "none", v.end)
      BY <2>3 DEF UnsignedLongOf
    <3> QED BY <1>9, <1>11, <3>1 DEF Result
  <2> QED BY <2>1, <2>2, <2>3
<1> QED BY <1>12 DEF strtoul, v

-----------------------------------------------------------------------------
(***************************************************************************)
(* The invariant.                                                          *)
(***************************************************************************)
\* The prompt and the first k characters of the buffer.
TextOf(buffer, k) == Prompt \o [j \in 1..k |-> buffer[j - 1]]

ShellTypes ==
    /\ number \in Nat \cup {NULL}
    /\ screen \in Screens
    /\ readline_buffer \in [Addresses -> Char]
    /\ n \in Addresses
    /\ pc = "readline" => n < LINE_MAX - 1
    /\ cr \in BOOLEAN

\* The characters that were typed stand before the cursor.
TypedShown ==
    pc = "readline" /\ cr = FALSE =>
        Shows(screen, TextOf(readline_buffer, n), Len(Prompt) + n)

\* What cmd_parse() finds in the buffer is the line.
LineReady == pc = "parse" => Ready(readline_buffer, line)

\* What the handlers get are the words.
ArgsReady ==
    pc = "exec" =>
        /\ argc \in Int
        /\ \A k \in 1..argc : Arg(k) \in Seq(Char \ {NUL})
        /\ RunsWhatWasTyped

ShellInv == ShellTypes /\ TypedShown /\ LineReady /\ ArgsReady

\* The characters of the text.
LEMMA TextAt ==
    ASSUME NEW buffer, NEW k \in Nat, NEW b, \A j \in 1..k : buffer[j - 1] = b[j - 1]
    PROVE  /\ Len(Prompt) \in Nat /\ Len(TextOf(buffer, k)) = Len(Prompt) + k
           /\ \A j \in 1..Len(Prompt) : TextOf(buffer, k)[j] = Prompt[j]
           /\ \A j \in 1..k : TextOf(buffer, k)[Len(Prompt) + j] = b[j - 1]
<1>1. PICK len \in Nat : len = Len(Prompt) /\ Prompt \in Seq(Char \ {BS, TAB, NL, CR})
  BY ShellAssumption
<1> DEFINE typed == [j \in 1..k |-> buffer[j - 1]]
<1>2. DOMAIN typed = 1..k /\ Len(typed) = k /\ \A j \in 1..k : typed[j] = buffer[j - 1]
  OBVIOUS
<1>4. PICK C : Prompt \in Seq(C) /\ typed \in Seq(C)
  <2> DEFINE C == (Char \ {BS, TAB, NL, CR}) \cup {buffer[j - 1] : j \in 1..k}
  <2>1. Prompt \in Seq(C)
    <3>1. \A j \in 1..Len(Prompt) : Prompt[j] \in C
      BY <1>1
    <3> HIDE DEF C
    <3> QED BY <1>1, <3>1
  <2>2. typed \in Seq(C)
    <3>1. \A j \in 1..k : buffer[j - 1] \in C
      OBVIOUS
    <3> HIDE DEF C
    <3> QED BY <3>1
  <2> QED BY <2>1, <2>2
<1> HIDE DEF typed
<1>5. /\ Len(Prompt \o typed) = len + k
      /\ \A j \in 1..(len + k) : (Prompt \o typed)[j] = IF j <= len THEN Prompt[j] ELSE typed[j - len]
  <2>1. PICK p \in Seq(C), q \in Seq(C) : p = Prompt /\ q = typed
    BY <1>4
  <2>2. Len(p) = len /\ Len(q) = k
    BY <1>1, <1>2, <2>1
  <2>3. Len(p \o q) = len + k
    BY <2>2
  <2>4. \A j \in 1..(len + k) : (p \o q)[j] = IF j <= len THEN p[j] ELSE q[j - len]
    BY <2>2
  <2> QED BY <2>1, <2>3, <2>4
<1>6. ASSUME NEW j \in 1..len PROVE (Prompt \o typed)[j] = Prompt[j]
  <2>1. j \in 1..(len + k) /\ j <= len
    OBVIOUS
  <2> QED BY <1>5, <2>1
<1>7. ASSUME NEW j \in 1..k PROVE (Prompt \o typed)[len + j] = b[j - 1]
  <2>1. len + j \in 1..(len + k) /\ ~(len + j <= len) /\ (len + j) - len = j
    OBVIOUS
  <2> QED BY <1>2, <1>5, <2>1
<1> QED BY <1>1, <1>5, <1>6, <1>7 DEF TextOf, typed

\* With a character more the text goes on.
LEMMA TextGrows ==
    ASSUME NEW b \in [Addresses -> Char], NEW k \in Addresses, NEW c \in Char
    PROVE  LET more == TextOf([b EXCEPT ![k] = c], k + 1)
           IN  /\ \A j \in 1..(Len(Prompt) + k) : more[j] = TextOf(b, k)[j]
               /\ more[Len(Prompt) + k + 1] = c
<1>1. k \in Nat /\ k + 1 \in Nat /\ \A j \in 1..k : j - 1 \in Addresses /\ j - 1 # k
  BY ShellAssumption DEF Addresses
<1> DEFINE d == [b EXCEPT ![k] = c]
<1>2. d[k] = c /\ \A j \in 1..k : d[j - 1] = b[j - 1]
  BY <1>1
<1> HIDE DEF d
<1>3. PICK len \in Nat : len = Len(Prompt)
  BY ShellAssumption
<1>4. /\ \A j \in 1..len : TextOf(b, k)[j] = Prompt[j]
      /\ \A j \in 1..k : TextOf(b, k)[len + j] = b[j - 1]
  BY <1>1, <1>3, TextAt
<1>5. /\ \A j \in 1..len : TextOf(d, k + 1)[j] = Prompt[j]
      /\ \A j \in 1..(k + 1) : TextOf(d, k + 1)[len + j] = d[j - 1]
  BY <1>1, <1>3, TextAt
<1>6. ASSUME NEW j \in 1..(len + k) PROVE TextOf(d, k + 1)[j] = TextOf(b, k)[j]
  <2>1. CASE j <= len
    BY <1>4, <1>5, <2>1
  <2>2. CASE j > len
    <3>1. PICK i \in 1..k : j = len + i
      <4>1. j - len \in 1..k /\ j = len + (j - len)
        BY <1>1, <2>2
      <4> QED BY <4>1
    <3>2. i \in 1..(k + 1)
      BY <1>1
    <3> QED BY <1>2, <1>4, <1>5, <3>1, <3>2
  <2> QED BY <2>1, <2>2
<1>7. TextOf(d, k + 1)[len + k + 1] = c
  <2>1. k + 1 \in 1..(k + 1) /\ len + (k + 1) = len + k + 1 /\ (k + 1) - 1 = k
    BY <1>1
  <2> QED BY <1>2, <1>5, <2>1
<1> QED BY <1>3, <1>6, <1>7 DEF d

\* The text without its last character.
LEMMA TextShrinks ==
    ASSUME NEW b, NEW k \in Nat
    PROVE  \A j \in 1..(Len(Prompt) + k) : TextOf(b, k)[j] = TextOf(b, k + 1)[j]
<1>1. PICK len \in Nat : len = Len(Prompt)
  BY ShellAssumption
<1>2. /\ \A j \in 1..len : TextOf(b, k)[j] = Prompt[j]
      /\ \A j \in 1..k : TextOf(b, k)[len + j] = b[j - 1]
  BY <1>1, TextAt
<1>3. /\ \A j \in 1..len : TextOf(b, k + 1)[j] = Prompt[j]
      /\ \A j \in 1..(k + 1) : TextOf(b, k + 1)[len + j] = b[j - 1]
  <2>1. k + 1 \in Nat
    OBVIOUS
  <2> QED BY <1>1, <2>1, TextAt
<1>4. ASSUME NEW j \in 1..(len + k) PROVE TextOf(b, k)[j] = TextOf(b, k + 1)[j]
  <2>1. CASE j <= len
    BY <1>2, <1>3, <2>1
  <2>2. CASE j > len
    <3>1. PICK i \in 1..k : j = len + i
      <4>1. j - len \in 1..k /\ j = len + (j - len)
        BY <2>2
      <4> QED BY <4>1
    <3>2. i \in 1..(k + 1)
      OBVIOUS
    <3> QED BY <1>2, <1>3, <3>1, <3>2
  <2> QED BY <2>1, <2>2
<1> QED BY <1>1, <1>4

\* What readline() returns is in the buffer.
LEMMA ReturnReady ==
    ASSUME NEW b \in [Addresses -> Char], NEW k \in Addresses
    PROVE  Ready([b EXCEPT ![k] = NUL], [j \in 1..k |-> b[j - 1]])
<1>1. k \in Nat /\ \A j \in 1..k : j - 1 \in Addresses /\ j - 1 # k
  BY ShellAssumption DEF Addresses
<1> DEFINE s == [j \in 1..k |-> b[j - 1]]
           m == [b EXCEPT ![k] = NUL]
<1>2. m \in [Addresses -> Char] /\ m[k] = NUL /\ \A j \in 1..k : m[j - 1] = b[j - 1]
  BY <1>1 DEF Char, NUL
<1>3. s \in Seq(Char) /\ Len(s) = k /\ \A j \in 1..k : s[j] = b[j - 1]
  <2>1. \A j \in 1..k : b[j - 1] \in Char
    BY <1>1
  <2> QED BY <1>1, <2>1
<1> HIDE DEF m, s
<1>4. Ready(m, s)
  BY <1>2, <1>3 DEF Ready
<1> QED BY <1>4 DEF m, s

\* The machine starts with it.
LEMMA ShellInvInit == ShellInit => ShellInv
<1> SUFFICES ASSUME ShellInit PROVE ShellInv
  OBVIOUS
<1>1. 0 \in Addresses /\ NUL \in Char
  BY ShellAssumption DEF Addresses, Char, NUL
<1>2. EmptyBuffer \in [Addresses -> Char]
  BY <1>1 DEF EmptyBuffer, Addresses
<1>3. pc = "shell" /\ number = 0 /\ screen = text_buffer_clear /\ readline_buffer = EmptyBuffer /\ n = 0 /\ cr = FALSE
  BY DEF ShellInit, LibraryInit
<1>4. ShellTypes
  BY <1>1, <1>2, <1>3, ClearEffect DEF ShellTypes
<1>5. TypedShown /\ LineReady /\ ArgsReady
  BY <1>3 DEF TypedShown, LineReady, ArgsReady
<1> QED BY <1>4, <1>5 DEF ShellInv

\* A step that leaves the line alone and does not come to it.
LEMMA Elsewhere ==
    ASSUME ShellInv, number' \in Nat \cup {NULL}, screen' \in Screens,
           readline_buffer' \in [Addresses -> Char], n' \in Addresses, cr' \in BOOLEAN,
           pc' \in {"shell", "loop"}
    PROVE  ShellInv'
<1>1. pc' # "readline" /\ pc' # "parse" /\ pc' # "exec"
  OBVIOUS
<1>2. ShellTypes'
  BY <1>1 DEF ShellTypes
<1>3. TypedShown' /\ LineReady' /\ ArgsReady'
  BY <1>1 DEF TypedShown, LineReady, ArgsReady
<1> QED BY <1>2, <1>3 DEF ShellInv

\* The functions are tried before the shell starts.
LEMMA TriesInv == ShellInv /\ LibraryNext /\ UNCHANGED lineVars => ShellInv'
<1> SUFFICES ASSUME ShellInv, LibraryNext, UNCHANGED lineVars PROVE ShellInv'
  OBVIOUS
<1>1. number' \in Nat \cup {NULL}
  BY DEF ShellInv, ShellTypes, LibraryNext
<1>2. /\ screen' = screen /\ readline_buffer' = readline_buffer /\ n' = n /\ pc' = pc
      /\ argv' = argv /\ argc' = argc /\ line' = line /\ cr' = cr
  BY DEF lineVars
<1>3. ShellTypes'
  BY <1>1, <1>2 DEF ShellInv, ShellTypes
<1>4. TypedShown' /\ LineReady'
  BY <1>2 DEF ShellInv, TypedShown, LineReady
<1>5. ArgsReady'
  BY <1>2 DEF ShellInv, ArgsReady, RunsWhatWasTyped, Arg
<1> QED BY <1>3, <1>4, <1>5 DEF ShellInv

\* A stuttering step changes nothing.
LEMMA StutterInv == ShellInv /\ UNCHANGED shellVars => ShellInv'
<1> SUFFICES ASSUME ShellInv, UNCHANGED shellVars PROVE ShellInv'
  OBVIOUS
<1>1. /\ screen' = screen /\ readline_buffer' = readline_buffer /\ n' = n /\ pc' = pc
      /\ argv' = argv /\ argc' = argc /\ line' = line /\ cr' = cr /\ number' = number
  BY DEF shellVars
<1>2. ShellTypes' /\ TypedShown' /\ LineReady'
  BY <1>1 DEF ShellInv, ShellTypes, TypedShown, LineReady
<1>3. ArgsReady'
  BY <1>1 DEF ShellInv, ArgsReady, RunsWhatWasTyped, Arg
<1> QED BY <1>2, <1>3 DEF ShellInv

\* What is printed between two lines leaves a screen.
LEMMA PrintsInv ==
    ASSUME ShellInv, UNCHANGED number, NEW s \in Seq(Nat), Prints(s)
    PROVE  ShellInv'
<1>1. screen' = Puts(screen, s) /\ pc' = "loop" /\ UNCHANGED <<readline_buffer, n, cr>>
  BY DEF Prints
<1>2. screen \in Screens /\ number \in Nat \cup {NULL} /\ readline_buffer \in [Addresses -> Char] /\ n \in Addresses /\ cr \in BOOLEAN
  BY DEF ShellInv, ShellTypes
<1>3. screen' \in Screens
  BY <1>1, <1>2, PutsEffect
<1> QED BY <1>1, <1>2, <1>3, Elsewhere

\* readline() begins with the prompt.
LEMMA PromptInv == ShellInv /\ UNCHANGED number /\ readline => ShellInv'
<1> SUFFICES ASSUME ShellInv, UNCHANGED number, readline PROVE ShellInv'
  OBVIOUS
<1>1. /\ screen' = Puts(screen, Prompt) /\ n' = 0 /\ cr' = FALSE /\ pc' = "readline"
      /\ readline_buffer' = readline_buffer /\ number' = number
  BY DEF readline
<1>2. screen \in Screens /\ number \in Nat \cup {NULL} /\ readline_buffer \in [Addresses -> Char]
  BY DEF ShellInv, ShellTypes
<1>3. screen' \in Screens /\ Shows(screen', Prompt, Len(Prompt))
  BY <1>1, <1>2, ShowsPrompt
<1>4. 0 \in Addresses /\ 0 < LINE_MAX - 1
  BY ShellAssumption DEF Addresses
<1>5. ShellTypes'
  BY <1>1, <1>2, <1>3, <1>4 DEF ShellTypes
<1>6. Shows(screen', TextOf(readline_buffer', n'), Len(Prompt) + n')
  <2>1. PICK len \in Nat : len = Len(Prompt) /\ len + 0 = len
    BY ShellAssumption
  <2>2. \A j \in 1..len : TextOf(readline_buffer', 0)[j] = Prompt[j]
    <3>1. 0 \in Nat /\ \A j \in 1..0 : readline_buffer'[j - 1] = readline_buffer'[j - 1]
      OBVIOUS
    <3> QED BY <2>1, <3>1, TextAt
  <2>3. PICK t : t = screen'
    OBVIOUS
  <2>4. PICK pos \in Nat : pos = Position(t)
    BY <1>3, <2>3, Fields, ScreenDrawn
  <2>5. ASSUME NEW k \in Nat, k >= 1, k <= pos, k <= len
        PROVE  t.cell[pos - k] = TextOf(readline_buffer', 0)[len + 1 - k]
    <3>1. len + 1 - k \in 1..len
      BY <2>5
    <3>2. t.cell[pos - k] = Prompt[len + 1 - k]
      BY <1>3, <2>1, <2>3, <2>4, <2>5 DEF Shows
    <3> QED BY <2>2, <3>1, <3>2
  <2>6. Shows(t, TextOf(readline_buffer', 0), len)
    BY <2>4, <2>5 DEF Shows
  <2> QED BY <1>1, <2>1, <2>3, <2>6
<1>7. TypedShown' /\ LineReady' /\ ArgsReady'
  BY <1>1, <1>6 DEF TypedShown, LineReady, ArgsReady
<1> QED BY <1>5, <1>7 DEF ShellInv

\* A character that is typed is put into the buffer and drawn.
LEMMA CharInv ==
    ASSUME ShellInv, UNCHANGED number, NEW c \in Typed, readline_char(c)
    PROVE  ShellInv'
<1>0. PICK len \in Nat : len = Len(Prompt)
  BY ShellAssumption
<1>1. /\ pc = "readline" /\ c \notin {BS, TAB, NL} /\ screen' = putchar(screen, c) /\ n' = n + 1
      /\ cr' = (cr \/ c = CR) /\ number' = number
  BY DEF readline_char
<1>2. /\ screen \in Screens /\ number \in Nat \cup {NULL} /\ readline_buffer \in [Addresses -> Char]
      /\ n \in Addresses /\ n < LINE_MAX - 1 /\ cr \in BOOLEAN
  BY <1>1 DEF ShellInv, ShellTypes
<1>3. c \in Char /\ c \in Nat /\ NUL \in Char
  BY ShellAssumption DEF Char, NUL
<1>4. n \in Nat /\ n + 1 \in Addresses /\ LINE_MAX \in Nat
  BY <1>2, ShellAssumption DEF Addresses
<1> DEFINE buffer == [readline_buffer EXCEPT ![n] = c]
<1>5. IF n' < LINE_MAX - 1 THEN readline_buffer' = buffer /\ UNCHANGED <<line, pc>>
                           ELSE Return(buffer, n')
  BY DEF readline_char
<1>6. buffer \in [Addresses -> Char]
  BY <1>2, <1>3
<1>7. cr' \in BOOLEAN /\ (cr' = FALSE => cr = FALSE /\ c # CR)
  BY <1>1, <1>2
<1>8. screen' \in Screens /\ (c # CR => Appended(screen, c, screen'))
  BY <1>1, <1>2, <1>3, PutcharEffect
<1>9. CASE n' < LINE_MAX - 1
  <2>1. readline_buffer' = buffer /\ pc' = "readline" /\ n' = n + 1
    BY <1>1, <1>5, <1>9
  <2>2. ShellTypes'
    BY <1>1, <1>2, <1>4, <1>6, <1>7, <1>8, <1>9, <2>1 DEF ShellTypes
  <2>3. ASSUME cr' = FALSE PROVE Shows(screen', TextOf(buffer, n + 1), Len(Prompt) + (n + 1))
    <3>1. cr = FALSE /\ Appended(screen, c, screen')
      BY <1>7, <1>8, <2>3
    <3>2. Shows(screen, TextOf(readline_buffer, n), Len(Prompt) + n)
      BY <1>1, <3>1 DEF ShellInv, TypedShown
    <3>3. PICK t, u, k, text, more :
            /\ t = screen /\ u = screen' /\ k = Len(Prompt) + n /\ text = TextOf(readline_buffer, n)
            /\ more = TextOf(buffer, n + 1)
      OBVIOUS
    <3>4. \A j \in 1..k : more[j] = text[j]
      BY <1>2, <1>3, <3>3, TextGrows
    <3>5. more[k + 1] = c
      BY <1>2, <1>3, <3>3, TextGrows
    <3>6. k \in Nat /\ t \in Screens /\ u \in Screens /\ Shows(t, text, k) /\ Appended(t, c, u)
      BY <1>0, <1>2, <1>4, <1>8, <3>1, <3>2, <3>3
    <3>7. Shows(u, more, k + 1)
      BY <3>4, <3>5, <3>6, ShowsMore
    <3>8. k + 1 = Len(Prompt) + (n + 1)
      BY <1>0, <1>4, <3>3
    <3> QED BY <3>3, <3>7, <3>8
  <2>4. TypedShown'
    BY <2>1, <2>3 DEF TypedShown
  <2>5. LineReady' /\ ArgsReady'
    BY <2>1 DEF LineReady, ArgsReady
  <2> QED BY <2>2, <2>4, <2>5 DEF ShellInv
<1>10. CASE ~(n' < LINE_MAX - 1)
  <2>1. Return(buffer, n')
    BY <1>5, <1>10
  <2> HIDE DEF buffer
  <2>2. /\ pc' = "parse" /\ readline_buffer' = [buffer EXCEPT ![n + 1] = NUL]
        /\ line' = [j \in 1..(n + 1) |-> buffer[j - 1]]
    BY <1>1, <2>1 DEF Return
  <2>3. Ready(readline_buffer', line')
    BY <1>4, <1>6, <2>2, ReturnReady
  <2>4. ShellTypes'
    <3>1. readline_buffer' \in [Addresses -> Char]
      BY <2>3 DEF Ready
    <3> QED BY <1>1, <1>2, <1>4, <1>7, <1>8, <2>2, <3>1 DEF ShellTypes
  <2>5. TypedShown' /\ LineReady' /\ ArgsReady'
    BY <2>2, <2>3 DEF TypedShown, LineReady, ArgsReady
  <2> QED BY <2>4, <2>5 DEF ShellInv
<1> QED BY <1>9, <1>10

\* A backspace takes the last one back.
LEMMA BackspaceInv == ShellInv /\ UNCHANGED number /\ readline_backspace => ShellInv'
<1> SUFFICES ASSUME ShellInv, UNCHANGED number, readline_backspace PROVE ShellInv'
  OBVIOUS
<1>0. PICK len \in Nat : len = Len(Prompt)
  BY ShellAssumption
<1>1. /\ pc = "readline" /\ n > 0 /\ screen' = putchar(screen, BS) /\ n' = n - 1 /\ pc' = "readline"
      /\ readline_buffer' = readline_buffer /\ cr' = cr /\ number' = number
  BY DEF readline_backspace
<1>2. /\ screen \in Screens /\ number \in Nat \cup {NULL} /\ readline_buffer \in [Addresses -> Char]
      /\ n \in Addresses /\ n < LINE_MAX - 1 /\ cr \in BOOLEAN
  BY <1>1 DEF ShellInv, ShellTypes
<1>3. PICK k \in Nat : n = k + 1 /\ n - 1 = k /\ k \in Addresses /\ k < LINE_MAX - 1
  <2>1. n - 1 \in Nat /\ n = (n - 1) + 1 /\ n - 1 \in Addresses /\ n - 1 < LINE_MAX - 1
    BY <1>1, <1>2, ShellAssumption DEF Addresses
  <2> QED BY <2>1
<1>4. screen' \in Screens /\ Erased(screen, screen')
  <2>1. BS \in Nat
    BY DEF BS
  <2> QED BY <1>1, <1>2, <2>1, PutcharEffect
<1>5. ShellTypes'
  BY <1>1, <1>2, <1>3, <1>4 DEF ShellTypes
<1>6. ASSUME cr' = FALSE PROVE Shows(screen', TextOf(readline_buffer, k), Len(Prompt) + k)
  <2>1. Shows(screen, TextOf(readline_buffer, k + 1), Len(Prompt) + (k + 1))
    BY <1>1, <1>3, <1>6 DEF ShellInv, TypedShown
  <2>2. PICK t, u, i, text, less :
          /\ t = screen /\ u = screen' /\ i = Len(Prompt) + k /\ text = TextOf(readline_buffer, k + 1)
          /\ less = TextOf(readline_buffer, k)
    OBVIOUS
  <2>3. \A j \in 1..i : less[j] = text[j]
    BY <2>2, TextShrinks
  <2>4. i \in Nat /\ i + 1 = Len(Prompt) + (k + 1)
    BY <1>0, <2>2
  <2>5. t \in Screens /\ u \in Screens /\ Erased(t, u) /\ Shows(t, text, i + 1)
    BY <1>2, <1>4, <2>1, <2>2, <2>4
  <2>6. Shows(u, less, i)
    BY <2>3, <2>4, <2>5, ShowsLess
  <2> QED BY <2>2, <2>6
<1>7. TypedShown'
  BY <1>1, <1>3, <1>6 DEF TypedShown
<1>8. LineReady' /\ ArgsReady'
  BY <1>1 DEF LineReady, ArgsReady
<1> QED BY <1>5, <1>7, <1>8 DEF ShellInv

\* A newline returns the line.
LEMMA NewlineInv == ShellInv /\ UNCHANGED number /\ readline_newline => ShellInv'
<1> SUFFICES ASSUME ShellInv, UNCHANGED number, readline_newline PROVE ShellInv'
  OBVIOUS
<1>1. /\ pc = "readline" /\ screen' = putchar(screen, NL) /\ Return(readline_buffer, n)
      /\ n' = n /\ cr' = cr /\ number' = number
  BY DEF readline_newline
<1>2. /\ screen \in Screens /\ number \in Nat \cup {NULL} /\ readline_buffer \in [Addresses -> Char]
      /\ n \in Addresses /\ cr \in BOOLEAN
  BY <1>1 DEF ShellInv, ShellTypes
<1>3. screen' \in Screens
  <2>1. NL \in Nat
    BY DEF NL
  <2> QED BY <1>1, <1>2, <2>1, PutcharEffect
<1>4. /\ pc' = "parse" /\ readline_buffer' = [readline_buffer EXCEPT ![n] = NUL]
      /\ line' = [j \in 1..n |-> readline_buffer[j - 1]]
  BY <1>1 DEF Return
<1>5. Ready(readline_buffer', line')
  BY <1>2, <1>4, ReturnReady
<1>6. ShellTypes'
  <2>1. readline_buffer' \in [Addresses -> Char]
    BY <1>5 DEF Ready
  <2> QED BY <1>1, <1>2, <1>3, <1>4, <2>1 DEF ShellTypes
<1>7. TypedShown' /\ LineReady' /\ ArgsReady'
  BY <1>4, <1>5 DEF TypedShown, LineReady, ArgsReady
<1> QED BY <1>6, <1>7 DEF ShellInv

\* cmd_parse() gives the handlers the words.
LEMMA ParseInv == ShellInv /\ UNCHANGED number /\ cmd_parse => ShellInv'
<1> SUFFICES ASSUME ShellInv, UNCHANGED number, cmd_parse PROVE ShellInv'
  OBVIOUS
<1> DEFINE t == Tokens(readline_buffer)
           invalid == Len(t.args) >= SHELL_ARGS_MAX_NUM
<1>1. /\ pc = "parse" /\ pc' = "exec" /\ n' = 0 /\ cr' = FALSE /\ line' = line /\ number' = number
      /\ readline_buffer' = t.mem /\ argv' = t.args
      /\ argc' = IF invalid THEN -1 ELSE Len(t.args)
      /\ screen' = IF invalid THEN Puts(screen, <<33, NL>>) ELSE screen
  BY DEF cmd_parse
<1>2. screen \in Screens /\ number \in Nat \cup {NULL} /\ Ready(readline_buffer, line)
  BY <1>1 DEF ShellInv, ShellTypes, LineReady
<1>3. PICK z : Holds(readline_buffer, z, CString(line))
  BY <1>2, CStringHeld
<1>4. t \in Parsing(readline_buffer, z) /\ Found(readline_buffer, z, t, SHELL_ARGS_MAX_NUM)
  <2>1. InMemory(readline_buffer, z)
    BY <1>3 DEF Holds
  <2> QED BY <2>1, TokensEffect
<1> HIDE DEF t
<1>5. /\ Len(t.args) \in Nat /\ Len(Words(CString(line))) \in Nat
      /\ Len(Words(CString(line))) >= SHELL_ARGS_MAX_NUM <=> Len(t.args) >= SHELL_ARGS_MAX_NUM
      /\ Len(t.args) < SHELL_ARGS_MAX_NUM =>
            /\ Words(CString(line)) = [i \in 1..Len(t.args) |-> String(t.mem, t.args[i])]
            /\ \A i \in 1..Len(t.args) : String(t.mem, t.args[i]) \in Seq(Char \ {NUL})
  BY <1>3, <1>4, WordsFound
<1>6. SHELL_ARGS_MAX_NUM \in Nat /\ 0 \in Addresses
  BY ShellAssumption DEF Addresses
<1>7. screen' \in Screens
  <2>1. <<33, NL>> \in Seq(Nat)
    BY DEF NL
  <2> QED BY <1>1, <1>2, <2>1, PutsEffect
<1>8. readline_buffer' \in [Addresses -> Char]
  BY <1>1, <1>4 DEF Parsing
<1>9. ShellTypes'
  BY <1>1, <1>2, <1>6, <1>7, <1>8 DEF ShellTypes
<1>10. ArgsReady'
  <2>1. CASE invalid
    <3>1. argc' = -1 /\ 1..argc' = {}
      BY <1>1, <2>1
    <3>2. Len(Words(CString(line'))) >= SHELL_ARGS_MAX_NUM
      BY <1>1, <1>5, <2>1
    <3>3. RunsWhatWasTyped'
      BY <3>1, <3>2 DEF RunsWhatWasTyped
    <3> QED BY <3>1, <3>3 DEF ArgsReady
  <2>2. CASE ~invalid
    <3>1. argc' = Len(t.args) /\ Len(t.args) < SHELL_ARGS_MAX_NUM /\ argc' \in Nat
      BY <1>1, <1>5, <1>6, <2>2
    <3>2. PICK words : words = Words(CString(line)) /\ words = Words(CString(line'))
      BY <1>1
    <3>3. ~(Len(words) >= SHELL_ARGS_MAX_NUM)
      BY <1>5, <2>2, <3>2
    <3>4. \A i \in 1..Len(t.args) : Arg(i)' = String(t.mem, t.args[i])
      BY <1>1 DEF Arg
    <3>5. words = [i \in 1..argc' |-> Arg(i)'] /\ \A i \in 1..argc' : Arg(i)' \in Seq(Char \ {NUL})
      BY <1>5, <3>1, <3>2, <3>4
    <3>6. ASSUME argc' > 0
          PROVE  \A i \in DOMAIN Commands : cmd_find(Arg(1)') = i <=> Commands[i].exe = words[1]
      <4>1. 1 \in 1..argc'
        BY <3>1, <3>6
      <4>2. words[1] = Arg(1)' /\ Arg(1)' \in Seq(Char \ {NUL})
        BY <3>5, <4>1
      <4> QED BY <4>2, FindEffect
    <3>7. RunsWhatWasTyped'
      BY <3>2, <3>3, <3>5, <3>6 DEF RunsWhatWasTyped
    <3> QED BY <3>1, <3>5, <3>7 DEF ArgsReady
  <2> QED BY <2>1, <2>2
<1>11. TypedShown' /\ LineReady'
  BY <1>1 DEF TypedShown, LineReady
<1> QED BY <1>9, <1>10, <1>11 DEF ShellInv

\* What is found is a command of the table.
LEMMA FindType ==
    ASSUME NEW w
    PROVE  cmd_find(w) # NULL => cmd_find(w) \in DOMAIN Commands
<1> DEFINE F == {i \in DOMAIN Commands : strcmp_equal(Commands[i].exe, w)}
<1>1. cmd_find(w) = IF F = {} THEN NULL ELSE Min(F)
  BY Zenon DEF cmd_find
<1>2. F \in SUBSET Nat /\ F \subseteq DOMAIN Commands
  <2>1. \A i \in DOMAIN Commands : i \in Nat
    <3>1. PICK C : Commands \in Seq(C)
      BY ShellAssumption
    <3> QED BY <3>1
  <2> QED BY <2>1
<1> HIDE DEF F
<1>3. CASE F = {}
  BY <1>1, <1>3
<1>4. CASE F # {}
  <2>1. Min(F) \in F
    BY <1>2, <1>4, MinOfSet
  <2> QED BY <1>1, <1>2, <1>4, <2>1
<1> QED BY <1>3, <1>4

\* A line that is printed.
LEMMA PrintedLine ==
    ASSUME NEW s \in Seq(Char)
    PROVE  s \o <<NL>> \in Seq(Nat) /\ <<63>> \o s \o <<NL>> \in Seq(Nat)
<1>1. PICK x \in Seq(Nat) : x = s
  BY CharSeq
<1>2. <<NL>> \in Seq(Nat) /\ <<63>> \in Seq(Nat)
  BY DEF NL
<1>3. <<63>> \o x \in Seq(Nat)
  BY <1>2
<1>4. x \o <<NL>> \in Seq(Nat) /\ (<<63>> \o x) \o <<NL>> \in Seq(Nat)
  BY <1>2, <1>3
<1> QED BY <1>1, <1>4

\* The help is lines.
LEMMA HelpInv == ShellInv /\ UNCHANGED number /\ do_help => ShellInv'
<1> SUFFICES ASSUME ShellInv, UNCHANGED number, do_help PROVE ShellInv'
  OBVIOUS
<1> DEFINE table == [i \in DOMAIN Commands |-> Usage(i)]
           asked == [i \in 1..(argc - 1) |->
                        IF cmd_find(Arg(i + 1)) = NULL THEN NoSuchCommand(Arg(i + 1))
                        ELSE Usage(cmd_find(Arg(i + 1)))]
<1>1. pc = "exec" /\ argc > 0 /\ Prints(FlattenSeq(IF argc = 1 THEN table ELSE asked))
  BY DEF do_help, Executes
<1>2. argc \in Int /\ \A k \in 1..argc : Arg(k) \in Seq(Char)
  <2>1. argc \in Int /\ \A k \in 1..argc : Arg(k) \in Seq(Char \ {NUL})
    BY <1>1 DEF ShellInv, ArgsReady
  <2>2. ASSUME NEW s \in Seq(Char \ {NUL}) PROVE s \in Seq(Char)
    OBVIOUS
  <2> QED BY <2>1, <2>2
<1>3. PICK T : T = Seq(Nat)
  OBVIOUS
<1>4. ASSUME NEW i \in DOMAIN Commands PROVE Usage(i) \in T
  <2>1. PICK C : C = [exe : Seq(Char \ {NUL}), do : Handlers]
    OBVIOUS
  <2>2. Commands[i] \in C
    <3>1. Commands \in Seq(C)
      BY <2>1, ShellAssumption
    <3> QED BY <3>1
  <2>3. Commands[i].exe \in Seq(Char \ {NUL})
    BY <2>1, <2>2, Zenon
  <2>4. PICK e : e = Commands[i].exe /\ e \in Seq(Char \ {NUL})
    BY <2>3
  <2>5. e \in Seq(Char)
    BY <2>4
  <2>6. e \o <<NL>> \in Seq(Nat)
    BY <2>5, PrintedLine
  <2> QED BY <1>3, <2>4, <2>6 DEF Usage
<1>5. table \in Seq(T)
  <2>1. PICK len \in Nat : DOMAIN Commands = 1..len
    <3>1. PICK C : Commands \in Seq(C)
      BY ShellAssumption
    <3> QED BY <3>1
  <2>2. [i \in 1..len |-> Usage(i)] \in Seq(T)
    BY <1>4, <2>1
  <2> QED BY <2>1, <2>2
<1>6. argc # 1 => asked \in Seq(T)
  <2>1. ASSUME NEW i \in 1..(argc - 1)
        PROVE  (IF cmd_find(Arg(i + 1)) = NULL THEN NoSuchCommand(Arg(i + 1))
                ELSE Usage(cmd_find(Arg(i + 1)))) \in T
    <3>1. i + 1 \in 1..argc
      BY <1>2
    <3>2. Arg(i + 1) \in Seq(Char)
      BY <1>2, <3>1
    <3>3. NoSuchCommand(Arg(i + 1)) \in T
      BY <1>3, <3>2, PrintedLine DEF NoSuchCommand
    <3> QED BY <1>4, <3>3, FindType
  <2>2. PICK len \in Nat : len = argc - 1
    BY <1>1, <1>2
  <2> QED BY <2>1, <2>2
<1> HIDE DEF table, asked
<1>7. FlattenSeq(IF argc = 1 THEN table ELSE asked) \in Seq(Nat)
  <2>1. (IF argc = 1 THEN table ELSE asked) \in Seq(Seq(Nat))
    BY <1>3, <1>5, <1>6
  <2> QED BY <2>1, FlattenType
<1> QED BY <1>1, <1>7, PrintsInv

\* A dump is lines.
LEMMA HexdumpInv == ShellInv /\ UNCHANGED number /\ do_hexdump => ShellInv'
<1> SUFFICES ASSUME ShellInv, UNCHANGED number, do_hexdump PROVE ShellInv'
  OBVIOUS
<1> DEFINE lines == hexdump(Memory, strtoul(Arg(2), 0).val, strtoul(Arg(3), 0).val)
           dump == [i \in 1..Len(lines) |-> <<36, NL>>]
<1>1. pc = "exec" /\ Prints(IF argc # 3 THEN <<33, NL>> ELSE FlattenSeq(dump))
  BY DEF do_hexdump, Executes
<1>2. CASE argc # 3
  <2>1. <<33, NL>> \in Seq(Nat)
    BY DEF NL
  <2>2. Prints(<<33, NL>>)
    BY <1>1, <1>2
  <2> QED BY <2>1, <2>2, PrintsInv
<1>3. CASE argc = 3
  <2>1. Arg(3) \in Seq(Char)
    <3>1. PICK s : s = Arg(3) /\ s \in Seq(Char \ {NUL})
      BY <1>1, <1>3 DEF ShellInv, ArgsReady
    <3>2. s \in Seq(Char)
      BY <3>1
    <3> QED BY <3>1, <3>2
  <2>2. PICK size \in Nat : size = strtoul(Arg(3), 0).val
    BY <2>1, StrtoulType
  <2>3. PICK len \in Nat : len = (size + 15) \div 16
    OBVIOUS
  <2>4. Len(lines) = len
    <3>1. PICK ptr : ptr = strtoul(Arg(2), 0).val
      OBVIOUS
    <3>2. lines = [l \in 1..len |-> DumpLine(Memory, ptr + 16 * (l - 1), size - 16 * (l - 1))]
      BY <2>2, <2>3, <3>1, Zenon DEF hexdump
    <3> HIDE DEF lines
    <3> QED BY <3>2
  <2> HIDE DEF lines
  <2>5. PICK T : T = Seq(Nat) /\ <<36, NL>> \in T
    <3>1. <<36, NL>> \in Seq(Nat)
      BY DEF NL
    <3> QED BY <3>1
  <2>6. dump \in Seq(T)
    BY <2>4, <2>5
  <2> HIDE DEF dump
  <2>7. FlattenSeq(dump) \in Seq(Nat)
    BY <2>5, <2>6, FlattenType
  <2>8. Prints(FlattenSeq(dump))
    BY <1>1, <1>3
  <2> QED BY <2>7, <2>8, PrintsInv
<1> QED BY <1>2, <1>3

\* The other steps leave the line alone.
LEMMA OthersInv ==
    ASSUME ShellInv, UNCHANGED number,
           shell \/ loop_exit \/ cmd_none \/ cmd_unknown \/ do_exit \/ do_print \/ do_reboot
    PROVE  ShellInv'
<1>1. screen \in Screens /\ number' \in Nat \cup {NULL} /\ readline_buffer \in [Addresses -> Char]
      /\ n \in Addresses /\ cr \in BOOLEAN
  BY DEF ShellInv, ShellTypes
<1>2. CASE shell
  <2>1. screen' = Puts(screen, Motd) /\ pc' = "loop" /\ UNCHANGED <<readline_buffer, n, cr>>
    BY <1>2 DEF shell
  <2>2. Motd \in Seq(Nat)
    BY ShellAssumption, CharSeq
  <2>3. screen' \in Screens
    BY <1>1, <2>1, <2>2, PutsEffect
  <2> QED BY <1>1, <2>1, <2>3, Elsewhere
<1>3. CASE loop_exit
  <2>1. pc' = "shell" /\ UNCHANGED <<screen, readline_buffer, n, cr>>
    BY <1>3 DEF loop_exit
  <2> QED BY <1>1, <2>1, Elsewhere
<1>4. CASE cmd_none \/ do_exit
  <2>1. Prints(<<>>)
    BY <1>4 DEF cmd_none, do_exit
  <2>2. <<>> \in Seq(Nat)
    OBVIOUS
  <2> QED BY <2>1, <2>2, PrintsInv
<1>5. CASE cmd_unknown
  <2>1. pc = "exec" /\ argc > 0 /\ Prints(NoSuchCommand(Arg(1)))
    BY <1>5 DEF cmd_unknown, Executes
  <2>2. PICK s : s = Arg(1) /\ s \in Seq(Char \ {NUL})
    <3>1. argc \in Int /\ \A k \in 1..argc : Arg(k) \in Seq(Char \ {NUL})
      BY <2>1 DEF ShellInv, ArgsReady
    <3>2. 1 \in 1..argc
      BY <2>1, <3>1
    <3> QED BY <3>1, <3>2
  <2>3. s \in Seq(Char)
    BY <2>2
  <2>4. NoSuchCommand(Arg(1)) \in Seq(Nat)
    BY <2>2, <2>3, PrintedLine DEF NoSuchCommand
  <2> QED BY <2>1, <2>4, PrintsInv
<1>6. CASE do_print
  <2>1. Prints(Output)
    BY <1>6 DEF do_print
  <2>2. Output \in Seq(Nat)
    BY ShellAssumption, CharSeq
  <2> QED BY <2>1, <2>2, PrintsInv
<1>7. CASE do_reboot
  <2>1. screen' = text_buffer_clear /\ readline_buffer' = EmptyBuffer /\ n' = 0 /\ pc' = "shell" /\ cr' = FALSE
    BY <1>7 DEF do_reboot
  <2>2. 0 \in Addresses /\ EmptyBuffer \in [Addresses -> Char]
    BY ShellAssumption DEF EmptyBuffer, Addresses, Char, NUL
  <2> QED BY <1>1, <2>1, <2>2, ClearEffect, Elsewhere
<1> QED BY <1>2, <1>3, <1>4, <1>5, <1>6, <1>7

\* Every step of the shell keeps the invariant.
LEMMA ShellInvStep == ShellInv /\ [ShellNext]_shellVars => ShellInv'
<1> SUFFICES ASSUME ShellInv, [ShellNext]_shellVars PROVE ShellInv'
  OBVIOUS
<1>1. CASE LibraryNext /\ UNCHANGED lineVars
  BY <1>1, TriesInv
<1>2. CASE UNCHANGED shellVars
  BY <1>2, StutterInv
<1>3. CASE Step /\ UNCHANGED number
  <2>1. CASE readline
    BY <1>3, <2>1, PromptInv
  <2>2. CASE readline_backspace
    BY <1>3, <2>2, BackspaceInv
  <2>3. CASE readline_newline
    BY <1>3, <2>3, NewlineInv
  <2>4. CASE \E c \in Typed : readline_char(c)
    BY <1>3, <2>4, CharInv
  <2>5. CASE cmd_parse
    BY <1>3, <2>5, ParseInv
  <2>6. CASE do_help
    BY <1>3, <2>6, HelpInv
  <2>7. CASE do_hexdump
    BY <1>3, <2>7, HexdumpInv
  <2>8. CASE shell \/ loop_exit \/ cmd_none \/ cmd_unknown \/ do_exit \/ do_print \/ do_reboot
    BY <1>3, <2>8, OthersInv
  <2> QED BY <1>3, <2>1, <2>2, <2>3, <2>4, <2>5, <2>6, <2>7, <2>8 DEF Step
<1> QED BY <1>1, <1>2, <1>3 DEF ShellNext

\* It holds in every state.
THEOREM ShellInvariant == ShellSpec => []ShellInv
<1>1. ShellInit => ShellInv
  BY ShellInvInit
<1>2. ShellInv /\ [ShellNext]_shellVars => ShellInv'
  BY ShellInvStep
<1> QED BY <1>1, <1>2, PTL DEF ShellSpec

\* The line on the screen is the line that is typed: on a screen of any size, a
\* cursor that wraps, scrolls and comes back leaves the last characters of the
\* prompt and of the buffer before it, and nothing after it.
THEOREM ShowsLineHolds == ShellSpec => []ShowsLine
<1>1. ASSUME ShellInv PROVE ShowsLine
  <2> SUFFICES ASSUME pc = "readline", ~cr
               PROVE  LET text == Prompt \o [k \in 1..n |-> readline_buffer[k - 1]]
                          pos == Position(screen)
                      IN  /\ \A k \in 1..Min({pos, Len(text)}) :
                                 screen.cell[pos - k] = text[Len(text) + 1 - k]
                          /\ \A p \in Cells : p >= pos => screen.cell[p] = SPACE
    BY DEF ShowsLine
  <2>1. screen \in Screens /\ n \in Nat /\ cr = FALSE
    BY <1>1, ShellAssumption DEF ShellInv, ShellTypes, Addresses
  <2>2. Shows(screen, TextOf(readline_buffer, n), Len(Prompt) + n)
    BY <1>1, <2>1 DEF ShellInv, TypedShown
  <2>0. PICK t, text : t = screen /\ text = TextOf(readline_buffer, n)
    OBVIOUS
  <2>3. PICK len \in Nat, pos \in Nat : len = Len(text) /\ len = Len(Prompt) + n /\ pos = Position(t)
    <3>1. Len(TextOf(readline_buffer, n)) = Len(Prompt) + n /\ Len(Prompt) \in Nat
      BY <2>1, TextAt
    <3>2. Position(screen) \in Nat
      BY <2>1, Fields, ScreenDrawn
    <3> QED BY <2>0, <2>1, <3>1, <3>2
  <2>4. PICK least \in Nat : least = Min({pos, len}) /\ least <= pos /\ least <= len
    <3>1. {pos, len} \in SUBSET Nat /\ {pos, len} # {}
      OBVIOUS
    <3>2. Min({pos, len}) \in {pos, len} /\ \A x \in {pos, len} : Min({pos, len}) <= x
      BY <3>1, MinOfSet
    <3> QED BY <3>2
  <2>5. ASSUME NEW k \in 1..least PROVE t.cell[pos - k] = text[len + 1 - k]
    <3>1. k \in Nat /\ k >= 1 /\ k <= pos /\ k <= len
      BY <2>4
    <3> QED BY <2>0, <2>2, <2>3, <3>1 DEF Shows
  <2>6. \A p \in Cells : p >= pos => t.cell[p] = SPACE
    BY <2>0, <2>1, <2>3 DEF Screens
  <2> QED BY <2>0, <2>3, <2>4, <2>5, <2>6 DEF TextOf
<1> QED BY <1>1, ShellInvariant, PTL

\* A command gets the words of the line that was typed and is the one with the
\* name typed, for every line, every number of words and every table of commands.
THEOREM RunsWhatWasTypedHolds == ShellSpec => []RunsWhatWasTyped
<1>1. ASSUME ShellInv PROVE RunsWhatWasTyped
  <2>1. CASE pc = "exec"
    BY <1>1, <2>1 DEF ShellInv, ArgsReady
  <2>2. CASE pc # "exec"
    BY <2>2 DEF RunsWhatWasTyped
  <2> QED BY <2>1, <2>2
<1> QED BY <1>1, ShellInvariant, PTL

-----------------------------------------------------------------------------
(***************************************************************************)
(* Numbers.                                                                *)
(***************************************************************************)
\* A number is divided down to its first digit.
Divides(g, S, f, base, b, m) ==
    /\ g \in [0..m -> S]
    /\ \A v \in 0..m : g[v] = IF v < b THEN base[v] ELSE f[<<g[v \div b], v>>]

\* A quotient is smaller.
LEMMA Quotient ==
    ASSUME NEW b \in Bases, NEW v \in Nat
    PROVE  \E q \in Nat, r \in 0..(b - 1) :
               /\ v \div b = q /\ v % b = r /\ v = q * b + r
               /\ v > 0 => q < v
               /\ v >= b => q > 0
<1>1. CASE b = 8
  <2>1. v \div 8 \in Nat /\ v % 8 \in 0..(8 - 1)
    OBVIOUS
  <2>2. PICK q \in Nat, r \in 0..(8 - 1) : q = v \div 8 /\ r = v % 8
    BY <2>1
  <2>3. v = q * 8 + r /\ (v > 0 => q < v) /\ (v >= 8 => q > 0)
    BY <2>2
  <2>4. v \div b = q /\ v % b = r
    BY <1>1, <2>2
  <2>5. q \in Nat /\ r \in 0..(b - 1) /\ v = q * b + r /\ (v > 0 => q < v) /\ (v >= b => q > 0)
    BY <1>1, <2>2, <2>3
  <2> QED BY <2>4, <2>5
<1>2. CASE b = 10
  <2>1. v \div 10 \in Nat /\ v % 10 \in 0..(10 - 1)
    OBVIOUS
  <2>2. PICK q \in Nat, r \in 0..(10 - 1) : q = v \div 10 /\ r = v % 10
    BY <2>1
  <2>3. v = q * 10 + r /\ (v > 0 => q < v) /\ (v >= 10 => q > 0)
    BY <2>2
  <2>4. v \div b = q /\ v % b = r
    BY <1>2, <2>2
  <2>5. q \in Nat /\ r \in 0..(b - 1) /\ v = q * b + r /\ (v > 0 => q < v) /\ (v >= b => q > 0)
    BY <1>2, <2>2, <2>3
  <2> QED BY <2>4, <2>5
<1>3. CASE b = 16
  <2>1. v \div 16 \in Nat /\ v % 16 \in 0..(16 - 1)
    OBVIOUS
  <2>2. PICK q \in Nat, r \in 0..(16 - 1) : q = v \div 16 /\ r = v % 16
    BY <2>1
  <2>3. v = q * 16 + r /\ (v > 0 => q < v) /\ (v >= 16 => q > 0)
    BY <2>2
  <2>4. v \div b = q /\ v % b = r
    BY <1>3, <2>2
  <2>5. q \in Nat /\ r \in 0..(b - 1) /\ v = q * b + r /\ (v > 0 => q < v) /\ (v >= b => q > 0)
    BY <1>3, <2>2, <2>3
  <2> QED BY <2>4, <2>5
<1> QED BY <1>1, <1>2, <1>3 DEF Bases

\* What is computed by dividing exists, up to any number,
LEMMA DividesSome ==
    ASSUME NEW S, NEW f, StepOn(f, S, Nat), NEW base \in [Nat -> S], NEW b \in Bases, NEW m \in Nat
    PROVE  \E g : Divides(g, S, f, base, b, m)
<1> USE DEF StepOn
<1> DEFINE A == {k \in Nat : \E g : Divides(g, S, f, base, b, k)}
<1>0. b \in Nat /\ b > 1
  BY DEF Bases
<1>1. 0 \in A
  <2> DEFINE g == [k \in 0..0 |-> base[k]]
  <2>1. Divides(g, S, f, base, b, 0)
    <3>1. g \in [0..0 -> S]
      OBVIOUS
    <3>2. \A v \in 0..0 : v < b /\ g[v] = base[v]
      BY <1>0
    <3> HIDE DEF g
    <3> QED BY <3>1, <3>2 DEF Divides
  <2> QED BY <2>1
<1>2. ASSUME NEW k \in A PROVE k + 1 \in A
  <2>1. PICK g : Divides(g, S, f, base, b, k)
    OBVIOUS
  <2>2. k \in Nat /\ k + 1 \in Nat
    OBVIOUS
  <2> DEFINE q == (k + 1) \div b
             h == [v \in 0..(k + 1) |-> IF v <= k THEN g[v] ELSE
                                        IF v < b THEN base[v] ELSE f[<<g[q], k + 1>>]]
  <2>3. q \in 0..k
    <3>1. q \in Nat /\ q < k + 1
      BY <2>2, Quotient
    <3> QED BY <2>2, <3>1
  <2>4. g \in [0..k -> S] /\ g[q] \in S
    BY <2>1, <2>3 DEF Divides
  <2>5. f[<<g[q], k + 1>>] \in S
    BY <2>2, <2>4
  <2>6. h \in [0..(k + 1) -> S]
    <3>1. ASSUME NEW v \in 0..(k + 1) PROVE h[v] \in S
      <4>1. v \in Nat /\ base[v] \in S
        BY <2>2
      <4>2. v <= k => g[v] \in S
        BY <2>2, <2>4
      <4> HIDE DEF q
      <4> QED BY <2>5, <4>1, <4>2
    <3> HIDE DEF q
    <3> QED BY <3>1
  <2>7. ASSUME NEW v \in 0..(k + 1)
        PROVE  h[v] = IF v < b THEN base[v] ELSE f[<<h[v \div b], v>>]
    <3>1. CASE v <= k
      <4>1. v \in 0..k /\ v \in Nat
        BY <2>2, <3>1
      <4>2. v \div b \in Nat /\ (v >= b => v \div b < v)
        BY <1>0, <4>1, Quotient
      <4>3. v >= b => v \div b \in 0..(k + 1) /\ v \div b <= k
        BY <2>2, <3>1, <4>1, <4>2
      <4>4. PICK w : w = v \div b
        OBVIOUS
      <4>5. h[v] = g[v] /\ (v >= b => h[w] = g[w])
        BY <3>1, <4>3, <4>4
      <4>6. g[v] = IF v < b THEN base[v] ELSE f[<<g[w], v>>]
        BY <2>1, <4>1, <4>4 DEF Divides
      <4> HIDE DEF h
      <4> QED BY <1>0, <4>1, <4>4, <4>5, <4>6
    <3>2. CASE v = k + 1
      <4>1. v \div b = q /\ ~(v <= k)
        BY <2>2, <3>2
      <4>2. h[q] = g[q]
        BY <2>2, <2>3
      <4>3. h[v] = IF v < b THEN base[v] ELSE f[<<g[q], v>>]
        BY <3>2, <4>1
      <4> HIDE DEF h, q
      <4> QED BY <4>1, <4>2, <4>3
    <3> QED BY <2>2, <3>1, <3>2
  <2>8. Divides(h, S, f, base, b, k + 1)
    <3> HIDE DEF h
    <3> QED BY <2>6, <2>7 DEF Divides
  <2> QED BY <2>2, <2>8
<1>3. A \in SUBSET Nat
  OBVIOUS
<1>4. m \in A
  <2> HIDE DEF A
  <2> QED BY <1>1, <1>2, <1>3, Induction
<1> QED BY <1>4

\* in one way only,
LEMMA DividesOnce ==
    ASSUME NEW S, NEW f, NEW base, NEW b \in Bases, NEW m \in Nat, NEW k \in Nat, NEW g, NEW h,
           Divides(g, S, f, base, b, m), Divides(h, S, f, base, b, k)
    PROVE  \A v \in Nat : v <= m /\ v <= k => g[v] = h[v]
<1> DEFINE A == {j \in Nat : \A v \in 0..j : v <= m /\ v <= k => g[v] = h[v]}
<1>0. b \in Nat /\ b > 1
  BY DEF Bases
<1>1. ASSUME NEW v \in Nat, v <= m, v <= k, \A w \in Nat : w < v => g[w] = h[w]
      PROVE  g[v] = h[v]
  <2>1. v \in 0..m /\ v \in 0..k
    BY <1>1
  <2>2. PICK q \in Nat : v \div b = q /\ (v > 0 => q < v)
    BY Quotient
  <2>3. g[v] = IF v < b THEN base[v] ELSE f[<<g[q], v>>]
    BY <2>1, <2>2 DEF Divides
  <2>4. h[v] = IF v < b THEN base[v] ELSE f[<<h[q], v>>]
    BY <2>1, <2>2 DEF Divides
  <2>5. ~(v < b) => g[q] = h[q]
    BY <1>0, <1>1, <2>2
  <2> QED BY <2>3, <2>4, <2>5
<1>2. 0 \in A
  <2>1. \A v \in 0..0 : v = 0 /\ v \in Nat /\ \A w \in Nat : ~(w < v)
    OBVIOUS
  <2>2. ASSUME NEW v \in 0..0, v <= m, v <= k PROVE g[v] = h[v]
    BY <1>1, <2>1, <2>2
  <2> QED BY <2>2
<1>3. ASSUME NEW j \in A PROVE j + 1 \in A
  <2>1. j \in Nat /\ \A v \in 0..j : v <= m /\ v <= k => g[v] = h[v]
    OBVIOUS
  <2>2. ASSUME NEW v \in 0..(j + 1), v <= m, v <= k PROVE g[v] = h[v]
    <3>1. v \in Nat
      BY <2>1
    <3>2. ASSUME NEW w \in Nat, w < v PROVE g[w] = h[w]
      <4>1. w \in 0..j /\ w <= m /\ w <= k
        BY <2>1, <2>2, <3>1, <3>2
      <4> QED BY <2>1, <4>1
    <3> QED BY <1>1, <2>2, <3>1, <3>2
  <2> QED BY <2>1, <2>2
<1>4. \A j \in Nat : j \in A
  <2>1. A \in SUBSET Nat
    OBVIOUS
  <2> HIDE DEF A
  <2> QED BY <1>2, <1>3, <2>1, Induction
<1>5. ASSUME NEW v \in Nat, v <= m, v <= k PROVE g[v] = h[v]
  <2>1. v \in A /\ v \in 0..v
    BY <1>4
  <2> QED BY <1>5, <2>1
<1> QED BY <1>5

DividesTo(t, S, f, base, b) ==
    /\ t \in [Nat -> S]
    /\ \A v \in Nat : \E q \in Nat :
           q = v \div b /\ t[v] = IF v < b THEN base[v] ELSE f[<<t[q], v>>]

\* and so for all numbers.
LEMMA DividesAll ==
    ASSUME NEW S, NEW f, StepOn(f, S, Nat), NEW base \in [Nat -> S], NEW b \in Bases
    PROVE  \E t : DividesTo(t, S, f, base, b)
<1> DEFINE G(m) == CHOOSE g : Divides(g, S, f, base, b, m)
           t == [v \in Nat |-> G(v)[v]]
<1>0. b \in Nat /\ b > 1
  BY DEF Bases
<1>1. \A m \in Nat : Divides(G(m), S, f, base, b, m)
  BY DividesSome, Zenon
<1> HIDE DEF G
<1>2. ASSUME NEW v \in Nat PROVE G(v)[v] \in S
  <2>1. G(v) \in [0..v -> S] /\ v \in 0..v
    BY <1>1 DEF Divides
  <2> QED BY <2>1
<1>3. t \in [Nat -> S]
  BY <1>2
<1>4. ASSUME NEW v \in Nat
      PROVE  \E q \in Nat : q = v \div b /\ t[v] = IF v < b THEN base[v] ELSE f[<<t[q], v>>]
  <2>1. PICK q \in Nat : v \div b = q /\ (v > 0 => q < v)
    BY Quotient
  <2>2. v \in 0..v
    OBVIOUS
  <2>3. G(v)[v] = IF v < b THEN base[v] ELSE f[<<G(v)[q], v>>]
    BY <1>1, <2>1, <2>2 DEF Divides
  <2>4. ASSUME ~(v < b) PROVE G(v)[q] = G(q)[q]
    <3>1. q <= v /\ q <= q
      BY <1>0, <2>1, <2>4
    <3>2. Divides(G(v), S, f, base, b, v) /\ Divides(G(q), S, f, base, b, q)
      BY <1>1
    <3>3. \A w \in Nat : w <= v /\ w <= q => G(v)[w] = G(q)[w]
      <4>1. \A g, h : Divides(g, S, f, base, b, v) /\ Divides(h, S, f, base, b, q) =>
                \A w \in Nat : w <= v /\ w <= q => g[w] = h[w]
        BY DividesOnce
      <4> QED BY <3>2, <4>1, Zenon
    <3> QED BY <3>1, <3>3
  <2>5. t[v] = G(v)[v] /\ t[q] = G(q)[q]
    OBVIOUS
  <2> HIDE DEF t
  <2> QED BY <2>1, <2>3, <2>4, <2>5
<1> HIDE DEF t
<1>5. DividesTo(t, S, f, base, b)
  BY <1>3, <1>4 DEF DividesTo
<1> QED BY <1>5

\* The character of a digit.
DigitChar(d) == IF d < 10 THEN ZERO + d ELSE 97 + d - 10

\* It is read as that digit again.
LEMMA DigitCharRead ==
    ASSUME NEW d \in 0..15
    PROVE  /\ DigitChar(d) \in Char /\ DigitOf(DigitChar(d)) = d
           /\ ~isspace(DigitChar(d)) /\ DigitChar(d) \notin {MINUS, PLUS}
           /\ tolower(DigitChar(d)) # X /\ (DigitChar(d) = ZERO <=> d = 0)
<1>1. CASE d < 10
  <2>1. PICK c \in Nat : c = DigitChar(d) /\ c = 48 + d /\ c \in 48..57
    BY <1>1 DEF DigitChar, ZERO
  <2>2. isdigit(c) /\ ~isalpha(c) /\ ~isspace(c) /\ ~isupper(c)
    BY <2>1 DEF isdigit, isalpha, islower, isupper, isspace
  <2>3. DigitOf(c) = c - ZERO /\ tolower(c) = c
    BY <2>2, Zenon DEF DigitOf, tolower
  <2>4. DigitOf(c) = d
    BY <2>1, <2>3 DEF ZERO
  <2>5. c \in Char /\ c \notin {MINUS, PLUS} /\ c # X /\ (c = ZERO <=> d = 0)
    BY <2>1 DEF Char, MINUS, PLUS, X, ZERO
  <2> QED BY <2>1, <2>2, <2>3, <2>4, <2>5
<1>2. CASE ~(d < 10)
  <2>1. PICK c \in Nat : c = DigitChar(d) /\ c = 87 + d /\ c \in 97..102
    BY <1>2 DEF DigitChar
  <2>2. ~isdigit(c) /\ isalpha(c) /\ ~isspace(c) /\ ~isupper(c)
    BY <2>1 DEF isdigit, isalpha, islower, isupper, isspace
  <2>3. DigitOf(c) = tolower(c) - (97 - 10) /\ tolower(c) = c
    BY <2>2, Zenon DEF DigitOf, tolower
  <2>4. DigitOf(c) = d
    BY <2>1, <2>3
  <2>5. c \in Char /\ c \notin {MINUS, PLUS} /\ c # X /\ (c = ZERO <=> d = 0)
    BY <1>2, <2>1 DEF Char, MINUS, PLUS, X, ZERO
  <2> QED BY <2>1, <2>2, <2>3, <2>4, <2>5
<1> QED BY <1>1, <1>2

\* What fits into an unsigned long is left as it is.
LEMMA WrappedSmall ==
    ASSUME NEW v \in Nat, v <= ULONG_MAX
    PROVE  Wrapped(v) = v
<1>1. PICK u \in Nat : u = ULONG_MAX + 1 /\ v < u
  BY LibraryAssumption DEF ULONG_MAX
<1>2. v % u = v
  BY <1>1
<1> QED BY <1>1, <1>2 DEF Wrapped

\* A digit more is a step more.
LEMMA AccumulateMore ==
    ASSUME NEW s \in Seq(Nat), NEW c \in Nat, NEW base \in Nat
    PROVE  Accumulate(Append(s, c), base) = AccStep(Accumulate(s, base), c, base)
<1>1. PICK len \in Nat : len = Len(s)
  OBVIOUS
<1>2. PICK t \in Seq(Nat) : t = Append(s, c)
  <2>1. Append(s, c) \in Seq(Nat)
    OBVIOUS
  <2> QED BY <2>1
<1>3. /\ Len(t) = len + 1 /\ t[len + 1] = c
      /\ \A k \in 1..len : t[k] = s[k]
  BY <1>1, <1>2
<1>4. PICK h \in [0..len -> Accs] :
          /\ h[0] = AccZero /\ \A k \in 1..len : h[k] = AccStep(h[k - 1], s[k], base)
          /\ h[len] = Accumulate(s, base)
  BY <1>1, AccumulateChain
<1>5. PICK g \in [0..(len + 1) -> Accs] :
          /\ g[0] = AccZero /\ \A k \in 1..(len + 1) : g[k] = AccStep(g[k - 1], t[k], base)
          /\ g[len + 1] = Accumulate(t, base)
  <2>1. \E g \in [0..Len(t) -> Accs] :
            /\ g[0] = AccZero /\ \A k \in 1..Len(t) : g[k] = AccStep(g[k - 1], t[k], base)
            /\ g[Len(t)] = Accumulate(t, base)
    BY AccumulateChain, Zenon
  <2>2. Len(t) = len + 1
    BY <1>3
  <2> QED BY <2>1, <2>2, Zenon
<1> DEFINE A == {k \in Nat : k <= len => g[k] = h[k]}
<1>6. 0 \in A
  BY <1>4, <1>5
<1>7. ASSUME NEW k \in A PROVE k + 1 \in A
  <2>1. k \in Nat /\ k + 1 \in Nat
    OBVIOUS
  <2>2. ASSUME k + 1 <= len PROVE g[k + 1] = h[k + 1]
    <3>1. k + 1 \in 1..len /\ k + 1 \in 1..(len + 1) /\ k + 1 - 1 = k /\ k <= len
      BY <2>1, <2>2
    <3>2. g[k + 1] = AccStep(g[k], t[k + 1], base) /\ h[k + 1] = AccStep(h[k], s[k + 1], base)
      BY <1>4, <1>5, <3>1
    <3>3. g[k] = h[k] /\ t[k + 1] = s[k + 1]
      BY <1>3, <3>1
    <3> QED BY <3>2, <3>3
  <2> QED BY <2>1, <2>2
<1>8. g[len] = h[len]
  <2>1. A \in SUBSET Nat
    OBVIOUS
  <2>2. len \in A
    <3> HIDE DEF A
    <3> QED BY <1>6, <1>7, <2>1, Induction
  <2> QED BY <2>2
<1>9. g[len + 1] = AccStep(g[len], t[len + 1], base)
  <2>1. len + 1 \in 1..(len + 1) /\ len + 1 - 1 = len
    OBVIOUS
  <2> QED BY <1>5, <2>1
<1> QED BY <1>2, <1>3, <1>4, <1>5, <1>8, <1>9

\* The digits s are those of v: reading them gives v, or an overflow.
Reads(s, v, b) ==
    /\ s \in Seq(Char) /\ \A i \in 1..Len(s) : DigitOf(s[i]) < b
    /\ Accumulate(s, b) \in Accs
    /\ Accumulate(s, b).ovf <=> v > ULONG_MAX
    /\ v <= ULONG_MAX => Accumulate(s, b).val = v

\* No digits are nothing.
LEMMA ReadsNone ==
    ASSUME NEW b \in Bases
    PROVE  Reads(<<>>, 0, b)
<1>1. PICK s \in Seq(Nat) : s = <<>> /\ s \in Seq(Char) /\ Len(s) = 0
  <2>1. <<>> \in Seq(Nat) /\ <<>> \in Seq(Char) /\ Len(<<>>) = 0
    OBVIOUS
  <2> QED BY <2>1
<1>2. b \in Nat
  BY DEF Bases
<1>3. Accumulate(s, b) = AccZero
  <2>1. PICK h : h[0] = AccZero /\ h[Len(s)] = Accumulate(s, b)
    BY <1>2, AccumulateChain
  <2> QED BY <1>1, <2>1
<1>4. ULONG_MAX \in Nat
  BY LibraryAssumption DEF ULONG_MAX
<1>5. AccZero \in Accs /\ AccZero.ovf = FALSE /\ AccZero.val = 0
  BY DEF AccZero, Accs
<1>6. \A i \in 1..Len(s) : FALSE
  BY <1>1
<1> QED BY <1>1, <1>3, <1>4, <1>5, <1>6 DEF Reads

\* The test for overflow is exact.
LEMMA OverflowsExact ==
    ASSUME NEW b \in Bases, NEW v \in 0..ULONG_MAX, NEW d \in 0..(b - 1)
    PROVE  /\ Overflows(v, d, b) <=> v * b + d > ULONG_MAX
           /\ v * b + d <= ULONG_MAX => Wrapped(v * b + d) = v * b + d
<1>1. PICK u \in Nat : u = ULONG_MAX /\ u > 34
  BY LibraryAssumption DEF ULONG_MAX
<1>2. v \in Nat /\ d \in Nat /\ v <= u
  BY <1>1
<1>3. CASE b = 8
  <2>1. v > (u - d) \div 8 <=> v * 8 + d > u
    BY <1>1, <1>2, <1>3
  <2>2. v * 8 + d \in Nat
    BY <1>2
  <2> QED BY <1>1, <1>3, <2>1, <2>2, WrappedSmall DEF Overflows
<1>4. CASE b = 10
  <2>1. v > (u - d) \div 10 <=> v * 10 + d > u
    BY <1>1, <1>2, <1>4
  <2>2. v * 10 + d \in Nat
    BY <1>2
  <2> QED BY <1>1, <1>4, <2>1, <2>2, WrappedSmall DEF Overflows
<1>5. CASE b = 16
  <2>1. v > (u - d) \div 16 <=> v * 16 + d > u
    BY <1>1, <1>2, <1>5
  <2>2. v * 16 + d \in Nat
    BY <1>2
  <2> QED BY <1>1, <1>5, <2>1, <2>2, WrappedSmall DEF Overflows
<1> QED BY <1>3, <1>4, <1>5 DEF Bases

\* Sequences with the same elements are the same.
LEMMA SameSeq ==
    ASSUME NEW S, NEW s \in Seq(S), NEW t \in Seq(S), Len(s) = Len(t),
           \A i \in 1..Len(s) : s[i] = t[i]
    PROVE  s = t
<1>1. s = [i \in 1..Len(s) |-> s[i]] /\ t = [i \in 1..Len(s) |-> t[i]]
  OBVIOUS
<1> QED BY <1>1

\* A digit after those of v makes them those of v * b + d.
LEMMA ReadsMore ==
    ASSUME NEW b \in Bases, NEW s, NEW v \in Nat, NEW d \in 0..(b - 1), Reads(s, v, b)
    PROVE  Reads(Append(s, DigitChar(d)), v * b + d, b)
<1>1. PICK u \in Nat : u = ULONG_MAX /\ u > 34
  BY LibraryAssumption DEF ULONG_MAX
<1>2. b \in Nat /\ b > 1 /\ d \in 0..15 /\ d \in Nat /\ d < b
  BY DEF Bases
<1>3. PICK c \in Char : c = DigitChar(d) /\ DigitOf(c) = d
  BY <1>2, DigitCharRead
<1>4. s \in Seq(Char) /\ s \in Seq(Nat) /\ c \in Nat
  BY CharSeq DEF Reads, Char
<1>5. PICK r \in Accs : r = Accumulate(s, b)
  BY DEF Reads
<1>6. r.val \in Nat /\ r.ovf \in BOOLEAN /\ (r.ovf <=> v > u) /\ (v <= u => r.val = v)
  BY <1>1, <1>5 DEF Reads, Accs
<1>7. PICK a \in Accs : a = Accumulate(Append(s, c), b) /\ a = AccStep(r, c, b)
  <2>1. AccStep(r, c, b) \in Accs
    BY <1>2, <1>4, AccStepType
  <2>2. Accumulate(Append(s, c), b) = AccStep(Accumulate(s, b), c, b)
    BY <1>2, <1>4, AccumulateMore
  <2> HIDE DEF AccStep
  <2> QED BY <1>5, <2>1, <2>2
<1>8. a.val = Wrapped(r.val * b + d) /\ (a.ovf <=> r.ovf \/ Overflows(r.val, d, b))
  <2>1. PICK x : x = Wrapped(r.val * b + DigitOf(c))
    OBVIOUS
  <2>2. PICK o : o = (r.ovf \/ Overflows(r.val, DigitOf(c), b))
    OBVIOUS
  <2>3. a = [val |-> x, ovf |-> o]
    BY <1>7, <2>1, <2>2, Zenon DEF AccStep
  <2>4. a.val = x /\ a.ovf = o
    BY <2>3
  <2> QED BY <1>3, <2>1, <2>2, <2>4, Zenon
<1>9. PICK w \in Nat : w = v * b + d
  BY <1>2
<1>10. (a.ovf <=> w > u) /\ (w <= u => a.val = w)
  <2>1. CASE v > u
    <3>1. w > u
      <4>1. CASE b = 8
        BY <1>2, <1>9, <2>1, <4>1
      <4>2. CASE b = 10
        BY <1>2, <1>9, <2>1, <4>2
      <4>3. CASE b = 16
        BY <1>2, <1>9, <2>1, <4>3
      <4> QED BY <4>1, <4>2, <4>3 DEF Bases
    <3>2. a.ovf
      BY <1>6, <1>8, <2>1
    <3> QED BY <1>1, <3>1, <3>2
  <2>2. CASE v <= u
    <3>1. r.val = v /\ ~r.ovf
      BY <1>1, <1>6, <2>2
    <3>2. (Overflows(v, d, b) <=> w > u) /\ (w <= u => Wrapped(w) = w)
      <4>1. v \in 0..ULONG_MAX
        BY <1>1, <2>2
      <4> HIDE DEF Wrapped, Overflows
      <4> QED BY <1>1, <1>9, <4>1, OverflowsExact
    <3> HIDE DEF Wrapped, Overflows
    <3> QED BY <1>8, <1>9, <3>1, <3>2
  <2> QED BY <1>1, <2>1, <2>2
<1>11. \A i \in 1..Len(Append(s, c)) : DigitOf(Append(s, c)[i]) < b
  <2>1. ASSUME NEW i \in 1..Len(Append(s, c)) PROVE DigitOf(Append(s, c)[i]) < b
    <3>1. CASE i \in 1..Len(s)
      <4>1. Append(s, c)[i] = s[i]
        BY <1>4, <3>1
      <4>2. DigitOf(s[i]) < b
        BY <3>1 DEF Reads
      <4> QED BY <4>1, <4>2
    <3>2. CASE i = Len(s) + 1
      <4>1. Append(s, c)[i] = c
        BY <1>4, <3>2
      <4> QED BY <1>2, <1>3, <4>1
    <3> QED BY <1>4, <2>1, <3>1, <3>2
  <2> QED BY <2>1
<1>12. Append(s, c) \in Seq(Char)
  BY <1>4
<1>13. Reads(Append(s, c), w, b)
  BY <1>1, <1>7, <1>10, <1>11, <1>12 DEF Reads
<1> QED BY <1>3, <1>9, <1>13

\* What NumberText() writes for v: its digits, the first no zero, which read as
\* v after a zero too.
Written(s, v, b) ==
    /\ s \in Seq(Char) /\ Len(s) > 0
    /\ \A i \in 1..Len(s) : \E d \in 0..(b - 1) : s[i] = DigitChar(d)
    /\ s[1] = ZERO => v = 0 /\ Len(s) = 1
    /\ Reads(s, v, b) /\ Reads(<<ZERO>> \o s, v, b)

\* A zero in front changes nothing.
LEMMA ReadsZero ==
    ASSUME NEW b \in Bases
    PROVE  Reads(<<ZERO>>, 0, b)
<1>1. 0 \in 0..(b - 1) /\ DigitChar(0) = ZERO /\ 0 * b + 0 = 0
  BY DEF Bases, DigitChar, ZERO
<1>2. Append(<<>>, ZERO) = <<ZERO>>
  OBVIOUS
<1>3. Reads(Append(<<>>, DigitChar(0)), 0 * b + 0, b)
  BY <1>1, ReadsNone, ReadsMore
<1> QED BY <1>1, <1>2, <1>3

\* A number below the base is one digit.
LEMMA WrittenOne ==
    ASSUME NEW b \in Bases, NEW v \in 0..(b - 1)
    PROVE  Written(<<DigitChar(v)>>, v, b)
<1>1. v \in Nat /\ v \in 0..15 /\ b \in Nat
  BY DEF Bases
<1>2. PICK c \in Char : c = DigitChar(v) /\ (c = ZERO <=> v = 0)
  BY <1>1, DigitCharRead
<1>3. Append(<<>>, c) = <<c>> /\ Append(<<ZERO>>, c) = <<ZERO>> \o <<c>>
  OBVIOUS
<1>4. 0 * b + v = v
  BY <1>1
<1>5. Reads(<<c>>, v, b) /\ Reads(<<ZERO>> \o <<c>>, v, b)
  BY <1>2, <1>3, <1>4, ReadsNone, ReadsZero, ReadsMore
<1>6. PICK s \in Seq(Char) : s = <<c>> /\ Len(s) = 1 /\ s[1] = c
  <2>1. <<c>> \in Seq(Char) /\ Len(<<c>>) = 1 /\ <<c>>[1] = c
    OBVIOUS
  <2> QED BY <2>1
<1>7. Written(s, v, b)
  BY <1>2, <1>5, <1>6 DEF Written
<1> QED BY <1>2, <1>6, <1>7

\* Any other number is its quotient and a digit.
LEMMA WrittenMore ==
    ASSUME NEW b \in Bases, NEW s, NEW v \in Nat, v > 0, NEW d \in 0..(b - 1), Written(s, v, b)
    PROVE  Written(Append(s, DigitChar(d)), v * b + d, b)
<1>1. d \in 0..15 /\ b \in Nat
  BY DEF Bases
<1>2. PICK c \in Char : c = DigitChar(d)
  BY <1>1, DigitCharRead
<1>3. s \in Seq(Char) /\ Len(s) > 0 /\ s[1] # ZERO
  BY DEF Written
<1>4. PICK t \in Seq(Char) : t = Append(s, c) /\ Len(t) = Len(s) + 1 /\ t[Len(s) + 1] = c
                             /\ \A i \in 1..Len(s) : t[i] = s[i]
  <2>1. Append(s, c) \in Seq(Char)
    BY <1>3
  <2>2. Len(Append(s, c)) = Len(s) + 1 /\ Append(s, c)[Len(s) + 1] = c
    BY <1>3
  <2>3. \A i \in 1..Len(s) : Append(s, c)[i] = s[i]
    BY <1>3
  <2> QED BY <2>1, <2>2, <2>3
<1>5. Append(<<ZERO>> \o s, c) = <<ZERO>> \o t
  <2>1. ZERO \in Char
    BY DEF ZERO, Char
  <2>2. PICK z \in Seq(Char) : z = <<ZERO>> /\ Len(z) = 1
    <3>1. <<ZERO>> \in Seq(Char) /\ Len(<<ZERO>>) = 1
      BY <2>1
    <3> QED BY <3>1
  <2>3. PICK l \in Nat : l = Len(s)
    BY <1>3
  <2>4. PICK y \in Seq(Char) : y = z \o s /\ Len(y) = l + 1
    <3>1. z \o s \in Seq(Char) /\ Len(z \o s) = l + 1
      BY <1>3, <2>2, <2>3
    <3> QED BY <3>1
  <2>5. PICK x \in Seq(Char) : x = Append(y, c) /\ Len(x) = l + 2
    <3>1. Append(y, c) \in Seq(Char) /\ Len(Append(y, c)) = Len(y) + 1
      OBVIOUS
    <3>2. Len(Append(y, c)) = l + 2
      <4>1. PICK k \in Nat : k = Len(y)
        OBVIOUS
      <4>2. k = l + 1
        BY <2>4, <4>1
      <4>3. Len(Append(y, c)) = k + 1
        BY <3>1, <4>1
      <4> QED BY <4>2, <4>3
    <3> QED BY <3>1, <3>2
  <2>6. PICK w \in Seq(Char) : w = z \o t /\ Len(w) = l + 2
    <3>1. z \o t \in Seq(Char) /\ Len(z \o t) = l + 2
      BY <1>4, <2>2, <2>3
    <3> QED BY <3>1
  <2>7. ASSUME NEW i \in 1..Len(x) PROVE x[i] = w[i]
    <3>1. CASE i = 1
      BY <1>3, <1>4, <2>2, <2>3, <2>4, <2>5, <2>6, <3>1
    <3>2. CASE i > 1 /\ i <= l + 1
      <4>1. i - 1 \in 1..l /\ x[i] = y[i]
        BY <2>3, <2>4, <2>5, <3>2
      <4>2. y[i] = s[i - 1] /\ w[i] = t[i - 1]
        BY <1>3, <1>4, <2>2, <2>3, <2>4, <2>6, <3>2
      <4> QED BY <1>4, <2>3, <4>1, <4>2
    <3>3. CASE i = l + 2
      <4>1. x[i] = c
        BY <2>4, <2>5, <3>3
      <4>2. w[i] = t[l + 1]
        BY <1>4, <2>2, <2>3, <2>6, <3>3
      <4> QED BY <1>4, <2>3, <4>1, <4>2
    <3> QED BY <2>5, <3>1, <3>2, <3>3
  <2>8. x = w
    BY <2>5, <2>6, <2>7, SameSeq
  <2> QED BY <1>4, <2>2, <2>4, <2>5, <2>6, <2>8
<1>6. Reads(t, v * b + d, b) /\ Reads(<<ZERO>> \o t, v * b + d, b)
  BY <1>2, <1>4, <1>5, ReadsMore DEF Written
<1>7. \A i \in 1..Len(t) : \E e \in 0..(b - 1) : t[i] = DigitChar(e)
  <2>1. ASSUME NEW i \in 1..Len(t) PROVE \E e \in 0..(b - 1) : t[i] = DigitChar(e)
    <3>1. CASE i \in 1..Len(s)
      BY <1>4, <3>1 DEF Written
    <3>2. CASE i = Len(s) + 1
      BY <1>2, <1>4, <3>2
    <3> QED BY <1>3, <1>4, <3>1, <3>2
  <2> QED BY <2>1
<1>8. t[1] # ZERO /\ Len(t) > 0
  <2>1. 1 \in 1..Len(s)
    BY <1>3
  <2> QED BY <1>3, <1>4, <2>1
<1> QED BY <1>2, <1>4, <1>6, <1>7, <1>8 DEF Written

\* The digits of all numbers, and what NumberText() makes of them.
TextsOf(T, b) ==
    \A k \in Nat :
        /\ T[k] = IF k < b THEN <<DigitChar(k % b)>> ELSE Append(T[k \div b], DigitChar(k % b))
        /\ NumberText(FALSE, k, b, 97) = <<>> \o T[k]
        /\ NumberText(TRUE, k, b, 97) = <<MINUS>> \o T[k]

\* NumberText() finds the digits by dividing.
LEMMA NumberTextDigits ==
    ASSUME NEW b \in Bases
    PROVE  \E T : TextsOf(T, b)
<1>0. b \in Nat /\ b > 1 /\ \A d \in 0..(b - 1) : d \in 0..15
  BY DEF Bases
<1> DEFINE S == Seq(Char)
           f == [tc \in S \X Nat |-> Append(tc[1], DigitChar(tc[2] % b))]
           base == [k \in Nat |-> <<DigitChar(k % b)>>]
           Eq(g) == g = [k \in Nat |-> IF k < b THEN <<DigitChar(k % b)>>
                                                ELSE Append(g[k \div b], DigitChar(k % b))]
           T == CHOOSE g : Eq(g)
<1>1. \A k \in Nat : DigitChar(k % b) \in Char
  <2>1. ASSUME NEW k \in Nat PROVE DigitChar(k % b) \in Char
    <3>1. PICK r \in 0..(b - 1) : k % b = r
      BY Quotient
    <3>2. DigitChar(r) \in Char
      BY <1>0, DigitCharRead
    <3> QED BY <3>1, <3>2
  <2> QED BY <2>1
<1>2. StepOn(f, S, Nat)
  <2>1. ASSUME NEW t \in S, NEW k \in Nat PROVE Append(t, DigitChar(k % b)) \in S
    <3>1. PICK c \in Char : c = DigitChar(k % b)
      BY <1>1
    <3>2. Append(t, c) \in Seq(Char)
      OBVIOUS
    <3> QED BY <3>1, <3>2
  <2>2. f \in [S \X Nat -> S]
    <3> HIDE DEF S
    <3> QED BY <2>1
  <2> QED BY <2>2 DEF StepOn
<1>3. base \in [Nat -> S]
  <2>1. ASSUME NEW k \in Nat PROVE <<DigitChar(k % b)>> \in S
    <3>1. PICK c \in Char : c = DigitChar(k % b)
      BY <1>1
    <3>2. <<c>> \in Seq(Char)
      OBVIOUS
    <3> QED BY <3>1, <3>2
  <2> HIDE DEF S
  <2> QED BY <2>1
<1>4. \A t \in S, k \in Nat : f[<<t, k>>] = Append(t, DigitChar(k % b))
  <2> HIDE DEF S
  <2> QED OBVIOUS
<1>5. \A k \in Nat : base[k] = <<DigitChar(k % b)>>
  OBVIOUS
<1> HIDE DEF f, base, S
<1>6. PICK t \in [Nat -> S] : \A k \in Nat : \E q \in Nat :
          q = k \div b /\ t[k] = IF k < b THEN base[k] ELSE f[<<t[q], k>>]
  <2>1. PICK t : DividesTo(t, S, f, base, b)
    BY <1>2, <1>3, DividesAll, Zenon
  <2> QED BY <2>1, Zenon DEF DividesTo
<1>7. Eq(t)
  <2>1. ASSUME NEW k \in Nat
        PROVE  t[k] = IF k < b THEN <<DigitChar(k % b)>> ELSE Append(t[k \div b], DigitChar(k % b))
    <3>1. PICK q \in Nat : q = k \div b /\ t[k] = IF k < b THEN base[k] ELSE f[<<t[q], k>>]
      BY <1>6
    <3>2. t[q] \in S
      BY <1>6
    <3>3. base[k] = <<DigitChar(k % b)>> /\ f[<<t[q], k>>] = Append(t[q], DigitChar(k % b))
      BY <1>4, <1>5, <3>2, Zenon
    <3> QED BY <3>1, <3>3, Zenon
  <2>2. t = [k \in Nat |-> t[k]]
    BY <1>6
  <2> QED BY <2>1, <2>2, Zenon
<1>8. Eq(T)
  BY <1>7, Zenon
<1>9. ASSUME NEW k \in Nat, NEW neg \in BOOLEAN
      PROVE  NumberText(neg, k, b, 97) = (IF neg THEN <<MINUS>> ELSE <<>>) \o T[k]
  BY Zenon DEF NumberText, DigitChar
<1> HIDE DEF T
<1>10. \A k \in Nat : T[k] = IF k < b THEN <<DigitChar(k % b)>> ELSE Append(T[k \div b], DigitChar(k % b))
  BY <1>8, Zenon
<1> HIDE DEF Eq
<1>11. TextsOf(T, b)
  BY <1>9, <1>10, Zenon DEF TextsOf
<1> QED BY <1>11

\* The digits of a number are written like that.
LEMMA TextsWritten ==
    ASSUME NEW b \in Bases, NEW T, TextsOf(T, b), NEW v \in Nat
    PROVE  Written(T[v], v, b)
<1>0. b \in Nat /\ b > 1
  BY DEF Bases
<1>10. \A k \in Nat : T[k] = IF k < b THEN <<DigitChar(k % b)>> ELSE Append(T[k \div b], DigitChar(k % b))
  BY Zenon DEF TextsOf
<1> DEFINE A == {j \in Nat : \A k \in 0..j : Written(T[k], k, b)}
<1>11. ASSUME NEW k \in Nat, \A w \in Nat : w < k => Written(T[w], w, b)
       PROVE  Written(T[k], k, b)
  <2>1. PICK q \in Nat, r \in 0..(b - 1) :
            /\ k \div b = q /\ k % b = r /\ k = q * b + r
            /\ (k > 0 => q < k) /\ (k >= b => q > 0)
    BY Quotient
  <2>2. T[k] = IF k < b THEN <<DigitChar(r)>> ELSE Append(T[q], DigitChar(r))
    BY <1>10, <2>1
  <2>3. CASE k < b
    <3>1. k = r
      <4>1. k \in 0..(b - 1)
        BY <1>0, <2>3
      <4>2. q = 0
        <5>1. CASE b = 8
          BY <2>1, <2>3, <5>1
        <5>2. CASE b = 10
          BY <2>1, <2>3, <5>2
        <5>3. CASE b = 16
          BY <2>1, <2>3, <5>3
        <5> QED BY <5>1, <5>2, <5>3 DEF Bases
      <4> QED BY <1>0, <2>1, <4>2
    <3> QED BY <2>2, <2>3, <3>1, WrittenOne
  <2>4. CASE ~(k < b)
    <3>1. q > 0 /\ q < k
      BY <1>0, <2>1, <2>4
    <3>2. Written(T[q], q, b)
      BY <1>11, <3>1
    <3>3. Written(Append(T[q], DigitChar(r)), q * b + r, b)
      BY <3>1, <3>2, WrittenMore
    <3>4. Append(T[q], DigitChar(r)) = T[k] /\ q * b + r = k
      BY <2>1, <2>2, <2>4
    <3> QED BY <3>3, <3>4
  <2> QED BY <2>3, <2>4
<1>12. 0 \in A
  <2>1. \A k \in 0..0 : k \in Nat /\ \A w \in Nat : ~(w < k)
    OBVIOUS
  <2>2. ASSUME NEW k \in 0..0 PROVE Written(T[k], k, b)
    BY <1>11, <2>1
  <2> QED BY <2>2
<1>13. ASSUME NEW j \in A PROVE j + 1 \in A
  <2>1. j \in Nat /\ \A k \in 0..j : Written(T[k], k, b)
    OBVIOUS
  <2>2. ASSUME NEW k \in 0..(j + 1) PROVE Written(T[k], k, b)
    <3>1. \A w \in Nat : w < k => w \in 0..j
      BY <2>1
    <3> QED BY <1>11, <2>1, <3>1
  <2> QED BY <2>1, <2>2
<1>14. v \in A
  <2>1. A \in SUBSET Nat
    OBVIOUS
  <2> HIDE DEF A
  <2> QED BY <1>12, <1>13, <2>1, Induction
<1> QED BY <1>14

\* NumberText() writes the digits of its number.
LEMMA NumberTextWritten ==
    ASSUME NEW b \in Bases, NEW v \in Nat
    PROVE  Written(NumberText(FALSE, v, b, 97), v, b)
<1>1. PICK T : TextsOf(T, b)
  BY NumberTextDigits
<1>2. Written(T[v], v, b)
  BY <1>1, TextsWritten
<1>3. <<>> \o T[v] = T[v]
  <2>1. PICK s \in Seq(Char) : s = T[v]
    BY <1>2 DEF Written
  <2>2. <<>> \o s = s
    OBVIOUS
  <2> QED BY <2>1, <2>2
<1>4. NumberText(FALSE, v, b, 97) = T[v]
  BY <1>1, <1>3, Zenon DEF TextsOf
<1> QED BY <1>2, <1>4

\* What a character is read as is a number.
LEMMA DigitNat ==
    ASSUME NEW c \in Char
    PROVE  c \in Nat /\ DigitOf(c) \in Nat
<1>1. c \in Nat
  BY DEF Char
<1>2. DigitOf(c) \in 0..36
  BY <1>1, DigitType
<1> QED BY <1>1, <1>2

\* The characters of a string.
LEMMA CharOf ==
    ASSUME NEW s \in Seq(Char), NEW i \in 1..Len(s)
    PROVE  s[i] \in Char
  OBVIOUS

\* The string s has t at k.
Stands(s, k, t) ==
    k + Len(t) <= Len(s) + 1 /\ \A i \in 1..Len(t) : s[k + i - 1] = t[i]

NoDigit(s, k, base) == DigitOf(At(s, k)) >= base

\* Digits at a place of a string, up to a character that is none, are read.
LEMMA DigitsRead ==
    ASSUME NEW s \in Seq(Char), NEW k \in Nat, k >= 1, NEW base \in Bases,
           NEW t \in Seq(Char), NEW v, Reads(t, v, base), Len(t) > 0, Stands(s, k, t),
           NoDigit(s, k + Len(t), base)
    PROVE  Digits(s, k, base) = [val |-> Accumulate(t, base).val, ovf |-> Accumulate(t, base).ovf,
                                 parsed |-> TRUE, end |-> k + Len(t)]
<1>1. PICK l \in Nat : l = Len(t) /\ l > 0
  OBVIOUS
<1>2. PICK len \in Nat : len = Len(s) /\ k + l <= len + 1 /\ \A i \in 1..l : s[k + i - 1] = t[i]
  BY <1>1 DEF Stands
<1>3. base \in 2..36 /\ base \in Nat
  BY DEF Bases
<1>4. PICK e : /\ DigitsEnd(s, k, base, e) /\ SubSeq(s, k, e - 1) \in Seq(Char)
               /\ Accumulate(SubSeq(s, k, e - 1), base) \in Accs
               /\ Digits(s, k, base) = [val |-> Accumulate(SubSeq(s, k, e - 1), base).val,
                                        ovf |-> Accumulate(SubSeq(s, k, e - 1), base).ovf,
                                        parsed |-> e > k, end |-> e]
  <2>1. k <= Len(s) + 1
    BY <1>1, <1>2
  <2> QED BY <1>3, <2>1, DigitsEffect, Zenon
<1>5. e \in Nat /\ k <= e /\ e <= len + 1
  BY <1>2, <1>4 DEF DigitsEnd
<1>6. ASSUME NEW i \in 1..l PROVE At(s, k + i - 1) = t[i] /\ DigitOf(t[i]) < base
  <2>1. k + i - 1 <= len /\ s[k + i - 1] = t[i]
    BY <1>1, <1>2
  <2>2. DigitOf(t[i]) < base
    BY <1>1 DEF Reads
  <2> QED BY <1>2, <2>1, <2>2 DEF At
<1>7. \A c \in Char : DigitOf(c) \in Nat
  BY DigitNat, Zenon
<1>8. e = k + l
  <2>1. ASSUME e < k + l PROVE FALSE
    <3>1. PICK i \in 1..l : i = e - k + 1 /\ k + i - 1 = e
      BY <1>5, <2>1
    <3>2. PICK d \in Nat : d = DigitOf(t[i])
      <4>1. i \in 1..Len(t)
        BY <1>1, <3>1
      <4> QED BY <1>7, <4>1, CharOf, Zenon
    <3>3. d < base /\ d >= base
      <4>1. At(s, e) = t[i]
        BY <1>6, <3>1
      <4> QED BY <1>4, <1>6, <3>2, <4>1 DEF DigitsEnd
    <3> QED BY <1>3, <3>2, <3>3
  <2>2. ASSUME k + l < e PROVE FALSE
    <3>1. PICK j \in Nat : j = k + l /\ k <= j /\ j < e
      BY <2>2
    <3>2. PICK d \in Nat : d = DigitOf(At(s, j))
      <4>1. At(s, j) \in Char
        BY <3>1, AtType
      <4> QED BY <1>7, <4>1, Zenon
    <3>3. d < base
      BY <1>4, <3>1, <3>2 DEF DigitsEnd
    <3>4. d >= base
      BY <1>1, <3>1, <3>2 DEF NoDigit
    <3> QED BY <1>3, <3>2, <3>3, <3>4
  <2> QED BY <1>5, <2>1, <2>2
<1>9. SubSeq(s, k, e - 1) = t
  <2>1. PICK w \in Seq(Char) : w = SubSeq(s, k, e - 1)
    BY <1>4
  <2>2. w = [i \in 1..l |-> s[k + i - 1]]
    <3>1. k \in Int /\ e - 1 \in Int /\ e - 1 <= len /\ (e - 1) - k + 1 = l
      BY <1>2, <1>8
    <3> QED BY <1>2, <2>1, <3>1, <1>8
  <2>3. Len(w) = l
    <3>1. DOMAIN w = 1..l
      BY <2>2
    <3> QED BY <3>1
  <2>4. \A i \in 1..l : w[i] = t[i]
    BY <1>2, <2>2
  <2> QED BY <1>1, <2>1, <2>3, <2>4, SameSeq
<1>10. e > k
  BY <1>1, <1>8
<1>11. (e > k) = TRUE
  BY <1>10
<1> QED BY <1>1, <1>4, <1>8, <1>9, <1>11

\* What a number is read as: its value, or an overflow, and where it ends.
Value(r, v, e) ==
    \E w \in Nat, o \in BOOLEAN :
        /\ r = [val |-> w, ovf |-> o, parsed |-> TRUE, end |-> e]
        /\ o <=> v > ULONG_MAX
        /\ v <= ULONG_MAX => w = v

\* Digits are read as the number they are those of.
LEMMA DigitsValue ==
    ASSUME NEW s \in Seq(Char), NEW k \in Nat, k >= 1, NEW base \in Bases,
           NEW t, NEW v \in Nat, Reads(t, v, base), Len(t) > 0, Stands(s, k, t),
           NoDigit(s, k + Len(t), base)
    PROVE  Value(Digits(s, k, base), v, k + Len(t))
<1>1. t \in Seq(Char)
  BY DEF Reads
<1>2. Digits(s, k, base) = [val |-> Accumulate(t, base).val, ovf |-> Accumulate(t, base).ovf,
                            parsed |-> TRUE, end |-> k + Len(t)]
  BY <1>1, DigitsRead, Zenon
<1>3. PICK a \in Accs : a = Accumulate(t, base)
  BY DEF Reads
<1>4. PICK w \in Nat, o \in BOOLEAN : w = a.val /\ o = a.ovf
  BY <1>3 DEF Accs
<1>5. (o <=> v > ULONG_MAX) /\ (v <= ULONG_MAX => w = v)
  BY <1>3, <1>4, Zenon DEF Reads
<1>6. Digits(s, k, base) = [val |-> w, ovf |-> o, parsed |-> TRUE, end |-> k + Len(t)]
  BY <1>2, <1>3, <1>4, Zenon
<1> QED BY <1>5, <1>6, Zenon DEF Value

\* A character of t where it stands.
LEMMA StandsAt ==
    ASSUME NEW s \in Seq(Char), NEW k \in Nat, k >= 1, NEW t \in Seq(Char), Stands(s, k, t),
           NEW i \in 1..Len(t)
    PROVE  At(s, k + i - 1) = t[i] /\ k + i - 1 \in 1..Len(s)
<1>1. PICK l \in Nat : l = Len(t)
  OBVIOUS
<1>2. PICK len \in Nat : len = Len(s)
  OBVIOUS
<1>3. k + l <= len + 1 /\ s[k + i - 1] = t[i]
  BY <1>1, <1>2 DEF Stands
<1>4. PICK j \in Nat : j = k + i - 1 /\ j <= len /\ j >= 1
  BY <1>1, <1>3
<1> QED BY <1>2, <1>3, <1>4 DEF At

\* The strings that NumbersRead has read: blanks, a sign, the prefix of the
\* base, the digits t, and a rest that does not go on with them.
Signs == {<<>>, <<PLUS>>, <<MINUS>>}
Rests == {<<>>, <<SPACE, ZERO>>, <<122>>}

\* The bases strtol() is told: that of the number, or 0 for any.
BasesFor(b) == {0, b}

Numeral(s, sign, b, t, rest) ==
    /\ s \in Seq(Char)
    /\ Stands(s, 1, <<SPACE, TAB>>)
    /\ Stands(s, 3, sign)
    /\ Stands(s, 3 + Len(sign), Prefix(b))
    /\ Stands(s, 3 + Len(sign) + Len(Prefix(b)), t)
    /\ Stands(s, 3 + Len(sign) + Len(Prefix(b)) + Len(t), rest)
    /\ Len(s) + 1 = 3 + Len(sign) + Len(Prefix(b)) + Len(t) + Len(rest)

\* Parts of such a string: characters,
LEMMA PartChars ==
    /\ SPACE \in Char /\ TAB \in Char /\ PLUS \in Char /\ MINUS \in Char /\ ZERO \in Char
    /\ X \in Char /\ 122 \in Char
  BY DEF SPACE, TAB, PLUS, MINUS, ZERO, X, Char

\* short sequences of them,
LEMMA ShortSeqs ==
    /\ <<>> \in Seq(Char) /\ Len(<<>>) = 0
    /\ \A c \in Char : <<c>> \in Seq(Char) /\ Len(<<c>>) = 1 /\ <<c>>[1] = c
    /\ \A c \in Char, d \in Char :
           <<c, d>> \in Seq(Char) /\ Len(<<c, d>>) = 2 /\ <<c, d>>[1] = c /\ <<c, d>>[2] = d
<1>1. \A c \in Char : <<c>> \in Seq(Char) /\ Len(<<c>>) = 1 /\ <<c>>[1] = c
  OBVIOUS
<1>2. \A c \in Char, d \in Char :
          <<c, d>> \in Seq(Char) /\ Len(<<c, d>>) = 2 /\ <<c, d>>[1] = c /\ <<c, d>>[2] = d
  OBVIOUS
<1>3. <<>> \in Seq(Char) /\ Len(<<>>) = 0
  OBVIOUS
<1> QED BY <1>1, <1>2, <1>3, Zenon

\* the sign,
LEMMA SignPart ==
    ASSUME NEW sign \in Signs
    PROVE  /\ sign \in Seq(Char)
           /\ (Len(sign) = 0 /\ sign # <<MINUS>>)
              \/ (Len(sign) = 1 /\ sign[1] = PLUS /\ sign # <<MINUS>>)
              \/ (Len(sign) = 1 /\ sign[1] = MINUS /\ sign = <<MINUS>>)
<1>1. CASE sign = <<>>
  <2>1. sign \in Seq(Char) /\ Len(sign) = 0
    BY <1>1, ShortSeqs, Zenon
  <2>2. PICK t : t = <<MINUS>> /\ Len(t) = 1
    BY PartChars, ShortSeqs, Zenon
  <2>3. sign # t
    BY <2>1, <2>2
  <2> QED BY <2>1, <2>2, <2>3, Zenon
<1>2. CASE sign = <<PLUS>>
  <2>1. sign \in Seq(Char) /\ Len(sign) = 1 /\ sign[1] = PLUS
    BY <1>2, PartChars, ShortSeqs, Zenon
  <2>2. <<MINUS>>[1] = MINUS
    BY PartChars, ShortSeqs, Zenon
  <2>3. PLUS # MINUS
    BY DEF PLUS, MINUS
  <2>4. ASSUME sign = <<MINUS>> PROVE FALSE
    <3>1. PICK t : t = <<MINUS>> /\ t[1] = MINUS
      BY <2>2
    <3>2. sign = t
      BY <2>4, <3>1, Zenon
    <3> QED BY <2>1, <2>3, <3>1, <3>2, Zenon
  <2> QED BY <2>1, <2>4, Zenon
<1>3. CASE sign = <<MINUS>>
  BY <1>3, PartChars, ShortSeqs, Zenon
<1> QED BY <1>1, <1>2, <1>3, Zenon DEF Signs

\* the prefix of the base,
LEMMA PrefixPart ==
    ASSUME NEW b \in Bases
    PROVE  /\ Prefix(b) \in Seq(Char)
           /\ b = 8 => Prefix(b) = <<ZERO>> /\ Len(Prefix(b)) = 1 /\ Prefix(b)[1] = ZERO
           /\ b = 10 => Prefix(b) = <<>> /\ Len(Prefix(b)) = 0
           /\ b = 16 => Len(Prefix(b)) = 2 /\ Prefix(b)[1] = ZERO /\ Prefix(b)[2] = X
<1>1. CASE b = 8
  <2>1. Prefix(b) = <<ZERO>>
    BY <1>1 DEF Prefix
  <2>2. Prefix(b) \in Seq(Char) /\ Len(Prefix(b)) = 1 /\ Prefix(b)[1] = ZERO
    <3>1. <<ZERO>> \in Seq(Char) /\ Len(<<ZERO>>) = 1 /\ <<ZERO>>[1] = ZERO
      BY PartChars, ShortSeqs, Zenon
    <3>2. PICK t : t = <<ZERO>>
      OBVIOUS
    <3> QED BY <2>1, <3>1, <3>2, Zenon
  <2> HIDE DEF Prefix
  <2>3. b # 10 /\ b # 16
    BY <1>1
  <2> QED BY <2>1, <2>2, <2>3, Zenon
<1>2. CASE b = 10
  <2>1. Prefix(b) = <<>>
    BY <1>2 DEF Prefix
  <2>2. Prefix(b) \in Seq(Char) /\ Len(Prefix(b)) = 0
    BY <2>1, ShortSeqs, Zenon
  <2>3. b # 8 /\ b # 16
    BY <1>2
  <2> QED BY <2>1, <2>2, <2>3, Zenon
<1>3. CASE b = 16
  <2>1. Prefix(b) = <<ZERO, X>>
    BY <1>3 DEF Prefix
  <2>2. Prefix(b) \in Seq(Char) /\ Len(Prefix(b)) = 2 /\ Prefix(b)[1] = ZERO /\ Prefix(b)[2] = X
    <3>1. /\ <<ZERO, X>> \in Seq(Char) /\ Len(<<ZERO, X>>) = 2
          /\ <<ZERO, X>>[1] = ZERO /\ <<ZERO, X>>[2] = X
      BY PartChars, ShortSeqs, Zenon
    <3>2. PICK t : t = <<ZERO, X>>
      OBVIOUS
    <3> QED BY <2>1, <3>1, <3>2, Zenon
  <2>3. b # 8 /\ b # 10
    BY <1>3
  <2> QED BY <2>2, <2>3, Zenon
<1> QED BY <1>1, <1>2, <1>3 DEF Bases

\* and what follows the digits.
LEMMA RestPart ==
    ASSUME NEW rest \in Rests
    PROVE  /\ rest \in Seq(Char)
           /\ (rest = <<>> /\ Len(rest) = 0)
              \/ (Len(rest) \in Nat /\ Len(rest) > 0 /\ rest[1] \in {SPACE, 122})
<1>1. CASE rest = <<>>
  BY <1>1, ShortSeqs, Zenon
<1>2. CASE rest = <<SPACE, ZERO>>
  <2>1. rest \in Seq(Char) /\ Len(rest) = 2 /\ rest[1] = SPACE
    BY <1>2, PartChars, ShortSeqs, Zenon
  <2> QED BY <2>1
<1>3. CASE rest = <<122>>
  <2>1. rest \in Seq(Char) /\ Len(rest) = 1 /\ rest[1] = 122
    BY <1>3, PartChars, ShortSeqs
  <2> QED BY <2>1
<1> QED BY <1>1, <1>2, <1>3, Zenon DEF Rests

\* The character after the digits does not go on with them.
LEMMA AfterDigits ==
    ASSUME NEW s \in Seq(Char), NEW e \in Nat, e >= 1, NEW rest \in Rests, Stands(s, e, rest),
            Len(s) + 1 = e + Len(rest)
    PROVE  (\A base \in Bases : NoDigit(s, e, base)) /\ tolower(At(s, e)) # X
<1>1. At(s, e) \in {NUL, SPACE, 122}
  <2>1. CASE rest = <<>> /\ Len(rest) = 0
    <3>1. PICK len \in Nat : len = Len(s)
      OBVIOUS
    <3>2. e > len
      BY <2>1, <3>1
    <3> QED BY <3>1, <3>2 DEF At
  <2>2. CASE Len(rest) \in Nat /\ Len(rest) > 0 /\ rest[1] \in {SPACE, 122}
    <3>1. 1 \in 1..Len(rest) /\ e + 1 - 1 = e
      BY <2>2
    <3>2. rest \in Seq(Char)
      BY RestPart
    <3>3. At(s, e + 1 - 1) = rest[1]
      BY <3>1, <3>2, StandsAt, Zenon
    <3> QED BY <2>2, <3>1, <3>3
  <2> QED BY <2>1, <2>2, RestPart
<1>2. ASSUME NEW c \in {NUL, SPACE, 122}
      PROVE  DigitOf(c) \in Nat /\ DigitOf(c) >= 35 /\ tolower(c) # X
  <2>1. CASE c \in {NUL, SPACE}
    <3>1. ~isdigit(c) /\ ~isalpha(c) /\ ~isupper(c)
      BY <2>1 DEF NUL, SPACE, isdigit, isalpha, islower, isupper
    <3>2. DigitOf(c) = 36 /\ tolower(c) = c
      BY <3>1, Zenon DEF DigitOf, tolower
    <3> QED BY <2>1, <3>2 DEF NUL, SPACE, X
  <2>2. CASE c = 122
    <3>1. ~isdigit(c) /\ isalpha(c) /\ ~isupper(c)
      BY <2>2 DEF isdigit, isalpha, islower, isupper
    <3>2. DigitOf(c) = tolower(c) - (97 - 10) /\ tolower(c) = c
      BY <3>1, Zenon DEF DigitOf, tolower
    <3> QED BY <2>2, <3>2 DEF X
  <2> QED BY <2>1, <2>2
<1>3. \A base \in Bases : base \in Nat /\ base <= 16
  BY DEF Bases
<1>4. PICK c \in {NUL, SPACE, 122} : c = At(s, e)
  BY <1>1
<1>5. PICK d \in Nat : d = DigitOf(c) /\ d >= 35
  BY <1>2
<1>6. ASSUME NEW base \in Bases PROVE NoDigit(s, e, base)
  <2>1. d >= base
    BY <1>3, <1>5
  <2> QED BY <1>4, <1>5, <2>1 DEF NoDigit
<1> QED BY <1>2, <1>4, <1>6

\* A character of a part of a numeral.
LEMMA PartAt ==
    ASSUME NEW s \in Seq(Char), NEW k \in Nat, k >= 1, NEW t \in Seq(Char), Stands(s, k, t)
    PROVE  /\ Len(t) \in Nat /\ k + Len(t) \in Nat /\ k + Len(t) >= 1
           /\ Len(t) > 0 => At(s, k) = t[1] /\ k \in 1..Len(s)
           /\ Len(t) = 2 => At(s, k + 1) = t[2]
<1>1. PICK l \in Nat : l = Len(t)
  OBVIOUS
<1>2. ASSUME l > 0 PROVE At(s, k) = t[1] /\ k \in 1..Len(s)
  <2>1. 1 \in 1..Len(t) /\ k + 1 - 1 = k
    BY <1>1, <1>2
  <2>2. At(s, k + 1 - 1) = t[1] /\ k + 1 - 1 \in 1..Len(s)
    BY <2>1, StandsAt, Zenon
  <2> QED BY <2>1, <2>2
<1>3. ASSUME l = 2 PROVE At(s, k + 1) = t[2]
  <2>1. 2 \in 1..Len(t) /\ k + 2 - 1 = k + 1
    BY <1>1, <1>3
  <2>2. At(s, k + 2 - 1) = t[2]
    BY <2>1, StandsAt, Zenon
  <2> QED BY <2>1, <2>2
<1> QED BY <1>1, <1>2, <1>3

\* A digit is no blank, no sign and no x.
LEMMA WrittenDigit ==
    ASSUME NEW b \in Bases, NEW v \in Nat, NEW t, Written(t, v, b), NEW i \in 1..Len(t)
    PROVE  /\ t[i] \in Char /\ ~isspace(t[i]) /\ t[i] \notin {PLUS, MINUS}
           /\ tolower(t[i]) # X
<1>1. PICK d \in 0..(b - 1) : t[i] = DigitChar(d)
  BY DEF Written
<1>2. d \in 0..15
  BY DEF Bases
<1> QED BY <1>1, <1>2, DigitCharRead

\* A zero and t stand where they stand one after the other.
LEMMA StandsZero ==
    ASSUME NEW s \in Seq(Char), NEW k \in Nat, k >= 1, NEW t \in Seq(Char),
           k \in 1..Len(s), At(s, k) = ZERO, Stands(s, k + 1, t)
    PROVE  Stands(s, k, <<ZERO>> \o t) /\ Len(<<ZERO>> \o t) = Len(t) + 1
<1>1. PICK l \in Nat : l = Len(t)
  OBVIOUS
<1>2. PICK len \in Nat : len = Len(s) /\ k <= len
  OBVIOUS
<1>3. PICK z \in Seq(Char) : z = <<ZERO>> /\ Len(z) = 1 /\ z[1] = ZERO
  BY PartChars, ShortSeqs
<1>4. PICK w \in Seq(Char) : w = z \o t /\ Len(w) = l + 1
  <2>1. z \o t \in Seq(Char) /\ Len(z \o t) = l + 1
    BY <1>1, <1>3
  <2> QED BY <2>1
<1>5. k + 1 + l <= len + 1 /\ \A i \in 1..l : s[k + 1 + i - 1] = t[i]
  BY <1>1, <1>2 DEF Stands
<1>6. ASSUME NEW i \in 1..(l + 1) PROVE s[k + i - 1] = w[i]
  <2>1. CASE i = 1
    <3>1. w[1] = ZERO
      BY <1>1, <1>3, <1>4
    <3>2. s[k] = ZERO /\ k + i - 1 = k
      BY <1>2, <2>1 DEF At
    <3> QED BY <2>1, <3>1, <3>2
  <2>2. CASE i > 1
    <3>1. PICK j \in 1..l : j = i - 1 /\ k + 1 + j - 1 = k + i - 1
      BY <1>1, <2>2
    <3>2. w[i] = t[j]
      BY <1>1, <1>3, <1>4, <2>2, <3>1
    <3> QED BY <1>5, <3>1, <3>2
  <2> QED BY <1>1, <2>1, <2>2
<1>7. k + Len(w) <= Len(s) + 1
  BY <1>1, <1>2, <1>4, <1>5
<1>8. Stands(s, k, w)
  BY <1>4, <1>6, <1>7 DEF Stands
<1> QED BY <1>1, <1>3, <1>4, <1>8

\* After the sign the number is read, in its base or with the base found out.
LEMMA UnsignedValue ==
    ASSUME NEW s \in Seq(Char), NEW k \in Nat, k >= 1, NEW b \in Bases, NEW v \in Nat,
           NEW t, Written(t, v, b), NEW e \in Nat, e = k + Len(Prefix(b)) + Len(t),
           Stands(s, k, Prefix(b)), Stands(s, k + Len(Prefix(b)), t),
           \A base \in Bases : NoDigit(s, e, base), tolower(At(s, e)) # X
    PROVE  /\ Value(Unsigned(s, k, b), v, e)
           /\ Value(Unsigned(s, k, DetectBase(s, k)), v, e)
<1>1. t \in Seq(Char) /\ Len(t) > 0 /\ Len(t) \in Nat /\ Reads(t, v, b) /\ Reads(<<ZERO>> \o t, v, b)
  BY DEF Written
<1>2. Prefix(b) \in Seq(Char)
  BY PrefixPart, Zenon
<1>3. PICK j \in Nat : j = k + Len(Prefix(b)) /\ j >= 1
  BY <1>2, PartAt
<1>4. At(s, j) = t[1] /\ j \in 1..Len(s) /\ Stands(s, j, t) /\ e = j + Len(t)
  BY <1>1, <1>3, PartAt
<1>5. tolower(t[1]) # X
  <2>1. 1 \in 1..Len(t)
    BY <1>1
  <2> QED BY <2>1, WrittenDigit
<1>6. CASE b = 8
  <2>1. Len(Prefix(b)) = 1 /\ Prefix(b)[1] = ZERO
    BY <1>6, PrefixPart, Zenon
  <2>2. At(s, k) = ZERO /\ k \in 1..Len(s) /\ j = k + 1
    <3>1. PICK p \in Seq(Char) : p = Prefix(b) /\ Len(p) = 1 /\ p[1] = ZERO /\ Stands(s, k, p)
      BY <1>2, <2>1
    <3>2. Len(p) > 0 => At(s, k) = p[1] /\ k \in 1..Len(s)
      BY <3>1, PartAt, Zenon
    <3> QED BY <1>3, <3>1, <3>2
  <2>3. ~Hex(s, k)
    BY <1>4, <1>5, <2>2 DEF Hex
  <2>4. DetectBase(s, k) = 8
    BY <2>2, <2>3 DEF DetectBase
  <2>5. Unsigned(s, k, 8) = Digits(s, k, 8)
    BY DEF Unsigned
  <2>6. PICK w : w = <<ZERO>> \o t /\ Stands(s, k, w) /\ Len(w) = Len(t) + 1
    BY <1>1, <1>4, <2>2, StandsZero
  <2>7. k + Len(w) = e /\ Len(w) > 0
    BY <1>1, <1>4, <2>2, <2>6
  <2>8. Value(Digits(s, k, 8), v, e)
    BY <1>1, <1>6, <2>6, <2>7, DigitsValue
  <2> QED BY <1>6, <2>4, <2>5, <2>8
<1>7. CASE b = 10
  <2>1. Len(Prefix(b)) = 0
    BY <1>7, PrefixPart, Zenon
  <2>2. j = k
    BY <1>3, <2>1
  <2>3. Unsigned(s, k, 10) = Digits(s, k, 10) /\ Unsigned(s, k, 8) = Digits(s, k, 8)
    BY DEF Unsigned
  <2>4. Value(Digits(s, k, 10), v, e)
    BY <1>1, <1>4, <1>7, <2>2, DigitsValue
  <2>5. CASE t[1] = ZERO
    <3>1. v = 0 /\ Len(t) = 1
      BY <2>5 DEF Written
    <3>2. ~Hex(s, k) /\ At(s, k) = ZERO
      BY <1>4, <2>2, <2>5, <3>1 DEF Hex
    <3>3. DetectBase(s, k) = 8
      BY <3>2 DEF DetectBase
    <3>4. Reads(<<ZERO>>, 0, 8)
      BY ReadsZero DEF Bases
    <3>5. t = <<ZERO>>
      <4>1. PICK z \in Seq(Char) : z = <<ZERO>> /\ Len(z) = 1 /\ z[1] = ZERO
        BY PartChars, ShortSeqs
      <4>2. \A i \in 1..Len(t) : t[i] = z[i]
        BY <2>5, <3>1, <4>1
      <4>3. Len(t) = Len(z)
        BY <3>1, <4>1
      <4>4. t = z
        BY <1>1, <4>2, <4>3, SameSeq
      <4> QED BY <4>1, <4>4, Zenon
    <3>6. 8 \in Bases /\ Reads(t, v, 8)
      <4>1. Reads(t, v, 8)
        BY <3>1, <3>4, <3>5, Zenon
      <4> QED BY <4>1 DEF Bases
    <3>7. Value(Digits(s, k, 8), v, e)
      BY <1>1, <1>4, <2>2, <3>6, DigitsValue
    <3> QED BY <1>7, <2>3, <2>4, <3>3, <3>7
  <2>6. CASE t[1] # ZERO
    <3>1. DetectBase(s, k) = 10
      BY <1>4, <2>2, <2>6 DEF DetectBase, Hex
    <3> QED BY <1>7, <2>3, <2>4, <3>1
  <2> QED BY <2>5, <2>6
<1>8. CASE b = 16
  <2>1. Len(Prefix(b)) = 2 /\ Prefix(b)[1] = ZERO /\ Prefix(b)[2] = X
    BY <1>8, PrefixPart, Zenon
  <2>2. At(s, k) = ZERO /\ At(s, k + 1) = X /\ j = k + 2
    <3>1. PICK p \in Seq(Char) : /\ p = Prefix(b) /\ Len(p) = 2 /\ Stands(s, k, p)
                                 /\ p[1] = ZERO /\ p[2] = X
      BY <1>2, <2>1
    <3>2. /\ Len(p) > 0 => At(s, k) = p[1] /\ k \in 1..Len(s)
          /\ Len(p) = 2 => At(s, k + 1) = p[2]
      BY <3>1, PartAt, Zenon
    <3>3. At(s, k) = ZERO
      BY <3>1, <3>2
    <3>4. At(s, k + 1) = X
      BY <3>1, <3>2, Zenon
    <3>5. j = k + 2
      BY <1>3, <3>1
    <3> QED BY <3>3, <3>4, <3>5, Zenon
  <2>3. Hex(s, k)
    <3>1. tolower(X) = X
      BY DEF tolower, isupper, X
    <3> QED BY <2>2, <3>1, Zenon DEF Hex
  <2>4. DetectBase(s, k) = 16
    BY <2>3 DEF DetectBase
  <2>5. Unsigned(s, k, 16) = Digits(s, j, 16)
    BY <2>2, <2>3 DEF Unsigned
  <2>6. Value(Digits(s, j, 16), v, e)
    BY <1>1, <1>4, <1>8, DigitsValue
  <2> QED BY <1>8, <2>4, <2>5, <2>6
<1> QED BY <1>6, <1>7, <1>8 DEF Bases

\* What __strtoul() returns: a value with its sign.
WithSign(r, neg) ==
    [val |-> r.val, ovf |-> r.ovf, parsed |-> r.parsed, end |-> r.end, neg |-> neg]

StrtoulReads(s, base, v, e, neg) ==
    \E r : Value(r, v, e) /\ __strtoul(s, base) = WithSign(r, neg)

\* strtol() and strtoul() find the sign and the digits,
LEMMA StrtoulRead ==
    ASSUME NEW sign \in Signs, NEW b \in Bases, NEW rest \in Rests, NEW v \in Nat, NEW t,
           Written(t, v, b), NEW s, Numeral(s, sign, b, t, rest), NEW base \in BasesFor(b)
    PROVE  StrtoulReads(s, base, v, Len(s) - Len(rest) + 1, sign = <<MINUS>>)
<1>1. s \in Seq(Char) /\ t \in Seq(Char) /\ Len(t) > 0 /\ Len(t) \in Nat
  BY DEF Numeral, Written
<1>2. sign \in Seq(Char) /\ Prefix(b) \in Seq(Char) /\ rest \in Seq(Char)
  BY SignPart, PrefixPart, RestPart, Zenon
<1>3. PICK ls \in {0, 1}, lp \in {0, 1, 2}, lt \in Nat, lr \in Nat :
          ls = Len(sign) /\ lp = Len(Prefix(b)) /\ lt = Len(t) /\ lr = Len(rest) /\ lt > 0
  <2>1. Len(sign) \in {0, 1}
    BY SignPart
  <2>2. Len(Prefix(b)) \in {0, 1, 2}
    BY PrefixPart DEF Bases
  <2>3. Len(rest) \in Nat
    BY RestPart
  <2> QED BY <1>1, <2>1, <2>2, <2>3
<1>4. PICK k \in Nat, j \in Nat, e \in Nat :
          k = 3 + ls /\ j = k + lp /\ e = j + lt /\ k >= 1 /\ j >= 1 /\ e >= 1
  OBVIOUS
<1>5. /\ Stands(s, 1, <<SPACE, TAB>>) /\ Stands(s, 3, sign) /\ Stands(s, k, Prefix(b))
      /\ Stands(s, j, t) /\ Stands(s, e, rest) /\ Len(s) + 1 = e + lr
  BY <1>3, <1>4 DEF Numeral
<1>6. PICK len \in Nat : len = Len(s) /\ e = len - lr + 1 /\ len >= 3
  <2>1. PICK len \in Nat : len = Len(s)
    BY <1>1
  <2>2. len + 1 = e + lr
    BY <1>5, <2>1
  <2> QED BY <1>3, <1>4, <2>1, <2>2
<1>7. (\A o \in Bases : NoDigit(s, e, o)) /\ tolower(At(s, e)) # X
  BY <1>1, <1>3, <1>4, <1>5, AfterDigits
<1>8. Value(Unsigned(s, k, b), v, e) /\ Value(Unsigned(s, k, DetectBase(s, k)), v, e)
  BY <1>1, <1>3, <1>4, <1>5, <1>7, UnsignedValue
<1>9. At(s, 1) = SPACE /\ At(s, 2) = TAB
  <2>1. PICK p \in Seq(Char) : /\ p = <<SPACE, TAB>> /\ Stands(s, 1, p)
                               /\ Len(p) = 2 /\ p[1] = SPACE /\ p[2] = TAB
    <3>1. /\ <<SPACE, TAB>> \in Seq(Char) /\ Len(<<SPACE, TAB>>) = 2
          /\ <<SPACE, TAB>>[1] = SPACE /\ <<SPACE, TAB>>[2] = TAB
      BY PartChars, ShortSeqs, Zenon
    <3>2. PICK y : y = <<SPACE, TAB>>
      OBVIOUS
    <3>3. y \in Seq(Char) /\ Stands(s, 1, y) /\ Len(y) = 2 /\ y[1] = SPACE /\ y[2] = TAB
      BY <1>5, <3>1, <3>2, Zenon
    <3> QED BY <3>2, <3>3, Zenon
  <2>2. 1 \in 1..Len(p) /\ 2 \in 1..Len(p) /\ 1 \in Nat /\ 1 >= 1 /\ 1 + 1 - 1 = 1 /\ 1 + 2 - 1 = 2
    <3>1. PICK l \in Nat : l = Len(p) /\ l = 2
      BY <2>1
    <3> QED BY <3>1
  <2>3. At(s, 1 + 1 - 1) = p[1] /\ At(s, 1 + 2 - 1) = p[2]
    <3>1. PICK o \in Nat : o = 1 /\ o >= 1 /\ Stands(s, o, p)
      BY <2>1
    <3>2. \A i \in 1..Len(p) : At(s, o + i - 1) = p[i] /\ o + i - 1 \in 1..Len(s)
      <4>1. s \in Seq(Char) /\ o >= 1 /\ Stands(s, o, p)
        BY <1>1, <3>1, Zenon
      <4> QED BY <4>1, StandsAt
    <3> QED BY <2>2, <3>1, <3>2, Zenon
  <2> QED BY <2>1, <2>2, <2>3
<1>18. \/ ls = 0 /\ sign # <<MINUS>>
       \/ ls = 1 /\ sign[1] = PLUS /\ sign # <<MINUS>>
       \/ ls = 1 /\ sign[1] = MINUS /\ sign = <<MINUS>>
  BY <1>3, SignPart, Zenon
<1>19. \A i \in Nat, y \in Seq(Char) : i >= 1 /\ Stands(s, i, y) /\ Len(y) > 0 => At(s, i) = y[1]
  BY <1>1, PartAt, Zenon
<1>10. PICK c \in Char : /\ c = At(s, 3) /\ ~isspace(c)
                         /\ c \in {PLUS, MINUS} <=> ls = 1
                         /\ c = MINUS <=> sign = <<MINUS>>
  <2>1. /\ PLUS \in Char /\ MINUS \in Char /\ ZERO \in Char
        /\ ~isspace(PLUS) /\ ~isspace(MINUS) /\ ~isspace(ZERO)
        /\ PLUS # MINUS /\ ZERO \notin {PLUS, MINUS}
    BY DEF PLUS, MINUS, ZERO, Char, isspace
  <2>2. CASE ls = 0
    <3>1. k = 3 /\ sign # <<MINUS>>
      BY <1>4, <1>18, <2>2
    <3>2. CASE lp = 0
      <4>1. 1 \in 1..Len(t) /\ Stands(s, 3, t) /\ 3 \in Nat /\ 3 >= 1
        <5>1. j = 3
          BY <1>4, <3>1, <3>2
        <5>2. 1 \in 1..lt
          BY <1>3
        <5> QED BY <1>3, <1>5, <5>1, <5>2
      <4>2. At(s, 3) = t[1]
        BY <1>1, <1>19, <4>1
      <4>3. t[1] \in Char /\ ~isspace(t[1]) /\ t[1] \notin {PLUS, MINUS}
        BY <4>1, WrittenDigit, Zenon
      <4> QED BY <2>2, <3>1, <4>2, <4>3
    <3>3. CASE lp > 0
      <4>1. PICK y \in Seq(Char) : y = Prefix(b) /\ Stands(s, 3, y) /\ Len(y) = lp
        BY <1>2, <1>3, <1>5, <3>1
      <4>2. y[1] = ZERO
        <5>1. b # 10
          BY <1>3, <3>3, PrefixPart
        <5>2. b = 8 \/ b = 16
          BY <5>1 DEF Bases
        <5> QED BY <4>1, <5>2, PrefixPart, Zenon
      <4>3. Len(y) > 0 /\ 3 \in Nat /\ 3 >= 1
        BY <3>3, <4>1
      <4>4. At(s, 3) = y[1]
        BY <1>19, <4>1, <4>3
      <4> QED BY <2>1, <2>2, <3>1, <4>2, <4>4
    <3> QED BY <3>2, <3>3
  <2>3. CASE ls = 1
    <3>1. Len(sign) > 0 /\ 3 \in Nat /\ 3 >= 1
      BY <1>3, <2>3
    <3>2. At(s, 3) = sign[1]
      BY <1>2, <1>5, <1>19, <3>1
    <3>3. CASE sign[1] = PLUS /\ sign # <<MINUS>>
      BY <2>1, <2>3, <3>2, <3>3
    <3>4. CASE sign[1] = MINUS /\ sign = <<MINUS>>
      BY <2>1, <2>3, <3>2, <3>4
    <3> QED BY <1>18, <2>3, <3>3, <3>4
  <2> QED BY <2>2, <2>3
<1>11. First(s, 1, LAMBDA x : ~isspace(x)) = 3
  <2> DEFINE K == {i \in 1..(len + 1) : ~isspace(At(s, i))}
  <2>1. First(s, 1, LAMBDA x : ~isspace(x)) = Min(K)
    BY <1>6, Zenon DEF First
  <2>2. 3 \in K
    BY <1>6, <1>10
  <2>3. isspace(SPACE) /\ isspace(TAB)
    BY DEF isspace, SPACE, TAB
  <2>4. \A i \in K : i >= 3
    <3>1. 1 \notin K /\ 2 \notin K
      BY <1>9, <2>3
    <3>2. \A i \in K : i \in Nat /\ i >= 1 /\ i # 1 /\ i # 2
      BY <3>1
    <3> HIDE DEF K
    <3> QED BY <3>2
  <2>5. K \in SUBSET Nat
    OBVIOUS
  <2> HIDE DEF K
  <2>6. PICK m \in Nat : m = Min(K) /\ m \in K /\ m <= 3
    BY <2>2, <2>5, MinOfSet
  <2> QED BY <2>1, <2>4, <2>6
<1>12. (IF At(s, 3) \in {MINUS, PLUS} THEN 3 + 1 ELSE 3) = k
  BY <1>4, <1>10
<1>13. (At(s, 3) = MINUS) = (sign = <<MINUS>>)
  BY <1>10
<1>14. PICK r : /\ Value(r, v, e)
                /\ r = Unsigned(s, k, IF base = 0 THEN DetectBase(s, k) ELSE base)
  <2>1. CASE base = 0
    BY <1>8, <2>1
  <2>2. CASE base # 0
    <3>1. base = b
      BY <2>2 DEF BasesFor
    <3> QED BY <1>8, <2>2, <3>1
  <2> QED BY <2>1, <2>2
<1>15. __strtoul(s, base) = Signed(s, 3, base)
  BY <1>11, Zenon DEF __strtoul
<1>16. Signed(s, 3, base) = [val |-> r.val, ovf |-> r.ovf, parsed |-> r.parsed, end |-> r.end,
                             neg |-> sign = <<MINUS>>]
  BY <1>12, <1>13, <1>14, Zenon DEF Signed
<1>17. Value(r, v, Len(s) - Len(rest) + 1)
  <2>1. e = Len(s) - Len(rest) + 1
    BY <1>3, <1>6
  <2> QED BY <1>14, <2>1
<1> QED BY <1>15, <1>16, <1>17, Zenon DEF StrtoulReads, WithSign

\* The larger and the smaller of two.
LEMMA MaxMinPair ==
    ASSUME NEW a \in Int, NEW b \in Int
    PROVE  /\ Max({a, b}) = IF a >= b THEN a ELSE b
           /\ Min({a, b}) = IF a <= b THEN a ELSE b
<1>1. \E x \in {a, b} : \A y \in {a, b} : x >= y
  BY DEF Max
<1>2. Max({a, b}) \in {a, b} /\ \A y \in {a, b} : Max({a, b}) >= y
  BY <1>1, Zenon DEF Max
<1>3. \E x \in {a, b} : \A y \in {a, b} : x <= y
  OBVIOUS
<1>4. Min({a, b}) \in {a, b} /\ \A y \in {a, b} : Min({a, b}) <= y
  BY <1>3, Zenon DEF Min
<1>5. PICK p \in Int, q \in Int : p = Max({a, b}) /\ q = Min({a, b})
  BY <1>2, <1>4
<1> QED BY <1>2, <1>4, <1>5

\* The nearest number that a long holds.
LEMMA Clamped ==
    ASSUME NEW x \in Int
    PROVE  /\ x > LONG_MAX => Max({LONG_MIN, Min({LONG_MAX, x})}) = LONG_MAX
           /\ x < LONG_MIN => Max({LONG_MIN, Min({LONG_MAX, x})}) = LONG_MIN
           /\ x \in LONG_MIN..LONG_MAX => Max({LONG_MIN, Min({LONG_MAX, x})}) = x
<1>1. PICK L \in Nat, M \in Int : L = LONG_MAX /\ M = LONG_MIN /\ M = -L - 1
  <2>1. LONG_MAX \in Nat /\ LONG_MIN = -LONG_MAX - 1
    BY LibraryAssumption DEF LONG_MIN
  <2> QED BY <2>1
<1>2. PICK m \in Int : m = Min({L, x}) /\ m = IF L <= x THEN L ELSE x
  <2>1. Min({L, x}) = IF L <= x THEN L ELSE x
    BY MaxMinPair
  <2> QED BY <2>1
<1>3. Max({M, m}) = IF M >= m THEN M ELSE m
  BY MaxMinPair
<1> QED BY <1>1, <1>2, <1>3

\* A number with its sign.
SignedNumber(v, neg) == IF neg THEN -v ELSE v

\* For a number v, x with its sign: the nearest number that a long holds, and
\* what an unsigned long holds of it.
LongResult(v, x, e) ==
    [val |-> Max({LONG_MIN, Min({LONG_MAX, x})}),
     errno |-> IF x \in LONG_MIN..LONG_MAX THEN "none" ELSE "ERANGE", end |-> e]

UnsignedResult(v, x, e) ==
    [val |-> IF v <= ULONG_MAX THEN Wrapped(x) ELSE ULONG_MAX,
     errno |-> IF v <= ULONG_MAX THEN "none" ELSE "ERANGE", end |-> e]

\* strtol() and strtoul() make them of the value that was read.
LEMMA ResultsExact ==
    ASSUME NEW r, NEW v \in Nat, NEW e \in Nat, Value(r, v, e), NEW neg \in BOOLEAN
    PROVE  /\ LongOf(WithSign(r, neg)) = LongResult(v, SignedNumber(v, neg), e)
           /\ UnsignedLongOf(WithSign(r, neg)) = UnsignedResult(v, SignedNumber(v, neg), e)
<1>0. PICK x \in Int : x = SignedNumber(v, neg) /\ x = IF neg THEN -v ELSE v
  BY DEF SignedNumber
<1>11. PICK y : y = WithSign(r, neg)
  OBVIOUS
<1>1. PICK w \in Nat, o \in BOOLEAN :
          /\ r = [val |-> w, ovf |-> o, parsed |-> TRUE, end |-> e]
          /\ o <=> v > ULONG_MAX
          /\ v <= ULONG_MAX => w = v
  BY Zenon DEF Value
<1>2. y.val = w /\ y.ovf = o /\ y.parsed = TRUE /\ y.end = e /\ y.neg = neg
  BY <1>1, <1>11 DEF WithSign
<1>3. PICK L \in Nat, U \in Nat, M \in Int :
          L = LONG_MAX /\ U = ULONG_MAX /\ M = LONG_MIN /\ U = 2 * L + 1 /\ M = -L - 1
  <2>1. LONG_MAX \in Nat /\ ULONG_MAX = 2 * LONG_MAX + 1 /\ LONG_MIN = -LONG_MAX - 1
    BY LibraryAssumption DEF ULONG_MAX, LONG_MIN
  <2> QED BY <2>1
<1>4. PICK c : c = Max({LONG_MIN, Min({LONG_MAX, x})})
  OBVIOUS
<1>5. (x > L => c = L) /\ (x < M => c = M) /\ (x \in M..L => c = x)
  BY <1>3, <1>4, Clamped
<1>9. (v <= U => w = v) /\ (o <=> v > U)
  BY <1>1, <1>3
<1>10. U = 2 * L + 1 /\ M = -L - 1 /\ (neg => x = -v) /\ (~neg => x = v)
  BY <1>0, <1>3
<1>7. LongOf(y) = [val |-> c, errno |-> IF x \in M..L THEN "none" ELSE "ERANGE", end |-> e]
  <2>1. CASE neg
    <3>1. LongOf(y) = IF o \/ w > L + 1 THEN Result(M, "ERANGE", e) ELSE Result(-w, "none", e)
      BY <1>2, <1>3, <2>1 DEF LongOf
    <3>2. CASE o \/ w > L + 1
      <4>1. v > L + 1
        BY <1>9, <1>10, <3>2
      <4>2. x \notin M..L /\ c = M
        BY <1>5, <1>10, <2>1, <4>1
      <4> QED BY <3>1, <3>2, <4>2 DEF Result
    <3>3. CASE ~(o \/ w > L + 1)
      <4>1. w = v /\ v <= L + 1
        BY <1>9, <1>10, <3>3
      <4>2. x \in M..L /\ c = -w
        BY <1>5, <1>10, <2>1, <4>1
      <4> QED BY <3>1, <3>3, <4>2 DEF Result
    <3> QED BY <3>2, <3>3
  <2>2. CASE ~neg
    <3>1. LongOf(y) = IF o \/ w > L THEN Result(L, "ERANGE", e) ELSE Result(w, "none", e)
      BY <1>2, <1>3, <2>2 DEF LongOf
    <3>2. CASE o \/ w > L
      <4>1. v > L
        BY <1>9, <1>10, <3>2
      <4>2. x \notin M..L /\ c = L
        BY <1>5, <1>10, <2>2, <4>1
      <4> QED BY <3>1, <3>2, <4>2 DEF Result
    <3>3. CASE ~(o \/ w > L)
      <4>1. w = v /\ v <= L
        BY <1>9, <1>10, <3>3
      <4>2. x \in M..L /\ c = w
        BY <1>5, <1>10, <2>2, <4>1
      <4> QED BY <3>1, <3>3, <4>2 DEF Result
    <3> QED BY <3>2, <3>3
  <2> QED BY <2>1, <2>2
<1>8. UnsignedLongOf(y) = [val |-> IF v <= U THEN Wrapped(x) ELSE U,
                           errno |-> IF v <= U THEN "none" ELSE "ERANGE", end |-> e]
  <2>1. UnsignedLongOf(y) = IF o THEN Result(U, "ERANGE", e)
                            ELSE Result(IF neg THEN Wrapped(-w) ELSE w, "none", e)
    BY <1>2, <1>3 DEF UnsignedLongOf
  <2>2. CASE o
    <3>1. ~(v <= U)
      BY <1>1, <1>3, <2>2
    <3> QED BY <2>1, <2>2, <3>1 DEF Result
  <2>3. CASE ~o
    <3>1. v <= U /\ v <= ULONG_MAX /\ w = v
      BY <1>1, <1>3, <2>3
    <3>2. (IF neg THEN Wrapped(-w) ELSE w) = Wrapped(x)
      <4>1. Wrapped(v) = v
        BY <3>1, WrappedSmall
      <4> QED BY <1>0, <3>1, <4>1
    <3> QED BY <2>1, <2>3, <3>1, <3>2 DEF Result
  <2> QED BY <2>2, <2>3
<1> QED BY <1>0, <1>3, <1>4, <1>7, <1>8, <1>11 DEF LongResult, UnsignedResult

\* A string that another follows stands where it stood.
LEMMA Joined ==
    ASSUME NEW s \in Seq(Char), NEW t \in Seq(Char)
    PROVE  /\ s \o t \in Seq(Char) /\ Len(s) \in Nat /\ Len(t) \in Nat
           /\ Len(s \o t) = Len(s) + Len(t)
           /\ Stands(s \o t, Len(s) + 1, t)
           /\ \A k \in Nat, u \in Seq(Char) :
                  k >= 1 /\ Stands(s, k, u) => Stands(s \o t, k, u)
<1>1. PICK l \in Nat, m \in Nat : l = Len(s) /\ m = Len(t)
  OBVIOUS
<1>2. PICK w \in Seq(Char) : w = s \o t /\ Len(w) = l + m
  <2>1. s \o t \in Seq(Char) /\ Len(s \o t) = l + m
    BY <1>1
  <2> QED BY <2>1
<1>3. ASSUME NEW i \in 1..l PROVE w[i] = s[i]
  BY <1>1, <1>2
<1>4. ASSUME NEW i \in 1..m PROVE w[l + 1 + i - 1] = t[i]
  BY <1>1, <1>2
<1>5. Stands(w, l + 1, t)
  BY <1>1, <1>2, <1>4 DEF Stands
<1>6. ASSUME NEW k \in Nat, NEW u \in Seq(Char), k >= 1, Stands(s, k, u)
      PROVE  Stands(w, k, u)
  <2>1. PICK j \in Nat : j = Len(u) /\ k + j <= l + 1
    BY <1>1, <1>6 DEF Stands
  <2>2. ASSUME NEW i \in 1..j PROVE w[k + i - 1] = u[i]
    <3>1. k + i - 1 \in 1..l
      BY <1>6, <2>1
    <3>2. s[k + i - 1] = u[i]
      BY <1>6, <2>1 DEF Stands
    <3> QED BY <1>3, <3>1, <3>2
  <2>3. k + j <= Len(w) + 1
    BY <1>2, <2>1
  <2> QED BY <2>1, <2>2, <2>3 DEF Stands
<1> QED BY <1>1, <1>2, <1>5, <1>6

\* The text of NumbersRead is such a numeral,
NumeralOf(sign, b, t) == <<SPACE, TAB>> \o sign \o Prefix(b) \o t

\* which has its parts one after the other.
LEMMA NumeralText ==
    ASSUME NEW sign \in Signs, NEW b \in Bases, NEW rest \in Rests, NEW t \in Seq(Char)
    PROVE  \E e \in Nat : /\ Numeral(NumeralOf(sign, b, t) \o rest, sign, b, t, rest)
                         /\ Len(NumeralOf(sign, b, t)) + 1 = e
                         /\ Len(NumeralOf(sign, b, t) \o rest) - Len(rest) + 1 = e
<1>0. PICK text : text = NumeralOf(sign, b, t)
  OBVIOUS
<1>1. PICK p \in Seq(Char), q \in Seq(Char), r \in Seq(Char), z \in Seq(Char) :
          p = <<SPACE, TAB>> /\ Len(p) = 2 /\ q = sign /\ r = Prefix(b) /\ z = rest
  <2>1. <<SPACE, TAB>> \in Seq(Char) /\ Len(<<SPACE, TAB>>) = 2
    BY PartChars, ShortSeqs, Zenon
  <2>2. sign \in Seq(Char) /\ Prefix(b) \in Seq(Char) /\ rest \in Seq(Char)
    BY SignPart, PrefixPart, RestPart, Zenon
  <2> QED BY <2>1, <2>2, Zenon
<1>2. PICK lq \in Nat, lr \in Nat, lt \in Nat, lz \in Nat :
          lq = Len(q) /\ lr = Len(r) /\ lt = Len(t) /\ lz = Len(z)
  OBVIOUS
<1>3. Stands(p, 1, p)
  <2>1. \A i \in 1..Len(p) : p[1 + i - 1] = p[i]
    BY <1>1
  <2> QED BY <1>1, <2>1 DEF Stands
<1>4. PICK a \in Seq(Char) : /\ a = p \o q /\ Len(a) = 2 + lq
                             /\ Stands(a, 1, p) /\ Stands(a, 3, q)
  <2>1. PICK o \in Nat : o = 1 /\ o >= 1 /\ Stands(p, o, p)
    BY <1>3
  <2>2. p \o q \in Seq(Char) /\ Len(p \o q) = Len(p) + Len(q)
    BY Joined, Zenon
  <2>3. Stands(p \o q, o, p) /\ Stands(p \o q, Len(p) + 1, q)
    BY <2>1, Joined, Zenon
  <2>4. Len(p) + 1 = 3 /\ Len(p) + Len(q) = 2 + lq
    BY <1>1, <1>2
  <2> QED BY <2>1, <2>2, <2>3, <2>4
<1>5. PICK c \in Seq(Char) : /\ c = a \o r /\ Len(c) = 2 + lq + lr
                             /\ Stands(c, 1, p) /\ Stands(c, 3, q) /\ Stands(c, 3 + lq, r)
  <2>1. PICK o \in Nat, u \in Nat : /\ o = 1 /\ o >= 1 /\ Stands(a, o, p)
                                    /\ u = 3 /\ u >= 1 /\ Stands(a, u, q)
    BY <1>4
  <2>2. a \o r \in Seq(Char) /\ Len(a \o r) = Len(a) + Len(r)
    BY Joined, Zenon
  <2>3. Stands(a \o r, o, p) /\ Stands(a \o r, u, q) /\ Stands(a \o r, Len(a) + 1, r)
    BY <2>1, Joined, Zenon
  <2>4. Len(a) + 1 = 3 + lq /\ Len(a) + Len(r) = 2 + lq + lr
    BY <1>2, <1>4
  <2> QED BY <2>1, <2>2, <2>3, <2>4
<1>6. PICK d \in Seq(Char) : /\ d = c \o t /\ Len(d) = 2 + lq + lr + lt
                             /\ Stands(d, 1, p) /\ Stands(d, 3, q) /\ Stands(d, 3 + lq, r)
                             /\ Stands(d, 3 + lq + lr, t)
  <2>1. PICK o \in Nat, u \in Nat, k \in Nat :
            /\ o = 1 /\ o >= 1 /\ Stands(c, o, p)
            /\ u = 3 /\ u >= 1 /\ Stands(c, u, q)
            /\ k = 3 + lq /\ k >= 1 /\ Stands(c, k, r)
    BY <1>5
  <2>2. c \o t \in Seq(Char) /\ Len(c \o t) = Len(c) + Len(t)
    BY Joined, Zenon
  <2>3. /\ Stands(c \o t, o, p) /\ Stands(c \o t, u, q) /\ Stands(c \o t, k, r)
        /\ Stands(c \o t, Len(c) + 1, t)
    BY <2>1, Joined, Zenon
  <2>4. Len(c) + 1 = 3 + lq + lr /\ Len(c) + Len(t) = 2 + lq + lr + lt
    BY <1>2, <1>5
  <2> QED BY <2>1, <2>2, <2>3, <2>4
<1>7. PICK e \in Seq(Char) : /\ e = d \o z /\ Len(e) = 2 + lq + lr + lt + lz
                             /\ Stands(e, 1, p) /\ Stands(e, 3, q) /\ Stands(e, 3 + lq, r)
                             /\ Stands(e, 3 + lq + lr, t) /\ Stands(e, 3 + lq + lr + lt, z)
  <2>1. PICK o \in Nat, u \in Nat, k \in Nat, j \in Nat :
            /\ o = 1 /\ o >= 1 /\ Stands(d, o, p)
            /\ u = 3 /\ u >= 1 /\ Stands(d, u, q)
            /\ k = 3 + lq /\ k >= 1 /\ Stands(d, k, r)
            /\ j = 3 + lq + lr /\ j >= 1 /\ Stands(d, j, t)
    BY <1>6
  <2>2. d \o z \in Seq(Char) /\ Len(d \o z) = Len(d) + Len(z)
    BY Joined, Zenon
  <2>3. /\ Stands(d \o z, o, p) /\ Stands(d \o z, u, q) /\ Stands(d \o z, k, r)
        /\ Stands(d \o z, j, t) /\ Stands(d \o z, Len(d) + 1, z)
    BY <2>1, Joined, Zenon
  <2>4. Len(d) + 1 = 3 + lq + lr + lt /\ Len(d) + Len(z) = 2 + lq + lr + lt + lz
    BY <1>2, <1>6
  <2> QED BY <2>1, <2>2, <2>3, <2>4
<1>8. text = d /\ text \o rest = e
  BY <1>0, <1>1, <1>4, <1>5, <1>6, <1>7, Zenon DEF NumeralOf
<1>9. Len(e) + 1 = 3 + lq + lr + lt + lz
  BY <1>7
<1>10. Numeral(e, sign, b, t, rest)
  BY <1>1, <1>2, <1>7, <1>9, Zenon DEF Numeral
<1>11. PICK k \in Nat : Len(d) + 1 = k /\ Len(e) - lz + 1 = k
  BY <1>6, <1>7
<1> QED BY <1>0, <1>1, <1>2, <1>8, <1>10, <1>11, Zenon

\* A number is read as what it is,
ReadsAs(s, base, v, x, e) ==
    strtol(s, base) = LongResult(v, x, e) /\ strtoul(s, base) = UnsignedResult(v, x, e)

\* whatever stands around it.
LEMMA NumberRead ==
    ASSUME NEW v \in Nat, NEW b \in Bases, NEW sign \in Signs, NEW rest \in Rests,
           NEW base \in BasesFor(b)
    PROVE  ReadsAs(NumeralOf(sign, b, NumberText(FALSE, v, b, 97)) \o rest, base, v,
                   SignedNumber(v, sign = <<MINUS>>),
                   Len(NumeralOf(sign, b, NumberText(FALSE, v, b, 97))) + 1)
<1>1. PICK t : t = NumberText(FALSE, v, b, 97) /\ Written(t, v, b) /\ t \in Seq(Char)
  <2>1. Written(NumberText(FALSE, v, b, 97), v, b)
    BY NumberTextWritten
  <2> QED BY <2>1 DEF Written
<1>2. PICK text, s, e :
          /\ e \in Nat /\ text = NumeralOf(sign, b, t) /\ s = text \o rest
          /\ Numeral(s, sign, b, t, rest)
          /\ Len(text) + 1 = e /\ Len(s) - Len(rest) + 1 = e
  <2>1. \E e \in Nat : /\ Numeral(NumeralOf(sign, b, t) \o rest, sign, b, t, rest)
                      /\ Len(NumeralOf(sign, b, t)) + 1 = e
                      /\ Len(NumeralOf(sign, b, t) \o rest) - Len(rest) + 1 = e
    BY <1>1, NumeralText, ZenonT(60)
  <2> QED BY <2>1
<1>3. PICK neg \in BOOLEAN : neg = (sign = <<MINUS>>)
  OBVIOUS
<1>4. StrtoulReads(s, base, v, e, neg)
  <2>1. Written(t, v, b) /\ Numeral(s, sign, b, t, rest)
    BY <1>1, <1>2
  <2>2. StrtoulReads(s, base, v, Len(s) - Len(rest) + 1, sign = <<MINUS>>)
    BY <2>1, StrtoulRead, Zenon
  <2> QED BY <1>2, <1>3, <2>2
<1>5. PICK r : Value(r, v, e) /\ __strtoul(s, base) = WithSign(r, neg)
  BY <1>4, Zenon DEF StrtoulReads
<1>6. /\ LongOf(WithSign(r, neg)) = LongResult(v, SignedNumber(v, neg), e)
      /\ UnsignedLongOf(WithSign(r, neg)) = UnsignedResult(v, SignedNumber(v, neg), e)
  BY <1>2, <1>5, ResultsExact, Zenon
<1>7. ReadsAs(s, base, v, SignedNumber(v, neg), e)
  BY <1>5, <1>6, Zenon DEF ReadsAs, strtol, strtoul
<1> QED BY <1>1, <1>2, <1>3, <1>7, Zenon

\* strtol() and strtoul() read the numbers that are written, and what is out of
\* range is the nearest number in range and ERANGE, however wide a long is and
\* however far out of range the number.
THEOREM NumbersReadHolds == ShellSpec => []NumbersRead
<1>1. ASSUME ShellInv PROVE NumbersRead
  <2>1. number \in Nat \cup {NULL}
    BY <1>1 DEF ShellInv, ShellTypes
  <2>2. CASE number = NULL
    BY <2>2, Zenon DEF NumbersRead
  <2>3. CASE number # NULL
    <3>1. number \in Nat
      BY <2>1, <2>3
    <3>2. ASSUME NEW b \in Bases, NEW sign \in Signs, NEW rest \in Rests, NEW base \in BasesFor(b)
          PROVE  ReadsAs(NumeralOf(sign, b, NumberText(FALSE, number, b, 97)) \o rest, base, number,
                         SignedNumber(number, sign = <<MINUS>>),
                         Len(NumeralOf(sign, b, NumberText(FALSE, number, b, 97))) + 1)
      BY <3>1, NumberRead, Zenon
    <3>3. \A b \in Bases, sign \in {<<>>, <<PLUS>>, <<MINUS>>},
             rest \in {<<>>, <<SPACE, ZERO>>, <<122>>} : number # NULL =>
              \A base \in {0, b} :
                  ReadsAs(<<SPACE, TAB>> \o sign \o Prefix(b) \o NumberText(FALSE, number, b, 97)
                              \o rest, base, number, IF sign = <<MINUS>> THEN -number ELSE number,
                          Len(<<SPACE, TAB>> \o sign \o Prefix(b)
                                  \o NumberText(FALSE, number, b, 97)) + 1)
      <4> TAKE b \in Bases, sign \in {<<>>, <<PLUS>>, <<MINUS>>},
               rest \in {<<>>, <<SPACE, ZERO>>, <<122>>}
      <4> HAVE number # NULL
      <4> TAKE base \in {0, b}
      <4>1. sign \in Signs /\ rest \in Rests /\ base \in BasesFor(b)
        BY Zenon DEF Signs, Rests, BasesFor
      <4> QED BY <3>2, <4>1, Zenon DEF NumeralOf, SignedNumber
    <3> QED BY <3>3, Zenon DEF NumbersRead, ReadsAs, LongResult, UnsignedResult
  <2> QED BY <2>2, <2>3
<1> QED BY <1>1, ShellInvariant, PTL

-----------------------------------------------------------------------------
(***************************************************************************)
(* Numbers that are printed.                                               *)
(***************************************************************************)
Text(v, b) == NumberText(FALSE, v, b, 97)

\* A number below the base is one digit, any other its quotient and a digit.
LEMMA TextSteps ==
    ASSUME NEW b \in Bases, NEW v \in Nat
    PROVE  /\ Text(v, b) \in Seq(Char) /\ Len(Text(v, b)) > 0
           /\ NumberText(TRUE, v, b, 97) = <<MINUS>> \o Text(v, b)
           /\ \E q \in Nat, d \in 0..(b - 1) :
                  /\ v \div b = q /\ v % b = d /\ v = q * b + d
                  /\ v < b => q = 0 /\ Text(v, b) = <<DigitChar(d)>>
                  /\ v >= b => q > 0 /\ q < v /\ Text(v, b) = Append(Text(q, b), DigitChar(d))
<1>0. b \in Nat /\ b > 1
  BY DEF Bases
<1>1. PICK T : TextsOf(T, b)
  BY NumberTextDigits
<1>2. \A k \in Nat : T[k] = Text(k, b) /\ T[k] \in Seq(Char) /\ Len(T[k]) > 0
  <2>1. ASSUME NEW k \in Nat PROVE T[k] = Text(k, b) /\ T[k] \in Seq(Char) /\ Len(T[k]) > 0
    <3>1. Written(T[k], k, b)
      BY <1>1, TextsWritten
    <3>2. PICK s \in Seq(Char) : s = T[k] /\ Len(s) > 0
      BY <3>1 DEF Written
    <3>3. <<>> \o s = s
      OBVIOUS
    <3>4. Text(k, b) = <<>> \o T[k]
      BY <1>1, Zenon DEF TextsOf, Text
    <3> QED BY <3>2, <3>3, <3>4
  <2> QED BY <2>1
<1>3. PICK q \in Nat, d \in 0..(b - 1) :
          /\ v \div b = q /\ v % b = d /\ v = q * b + d
          /\ v > 0 => q < v
          /\ v >= b => q > 0
  BY Quotient
<1>4. T[v] = IF v < b THEN <<DigitChar(d)>> ELSE Append(T[q], DigitChar(d))
  BY <1>1, <1>3, Zenon DEF TextsOf
<1>5. v < b => q = 0
  <2>1. CASE b = 8
    BY <1>3, <2>1
  <2>2. CASE b = 10
    BY <1>3, <2>2
  <2>3. CASE b = 16
    BY <1>3, <2>3
  <2> QED BY <2>1, <2>2, <2>3 DEF Bases
<1>6. v >= b => v > 0 /\ ~(v < b)
  BY <1>0
<1>7. NumberText(TRUE, v, b, 97) = <<MINUS>> \o T[v]
  BY <1>1, Zenon DEF TextsOf
<1>8. T[v] = Text(v, b) /\ T[q] = Text(q, b) /\ Text(v, b) \in Seq(Char) /\ Len(Text(v, b)) > 0
  BY <1>2
<1>9. v >= b => q > 0 /\ q < v /\ Text(v, b) = Append(Text(q, b), DigitChar(d))
  BY <1>3, <1>4, <1>6, <1>8
<1>10. v < b => q = 0 /\ Text(v, b) = <<DigitChar(d)>>
  BY <1>4, <1>5, <1>8
<1> QED BY <1>3, <1>7, <1>8, <1>9, <1>10

\* The digits of the numbers below m are at most l.
Fits(b, m, l) == \A v \in Nat : v < m => Len(Text(v, b)) <= l

\* A digit has room for the numbers below the base.
LEMMA FitsOne ==
    ASSUME NEW b \in Bases
    PROVE  Fits(b, b, 1)
<1>1. ASSUME NEW v \in Nat, v < b PROVE Len(Text(v, b)) <= 1
  <2>1. PICK d : Text(v, b) = <<DigitChar(d)>>
    BY <1>1, TextSteps
  <2>2. PICK c : c = DigitChar(d)
    OBVIOUS
  <2>3. Len(<<c>>) = 1
    OBVIOUS
  <2> QED BY <2>1, <2>2, <2>3
<1> QED BY <1>1 DEF Fits

\* One digit more for numbers b times as large.
LEMMA FitsMore ==
    ASSUME NEW b \in Bases, NEW m \in Nat, m > 0, NEW l \in Nat, l > 0, Fits(b, m, l)
    PROVE  Fits(b, m * b, l + 1)
<1>0. b \in Nat /\ b > 1
  BY DEF Bases
<1>1. ASSUME NEW v \in Nat, v < m * b PROVE Len(Text(v, b)) <= l + 1
  <2>1. PICK q \in Nat, d \in 0..(b - 1) :
            /\ v \div b = q /\ v % b = d /\ v = q * b + d
            /\ v < b => q = 0 /\ Text(v, b) = <<DigitChar(d)>>
            /\ v >= b => q > 0 /\ q < v /\ Text(v, b) = Append(Text(q, b), DigitChar(d))
    BY TextSteps
  <2>2. q < m
    <3>1. CASE b = 8
      BY <1>1, <2>1, <3>1
    <3>2. CASE b = 10
      BY <1>1, <2>1, <3>2
    <3>3. CASE b = 16
      BY <1>1, <2>1, <3>3
    <3> QED BY <3>1, <3>2, <3>3 DEF Bases
  <2>7. Text(q, b) \in Seq(Char) /\ Len(Text(q, b)) <= l
    BY <2>2, TextSteps DEF Fits
  <2>3. PICK k, t, c : /\ k \in Nat /\ t \in Seq(Char) /\ t = Text(q, b) /\ k = Len(t) /\ k <= l
                       /\ c = DigitChar(d)
    BY <2>7
  <2>4. Len(Append(t, c)) = k + 1 /\ Len(<<c>>) = 1
    BY <2>3
  <2>5. CASE v < b
    <3>1. Text(v, b) = <<c>>
      BY <2>1, <2>3, <2>5, Zenon
    <3> QED BY <2>4, <3>1
  <2>6. CASE v >= b
    BY <2>1, <2>3, <2>4, <2>6
  <2> QED BY <1>0, <2>5, <2>6
<1> QED BY <1>1 DEF Fits

\* The value of digits is found one by one.
ValueStep(v, c, b) == v * b + DigitOf(c)

\* A step is a number again.
LEMMA ValueStepType ==
    ASSUME NEW v \in Nat, NEW c \in Nat, NEW base \in Nat
    PROVE  ValueStep(v, c, base) \in Nat
<1>1. DigitOf(c) \in Nat
  BY DigitType
<1> QED BY <1>1 DEF ValueStep

\* They are taken in order.
LEMMA ValueChain ==
    ASSUME NEW s \in Seq(Nat), NEW base \in Nat
    PROVE  \E h \in [0..Len(s) -> Nat] :
               /\ h[0] = 0 /\ \A k \in 1..Len(s) : h[k] = ValueStep(h[k - 1], s[k], base)
               /\ h[Len(s)] = ValueOf(s, base)
<1> DEFINE f == [tc \in Nat \X Nat |-> ValueStep(tc[1], tc[2], base)]
           Eq(g) == g = [a \in SUBSET DOMAIN s |->
                            IF a = {} THEN 0 ELSE ValueStep(g[a \ {Max(a)}], s[Max(a)], base)]
           H == CHOOSE g : Eq(g)
<1>1. \A u \in Nat, c \in Nat : f[<<u, c>>] = ValueStep(u, c, base)
  OBVIOUS
<1>2. f \in [Nat \X Nat -> Nat]
  BY ValueStepType
<1> HIDE DEF f
<1>14. 0 \in Nat
  OBVIOUS
<1>15. StepOn(f, Nat, Nat)
  BY <1>2 DEF StepOn
<1>3. PICK g : Solves(g, Nat, f, 0, s)
  BY <1>14, <1>15, FoldSets, Zenon
<1>4. DOMAIN s = 1..Len(s) /\ Len(s) \in Nat
  OBVIOUS
<1>5. ASSUME NEW a \in SUBSET (1..Len(s)), a # {}
      PROVE  a \ {Max(a)} \in SUBSET (1..Len(s)) /\ s[Max(a)] \in Nat
  <2>1. Max(a) \in a
    BY <1>4, <1>5, MaxOfSet, Zenon
  <2>2. Max(a) \in 1..Len(s)
    BY <2>1
  <2>3. s[Max(a)] \in Nat
    BY <2>2
  <2>4. a \ {Max(a)} \in SUBSET (1..Len(s))
    BY Zenon
  <2> QED BY <2>3, <2>4
<1>6. Eq(g)
  <2>1. ASSUME NEW a \in SUBSET (1..Len(s))
        PROVE  g[a] = IF a = {} THEN 0 ELSE ValueStep(g[a \ {Max(a)}], s[Max(a)], base)
    <3>1. CASE a = {}
      BY <1>3, <3>1, Zenon DEF Solves
    <3>2. CASE a # {}
      <4>1. g[a \ {Max(a)}] \in Nat /\ s[Max(a)] \in Nat
        BY <1>3, <1>5, <3>2 DEF Solves
      <4>2. f[<<g[a \ {Max(a)}], s[Max(a)]>>] = ValueStep(g[a \ {Max(a)}], s[Max(a)], base)
        BY <1>1, <4>1, Zenon
      <4> QED BY <1>3, <3>2, <4>2, Zenon DEF Solves
    <3> QED BY <3>1, <3>2
  <2>2. g = [a \in SUBSET (1..Len(s)) |-> g[a]]
    BY <1>3, Zenon DEF Solves
  <2> QED BY <1>4, <2>1, <2>2, Zenon
<1>7. Eq(H)
  BY <1>6, Zenon
<1>8. ValueOf(s, base) = H[1..Len(s)]
  <2>1. ValueOf(s, base) = H[DOMAIN s]
    BY Zenon DEF ValueOf, ValueStep, FoldLeft, MapThenFoldSet
  <2> QED BY <1>4, <2>1, Zenon
<1> HIDE DEF H
<1>9. \A a \in SUBSET (1..Len(s)) : H[a] = IF a = {} THEN 0 ELSE ValueStep(H[a \ {Max(a)}], s[Max(a)], base)
  BY <1>4, <1>7, Zenon
<1>10. \A a \in SUBSET (1..Len(s)) : a = {} => H[a] = 0
  BY <1>9, Zenon
<1>11. ASSUME NEW a \in SUBSET (1..Len(s)), a # {}, H[a \ {Max(a)}] \in Nat
       PROVE  H[a] = f[<<H[a \ {Max(a)}], s[Max(a)]>>]
  BY <1>1, <1>5, <1>9, <1>11, Zenon
<1>12. PICK h : Chain(h, Nat, f, 0, s, H)
  <2> HIDE DEF Eq
  <2>2. Goes(H, Nat, f, 0, s)
    BY <1>10, <1>11, Zenon DEF Goes
  <2> QED BY <1>14, <1>15, <2>2, FoldChain, Zenon
<1>13. ASSUME NEW k \in 1..Len(s) PROVE h[k] = ValueStep(h[k - 1], s[k], base)
  <2>1. k - 1 \in 0..Len(s) /\ s[k] \in Nat
    BY <1>4
  <2>2. h[k - 1] \in Nat
    BY <1>12, <2>1 DEF Chain
  <2> QED BY <1>1, <1>12, <2>1, <2>2 DEF Chain
<1> QED BY <1>8, <1>12, <1>13 DEF Chain

\* A digit more is a step more.
LEMMA ValueMore ==
    ASSUME NEW s \in Seq(Nat), NEW c \in Nat, NEW base \in Nat
    PROVE  ValueOf(s, base) \in Nat /\ ValueOf(Append(s, c), base) = ValueOf(s, base) * base + DigitOf(c)
<1>1. PICK len \in Nat : len = Len(s)
  OBVIOUS
<1>2. PICK t \in Seq(Nat) : t = Append(s, c)
  <2>1. Append(s, c) \in Seq(Nat)
    OBVIOUS
  <2> QED BY <2>1
<1>3. /\ Len(t) = len + 1 /\ t[len + 1] = c
      /\ \A k \in 1..len : t[k] = s[k]
  BY <1>1, <1>2
<1>4. PICK h \in [0..len -> Nat] :
          /\ h[0] = 0 /\ \A k \in 1..len : h[k] = ValueStep(h[k - 1], s[k], base)
          /\ h[len] = ValueOf(s, base)
  BY <1>1, ValueChain
<1>5. PICK g \in [0..(len + 1) -> Nat] :
          /\ g[0] = 0 /\ \A k \in 1..(len + 1) : g[k] = ValueStep(g[k - 1], t[k], base)
          /\ g[len + 1] = ValueOf(t, base)
  <2>1. \E g \in [0..Len(t) -> Nat] :
            /\ g[0] = 0 /\ \A k \in 1..Len(t) : g[k] = ValueStep(g[k - 1], t[k], base)
            /\ g[Len(t)] = ValueOf(t, base)
    BY ValueChain, Zenon
  <2>2. Len(t) = len + 1
    BY <1>3
  <2> QED BY <2>1, <2>2, Zenon
<1> DEFINE A == {k \in Nat : k <= len => g[k] = h[k]}
<1>6. 0 \in A
  BY <1>4, <1>5
<1>7. ASSUME NEW k \in A PROVE k + 1 \in A
  <2>1. k \in Nat /\ k + 1 \in Nat
    OBVIOUS
  <2>2. ASSUME k + 1 <= len PROVE g[k + 1] = h[k + 1]
    <3>1. k + 1 \in 1..len /\ k + 1 \in 1..(len + 1) /\ k + 1 - 1 = k /\ k <= len
      BY <2>1, <2>2
    <3>2. g[k + 1] = ValueStep(g[k], t[k + 1], base) /\ h[k + 1] = ValueStep(h[k], s[k + 1], base)
      BY <1>4, <1>5, <3>1
    <3>3. g[k] = h[k] /\ t[k + 1] = s[k + 1]
      BY <1>3, <3>1
    <3> QED BY <3>2, <3>3
  <2> QED BY <2>1, <2>2
<1>8. g[len] = h[len] /\ h[len] \in Nat
  <2>1. A \in SUBSET Nat
    OBVIOUS
  <2>2. len \in A
    <3> HIDE DEF A
    <3> QED BY <1>6, <1>7, <2>1, Induction
  <2> QED BY <1>4, <2>2
<1>9. g[len + 1] = ValueStep(g[len], t[len + 1], base)
  <2>1. len + 1 \in 1..(len + 1) /\ len + 1 - 1 = len
    OBVIOUS
  <2> QED BY <1>5, <2>1
<1>10. ValueOf(t, base) = ValueStep(ValueOf(s, base), c, base) /\ ValueOf(s, base) \in Nat
  BY <1>3, <1>4, <1>5, <1>8, <1>9
<1> QED BY <1>2, <1>10, Zenon DEF ValueStep

\* Zeros in front are worth nothing.
LEMMA ValueOfZeros ==
    ASSUME NEW p \in Seq(Nat), NEW s \in Seq(Nat), NEW b \in Nat,
           \A i \in 1..Len(p) : DigitOf(p[i]) = 0
    PROVE  ValueOf(p \o s, b) = ValueOf(s, b)
<1>1. PICK l \in Nat, m \in Nat : l = Len(p) /\ m = Len(s)
  OBVIOUS
<1>2. PICK t \in Seq(Nat) : t = p \o s /\ Len(t) = l + m
  <2>1. p \o s \in Seq(Nat) /\ Len(p \o s) = l + m
    BY <1>1
  <2> QED BY <2>1
<1>3. /\ \A i \in 1..l : t[i] = p[i]
      /\ \A i \in 1..m : t[l + i] = s[i]
  BY <1>1, <1>2
<1>4. PICK h \in [0..m -> Nat] :
          /\ h[0] = 0 /\ \A k \in 1..m : h[k] = ValueStep(h[k - 1], s[k], b)
          /\ h[m] = ValueOf(s, b)
  BY <1>1, ValueChain
<1>5. PICK g \in [0..(l + m) -> Nat] :
          /\ g[0] = 0 /\ \A k \in 1..(l + m) : g[k] = ValueStep(g[k - 1], t[k], b)
          /\ g[l + m] = ValueOf(t, b)
  <2>1. \E g \in [0..Len(t) -> Nat] :
            /\ g[0] = 0 /\ \A k \in 1..Len(t) : g[k] = ValueStep(g[k - 1], t[k], b)
            /\ g[Len(t)] = ValueOf(t, b)
    BY ValueChain, Zenon
  <2> QED BY <1>2, <2>1, Zenon
<1> DEFINE A == {k \in Nat : k <= l => g[k] = 0}
           B == {k \in Nat : k <= m => g[l + k] = h[k]}
<1>6. l \in A
  <2>1. 0 \in A
    BY <1>5
  <2>2. ASSUME NEW k \in A PROVE k + 1 \in A
    <3>1. SUFFICES ASSUME k + 1 <= l PROVE g[k + 1] = 0
      OBVIOUS
    <3>2. k + 1 \in 1..l /\ k + 1 \in 1..(l + m) /\ k + 1 - 1 = k /\ k <= l
      BY <3>1
    <3>3. g[k + 1] = ValueStep(g[k], t[k + 1], b) /\ g[k] = 0
      BY <1>5, <3>2
    <3>4. t[k + 1] = p[k + 1] /\ DigitOf(p[k + 1]) = 0
      BY <1>1, <1>3, <3>2
    <3>5. ValueStep(0, t[k + 1], b) = 0
      <4>1. 0 * b + 0 = 0
        OBVIOUS
      <4> QED BY <3>4, <4>1 DEF ValueStep
    <3> QED BY <3>3, <3>5
  <2>3. A \in SUBSET Nat
    OBVIOUS
  <2> HIDE DEF A
  <2> QED BY <2>1, <2>2, <2>3, Induction
<1>7. g[l] = 0
  BY <1>6
<1> HIDE DEF A
<1>8. m \in B
  <2>1. 0 \in B
    BY <1>4, <1>7
  <2>2. ASSUME NEW k \in B PROVE k + 1 \in B
    <3>1. SUFFICES ASSUME k + 1 <= m PROVE g[l + (k + 1)] = h[k + 1]
      OBVIOUS
    <3>2. PICK j \in Nat : j = l + (k + 1) /\ j \in 1..(l + m) /\ j - 1 = l + k /\ k + 1 \in 1..m /\ k + 1 - 1 = k
      <4>1. l + (k + 1) \in 1..(l + m) /\ l + (k + 1) - 1 = l + k /\ k + 1 \in 1..m /\ k + 1 - 1 = k
        BY <3>1
      <4> QED BY <4>1
    <3>5. h[k + 1] = ValueStep(h[k], s[k + 1], b)
      BY <1>4, <3>2
    <3>6. g[j] = ValueStep(g[j - 1], t[j], b)
      BY <1>5, <3>2, Zenon
    <3>3. g[j] = ValueStep(g[l + k], t[j], b) /\ h[k + 1] = ValueStep(h[k], s[k + 1], b)
      BY <3>2, <3>5, <3>6, Zenon
    <3>4. t[j] = s[k + 1] /\ g[l + k] = h[k]
      <4>1. t[j] = s[k + 1]
        BY <1>3, <3>2
      <4>2. k <= m /\ k \in Nat
        BY <3>1
      <4> QED BY <4>1, <4>2
    <3> QED BY <3>2, <3>3, <3>4
  <2>3. B \in SUBSET Nat
    OBVIOUS
  <2> HIDE DEF B
  <2> QED BY <2>1, <2>2, <2>3, Induction
<1>9. g[l + m] = h[m]
  BY <1>8
<1> QED BY <1>2, <1>4, <1>5, <1>9

\* The digits that are written for a number have its value.
LEMMA TextValue ==
    ASSUME NEW b \in Bases, NEW v \in Nat
    PROVE  ValueOf(Text(v, b), b) = v
<1>0. b \in Nat /\ b > 1 /\ \A d \in 0..(b - 1) : d \in 0..15
  BY DEF Bases
<1>1. PICK e \in Seq(Nat) : e = <<>> /\ Len(e) = 0
  <2>1. <<>> \in Seq(Nat) /\ Len(<<>>) = 0
    OBVIOUS
  <2> QED BY <2>1
<1>2. ValueOf(e, b) = 0
  <2>1. \E h \in [0..Len(e) -> Nat] :
            /\ h[0] = 0 /\ \A k \in 1..Len(e) : h[k] = ValueStep(h[k - 1], e[k], b)
            /\ h[Len(e)] = ValueOf(e, b)
    BY <1>0, ValueChain
  <2> QED BY <1>1, <2>1
<1> DEFINE A == {j \in Nat : \A k \in 0..j : ValueOf(Text(k, b), b) = k}
<1>3. ASSUME NEW k \in Nat, \A w \in Nat : w < k => ValueOf(Text(w, b), b) = w
      PROVE  ValueOf(Text(k, b), b) = k
  <2>1. PICK q \in Nat, d \in 0..(b - 1) :
            /\ k \div b = q /\ k % b = d /\ k = q * b + d
            /\ k < b => q = 0 /\ Text(k, b) = <<DigitChar(d)>>
            /\ k >= b => q > 0 /\ q < k /\ Text(k, b) = Append(Text(q, b), DigitChar(d))
    BY TextSteps
  <2>2. PICK c \in Nat : c = DigitChar(d) /\ DigitOf(c) = d
    <3>1. d \in 0..15
      BY <1>0
    <3>2. DigitChar(d) \in Char /\ DigitOf(DigitChar(d)) = d
      BY <3>1, DigitCharRead
    <3>3. DigitChar(d) \in Nat
      BY <3>2, DigitNat
    <3> QED BY <3>2, <3>3
  <2>3. PICK t \in Seq(Nat) : ValueOf(t, b) = q /\ Text(k, b) = Append(t, c)
    <3>1. CASE k < b
      <4>1. Append(e, c) = <<c>>
        BY <1>1
      <4> QED BY <1>2, <2>1, <2>2, <3>1, <4>1
    <3>2. CASE ~(k < b)
      <4>1. q < k /\ Text(k, b) = Append(Text(q, b), c)
        BY <1>0, <2>1, <2>2, <3>2
      <4>2. ValueOf(Text(q, b), b) = q
        BY <1>3, <4>1
      <4>3. Text(q, b) \in Seq(Char)
        BY TextSteps
      <4>4. Text(q, b) \in Seq(Nat)
        BY <4>3, CharSeq
      <4> QED BY <4>1, <4>2, <4>4
    <3> QED BY <3>1, <3>2
  <2>4. ValueOf(Append(t, c), b) = ValueOf(t, b) * b + DigitOf(c)
    BY <1>0, ValueMore
  <2> QED BY <2>1, <2>2, <2>3, <2>4
<1>4. 0 \in A
  <2>1. \A k \in 0..0 : k \in Nat /\ \A w \in Nat : ~(w < k)
    OBVIOUS
  <2>2. ASSUME NEW k \in 0..0 PROVE ValueOf(Text(k, b), b) = k
    BY <1>3, <2>1
  <2> QED BY <2>2
<1>5. ASSUME NEW j \in A PROVE j + 1 \in A
  <2>1. j \in Nat /\ \A k \in 0..j : ValueOf(Text(k, b), b) = k
    OBVIOUS
  <2>2. ASSUME NEW k \in 0..(j + 1) PROVE ValueOf(Text(k, b), b) = k
    <3>1. \A w \in Nat : w < k => w \in 0..j
      BY <2>1
    <3> QED BY <1>3, <2>1, <3>1
  <2> QED BY <2>1, <2>2
<1>6. v \in A
  <2>1. A \in SUBSET Nat
    OBVIOUS
  <2> HIDE DEF A
  <2> QED BY <1>4, <1>5, <2>1, Induction
<1> QED BY <1>6

\* Three digits more.
LEMMA FitsThree ==
    ASSUME NEW b \in Bases, NEW m \in Nat, m > 0, NEW l \in Nat, l > 0, Fits(b, m, l)
    PROVE  \E u \in Nat, k \in Nat :
               /\ u > 0 /\ k = l + 3 /\ Fits(b, u, k)
               /\ u = IF b = 8 THEN m * 512 ELSE IF b = 10 THEN m * 1000 ELSE m * 4096
<1>1. ASSUME NEW v \in Nat, v > 0, NEW j \in Nat, j > 0, Fits(b, v, j)
      PROVE  \E u \in Nat, k \in Nat :
                 /\ u > 0 /\ k > 0 /\ k = j + 1 /\ Fits(b, u, k)
                 /\ u = IF b = 8 THEN v * 8 ELSE IF b = 10 THEN v * 10 ELSE v * 16
  <2>1. Fits(b, v * b, j + 1)
    BY <1>1, FitsMore
  <2>2. PICK k \in Nat : k = j + 1 /\ k > 0
    BY <1>1
  <2>3. PICK u \in Nat : u = v * b /\ u > 0 /\ u = IF b = 8 THEN v * 8 ELSE IF b = 10 THEN v * 10 ELSE v * 16
    <3>1. CASE b = 8
      BY <1>1, <3>1
    <3>2. CASE b = 10
      BY <1>1, <3>2
    <3>3. CASE b = 16
      BY <1>1, <3>3
    <3> QED BY <3>1, <3>2, <3>3 DEF Bases
  <2> QED BY <2>1, <2>2, <2>3
<1>2. PICK m1 \in Nat, l1 \in Nat :
          /\ m1 > 0 /\ l1 > 0 /\ l1 = l + 1 /\ Fits(b, m1, l1)
          /\ m1 = IF b = 8 THEN m * 8 ELSE IF b = 10 THEN m * 10 ELSE m * 16
  BY <1>1
<1>3. PICK m2 \in Nat, l2 \in Nat :
          /\ m2 > 0 /\ l2 > 0 /\ l2 = l1 + 1 /\ Fits(b, m2, l2)
          /\ m2 = IF b = 8 THEN m1 * 8 ELSE IF b = 10 THEN m1 * 10 ELSE m1 * 16
  <2>1. m1 \in Nat /\ m1 > 0 /\ l1 \in Nat /\ l1 > 0 /\ Fits(b, m1, l1)
    BY <1>2
  <2> QED BY <1>1, <2>1
<1>4. PICK m3 \in Nat, l3 \in Nat :
          /\ m3 > 0 /\ l3 > 0 /\ l3 = l2 + 1 /\ Fits(b, m3, l3)
          /\ m3 = IF b = 8 THEN m2 * 8 ELSE IF b = 10 THEN m2 * 10 ELSE m2 * 16
  BY <1>1, <1>3
<1>5. l3 = l + 3
  BY <1>2, <1>3, <1>4
<1>6. m3 = IF b = 8 THEN m * 512 ELSE IF b = 10 THEN m * 1000 ELSE m * 4096
  BY <1>2, <1>3, <1>4
<1> QED BY <1>4, <1>5, <1>6

\* Numbers of 32 bits have 8 digits in hexadecimal, and the greatest of 31 bits
\* leaves room for a sign and a NUL in the buffer.
LEMMA FitsBuffer ==
    /\ \A v \in Nat : v <= 2 * INT32_MAX + 1 => Len(Text(v, 16)) <= 8
    /\ Len(Text(INT32_MAX, 8)) <= 11 /\ Len(Text(INT32_MAX, 10)) <= 10
    /\ INT32_MAX \in Nat
<1>1. 8 \in Bases /\ 10 \in Bases /\ 16 \in Bases
  BY DEF Bases
<1>2. INT32_MAX \in Nat /\ INT32_MAX > 0
  BY SMT DEF INT32_MAX
<1>3. PICK i \in Nat : i = INT32_MAX /\ i > 0
  BY <1>2
<1>4. Fits(8, 8, 1) /\ Fits(10, 10, 1) /\ Fits(16, 16, 1)
  BY <1>1, FitsOne
<1>5. ASSUME NEW v \in Nat, v <= 2 * i + 1 PROVE Len(Text(v, 16)) <= 8
  <2>1. PICK b \in Bases : b = 16
    BY <1>1
  <2>2. PICK u, k : u \in Nat /\ u > 0 /\ k \in Nat /\ k > 0 /\ k = 2 /\ u = 256 /\ Fits(b, u, k)
    <3>1. Fits(b, 16 * b, 1 + 1)
      BY <1>4, <2>1, FitsMore
    <3>2. 16 * b = 256 /\ 1 + 1 = 2
      BY <2>1
    <3> QED BY <3>1, <3>2
  <2>3. PICK u1 \in Nat, k1 \in Nat : u1 > 0 /\ k1 > 0 /\ k1 = k + 3 /\ Fits(b, u1, k1) /\ u1 = u * 4096
    <3>1. \E w \in Nat, j \in Nat :
              /\ w > 0 /\ j = k + 3 /\ Fits(b, w, j)
              /\ w = IF b = 8 THEN u * 512 ELSE IF b = 10 THEN u * 1000 ELSE u * 4096
      BY <2>2, FitsThree
    <3> QED BY <2>1, <2>2, <3>1
  <2>4. PICK u2 \in Nat, k2 \in Nat : k2 = k1 + 3 /\ Fits(b, u2, k2) /\ u2 = u1 * 4096
    <3>1. \E w \in Nat, j \in Nat :
              /\ w > 0 /\ j = k1 + 3 /\ Fits(b, w, j)
              /\ w = IF b = 8 THEN u1 * 512 ELSE IF b = 10 THEN u1 * 1000 ELSE u1 * 4096
      BY <2>3, FitsThree
    <3> QED BY <2>1, <2>2, <3>1
  <2>5. k2 = 8
    BY <2>2, <2>3, <2>4
  <2>6. v < u2
    BY <1>3, <1>5, <2>2, <2>3, <2>4, SMT DEF INT32_MAX
  <2> QED BY <2>1, <2>4, <2>5, <2>6 DEF Fits
<1>6. Len(Text(i, 8)) <= 11
  <2>1. PICK b \in Bases : b = 8
    BY <1>1
  <2>2. PICK u, k : u \in Nat /\ u > 0 /\ k \in Nat /\ k > 0 /\ k = 2 /\ u = 64 /\ Fits(b, u, k)
    <3>1. Fits(b, 8 * b, 1 + 1)
      BY <1>4, <2>1, FitsMore
    <3>2. 8 * b = 64 /\ 1 + 1 = 2
      BY <2>1
    <3> QED BY <3>1, <3>2
  <2>3. PICK u1 \in Nat, k1 \in Nat : u1 > 0 /\ k1 > 0 /\ k1 = k + 3 /\ Fits(b, u1, k1) /\ u1 = u * 512
    <3>1. \E w \in Nat, j \in Nat :
              /\ w > 0 /\ j = k + 3 /\ Fits(b, w, j)
              /\ w = IF b = 8 THEN u * 512 ELSE IF b = 10 THEN u * 1000 ELSE u * 4096
      BY <2>2, FitsThree
    <3> QED BY <2>1, <2>2, <3>1
  <2>4. PICK u2 \in Nat, k2 \in Nat : u2 > 0 /\ k2 > 0 /\ k2 = k1 + 3 /\ Fits(b, u2, k2) /\ u2 = u1 * 512
    <3>1. \E w \in Nat, j \in Nat :
              /\ w > 0 /\ j = k1 + 3 /\ Fits(b, w, j)
              /\ w = IF b = 8 THEN u1 * 512 ELSE IF b = 10 THEN u1 * 1000 ELSE u1 * 4096
      BY <2>3, FitsThree
    <3> QED BY <2>1, <2>2, <2>3, <3>1
  <2>5. PICK u3 \in Nat, k3 \in Nat : k3 = k2 + 3 /\ Fits(b, u3, k3) /\ u3 = u2 * 512
    <3>1. \E w \in Nat, j \in Nat :
              /\ w > 0 /\ j = k2 + 3 /\ Fits(b, w, j)
              /\ w = IF b = 8 THEN u2 * 512 ELSE IF b = 10 THEN u2 * 1000 ELSE u2 * 4096
      BY <2>4, FitsThree
    <3> QED BY <2>1, <3>1
  <2>6. k3 = 11
    BY <2>2, <2>3, <2>4, <2>5
  <2>7. i < u3
    BY <1>3, <2>2, <2>3, <2>4, <2>5, SMT DEF INT32_MAX
  <2> QED BY <2>1, <2>5, <2>6, <2>7 DEF Fits
<1>7. Len(Text(i, 10)) <= 10
  <2>1. PICK b \in Bases : b = 10
    BY <1>1
  <2>3. PICK u1 \in Nat, k1 \in Nat : u1 > 0 /\ k1 > 0 /\ k1 = 4 /\ Fits(b, u1, k1) /\ u1 = 10 * 1000
    <3>1. \E w \in Nat, j \in Nat :
              /\ w > 0 /\ j = 1 + 3 /\ Fits(b, w, j)
              /\ w = IF b = 8 THEN 10 * 512 ELSE IF b = 10 THEN 10 * 1000 ELSE 10 * 4096
      BY <1>4, <2>1, FitsThree
    <3> QED BY <2>1, <3>1
  <2>4. PICK u2 \in Nat, k2 \in Nat : u2 > 0 /\ k2 > 0 /\ k2 = k1 + 3 /\ Fits(b, u2, k2) /\ u2 = u1 * 1000
    <3>1. \E w \in Nat, j \in Nat :
              /\ w > 0 /\ j = k1 + 3 /\ Fits(b, w, j)
              /\ w = IF b = 8 THEN u1 * 512 ELSE IF b = 10 THEN u1 * 1000 ELSE u1 * 4096
      BY <2>3, FitsThree
    <3> QED BY <2>1, <2>3, <3>1
  <2>5. PICK u3 \in Nat, k3 \in Nat : k3 = k2 + 3 /\ Fits(b, u3, k3) /\ u3 = u2 * 1000
    <3>1. \E w \in Nat, j \in Nat :
              /\ w > 0 /\ j = k2 + 3 /\ Fits(b, w, j)
              /\ w = IF b = 8 THEN u2 * 512 ELSE IF b = 10 THEN u2 * 1000 ELSE u2 * 4096
      BY <2>4, FitsThree
    <3> QED BY <2>1, <3>1
  <2>6. k3 = 10
    BY <2>3, <2>4, <2>5
  <2>7. i < u3
    BY <1>3, <2>3, <2>4, <2>5, SMT DEF INT32_MAX
  <2> QED BY <2>1, <2>5, <2>6, <2>7 DEF Fits
<1> QED BY <1>3, <1>5, <1>6, <1>7

\* s is t, after as many pads as the width w asks for.
Padded(s, t, w, pad) ==
    \E p \in Seq(Char) : /\ s = p \o t /\ \A i \in 1..Len(p) : p[i] = pad
                        /\ Len(p) = IF w > Len(t) THEN w - Len(t) ELSE 0

\* print_str() pads.
LEMMA PadEffect ==
    ASSUME NEW ctx, NEW t \in Seq(Char), ctx.min_width \in Nat, ctx.pad \in Char
    PROVE  Padded(print_str(ctx, t), t, ctx.min_width, ctx.pad)
<1>1. PICK w \in Nat, l \in Nat, c \in Char : w = ctx.min_width /\ l = Len(t) /\ c = ctx.pad
  OBVIOUS
<1>2. PICK p : p = [k \in 1..(w - l) |-> c]
  OBVIOUS
<1>3. PICK j \in Nat : j = (IF w > l THEN w - l ELSE 0) /\ 1..(w - l) = 1..j
  <2>1. CASE w > l
    BY <2>1
  <2>2. CASE ~(w > l)
    <3>1. 1..(w - l) = 1..0
      BY <2>2
    <3> QED BY <2>2, <3>1
  <2> QED BY <2>1, <2>2
<1>4. p \in Seq(Char) /\ Len(p) = j /\ \A i \in 1..j : p[i] = c
  <2>1. p = [k \in 1..j |-> c]
    BY <1>2, <1>3, Zenon
  <2>2. [k \in 1..j |-> c] \in Seq(Char)
    OBVIOUS
  <2> QED BY <2>1, <2>2
<1>5. print_str(ctx, t) = p \o t
  BY <1>1, <1>2, Zenon DEF print_str
<1>6. \A i \in 1..Len(p) : p[i] = c
  BY <1>4
<1> QED BY <1>1, <1>3, <1>4, <1>5, <1>6, Zenon DEF Padded

\* A number that is padded is printed as the properties ask for.
LEMMA PaddedRight ==
    ASSUME NEW b \in Bases, NEW v \in Nat, NEW w \in Nat, NEW pad \in Char, NEW s,
           Padded(s, Text(v, b), w, pad)
    PROVE  PrintedRight(s, b, w, pad, v)
<1>1. PICK t \in Seq(Char), l \in Nat :
          t = Text(v, b) /\ l = Len(t) /\ l > 0 /\ ValueOf(t, b) = v /\ (t[1] = ZERO => l = 1)
  <2>1. Written(Text(v, b), v, b)
    BY NumberTextWritten DEF Text
  <2>2. Text(v, b) \in Seq(Char) /\ Len(Text(v, b)) > 0 /\ (Text(v, b)[1] = ZERO => Len(Text(v, b)) = 1)
    BY <2>1, Zenon DEF Written
  <2>3. Len(Text(v, b)) \in Nat
    BY <2>2
  <2>4. ValueOf(Text(v, b), b) = v
    BY TextValue
  <2> QED BY <2>2, <2>3, <2>4, Zenon
<1>2. PICK p \in Seq(Char) : /\ s = p \o t /\ \A i \in 1..Len(p) : p[i] = pad
                             /\ Len(p) = IF w > l THEN w - l ELSE 0
  BY <1>1, Zenon DEF Padded
<1>3. PICK j \in Nat : j = Len(p)
  OBVIOUS
<1>14. j = IF w > l THEN w - l ELSE 0
  BY <1>2, <1>3, Zenon
<1>4. PICK z \in Seq(Char) : z = p \o t /\ Len(z) = j + l /\ z = s
  <2>1. p \o t \in Seq(Char) /\ Len(p \o t) = j + l
    BY <1>1, <1>3
  <2>2. p \o t = s
    BY <1>2, Zenon
  <2> QED BY <2>1, <2>2, Zenon
<1>15. \A i \in 1..j : p[i] = pad
  BY <1>2, <1>3, Zenon
<1>5. /\ \A i \in 1..j : z[i] = pad
      /\ \A i \in 1..l : z[j + i] = t[i]
  <2>1. Len(t) = l /\ Len(p) = j /\ z = p \o t
    BY <1>1, <1>3, <1>4
  <2>2. \A i \in 1..j : z[i] = p[i]
    BY <2>1
  <2>3. \A i \in 1..l : z[j + i] = t[i]
    BY <2>1
  <2> QED BY <1>15, <2>2, <2>3
<1>6. PICK first \in 1..Len(z) : first = j + 1 /\ first - 1 = j /\ Len(z) - first + 1 = l
  BY <1>1, <1>4
<1>7. Len(z) = Max({l, w})
  <2>1. Max({l, w}) = IF l >= w THEN l ELSE w
    BY MaxMinPair
  <2>2. PICK x \in Nat : x = IF l >= w THEN l ELSE w
    OBVIOUS
  <2>3. Len(z) = x
    BY <1>4, <1>14, <2>2
  <2> QED BY <2>1, <2>2, <2>3
<1>8. SubSeq(z, first, Len(z)) = t
  <2>4. PICK h \in Nat : h = Len(z) /\ h - first + 1 = l
    BY <1>6
  <2>5. SubSeq(z, first, h) = [i \in 1..(h - first + 1) |-> z[first + i - 1]]
    BY <2>4
  <2>6. PICK u : u = SubSeq(z, first, Len(z)) /\ u = [i \in 1..l |-> z[first + i - 1]]
    BY <2>4, <2>5
  <2>7. \A i \in 1..l : first + i - 1 \in 1..h
    BY <2>4
  <2>8. u \in Seq(Char)
    BY <2>4, <2>6, <2>7
  <2>1. /\ u \in Seq(Char) /\ u = SubSeq(z, first, Len(z))
        /\ Len(u) = l /\ \A i \in 1..l : u[i] = z[first + i - 1]
    BY <2>6, <2>8
  <2>2. \A i \in 1..l : u[i] = t[i]
    BY <1>5, <1>6, <2>1
  <2>3. u = t
    BY <1>1, <2>1, <2>2, SameSeq
  <2> QED BY <2>1, <2>3
<1>9. z[first] # ZERO \/ first = Len(z)
  <2>1. z[first] = t[1]
    BY <1>1, <1>5, <1>6
  <2> QED BY <1>1, <1>4, <1>6, <2>1
<1>10. \A i \in 1..(first - 1) : z[i] = pad
  BY <1>5, <1>6
<1>11. Len(z) = Max({Len(z) - first + 1, w})
  BY <1>6, <1>7, Zenon
<1>12. ValueOf(SubSeq(z, first, Len(z)), b) = v
  BY <1>1, <1>8, Zenon
<1>13. PrintedRight(z, b, w, pad, v)
  BY <1>9, <1>10, <1>11, <1>12, Zenon DEF PrintedRight
<1> QED BY <1>4, <1>13

\* What printf() computes exists: the states g after the places of s.
PrintSets(g, s, args, k) ==
    g = [a \in SUBSET (1..k) |-> IF a = {} THEN PrintStart(args)
                                          ELSE PrintStep(g[a \ {Max(a)}], s[Max(a)])]

\* printf() computes such states, whatever its format is.
LEMMA PrintSome ==
    ASSUME NEW s, NEW args, NEW m \in Nat
    PROVE  \E g : PrintSets(g, s, args, m)
<1> DEFINE A == {k \in Nat : \E g : PrintSets(g, s, args, k)}
<1>1. 0 \in A
  <2> DEFINE g == [a \in SUBSET (1..0) |-> PrintStart(args)]
  <2>1. ASSUME NEW a \in SUBSET (1..0) PROVE a = {}
    OBVIOUS
  <2>2. g = [a \in SUBSET (1..0) |-> IF a = {} THEN PrintStart(args)
                                            ELSE PrintStep(g[a \ {Max(a)}], s[Max(a)])]
    BY <2>1, Zenon
  <2>3. PrintSets(g, s, args, 0)
    BY <2>2, Zenon DEF PrintSets
  <2> HIDE DEF g
  <2> QED BY <2>3
<1>2. ASSUME NEW k \in A PROVE k + 1 \in A
  <2>1. k \in Nat /\ k + 1 \in Nat
    OBVIOUS
  <2>2. PICK g : PrintSets(g, s, args, k)
    OBVIOUS
  <2> DEFINE h == [a \in SUBSET (1..(k + 1)) |-> IF a = {} THEN PrintStart(args)
                                                 ELSE PrintStep(g[a \ {Max(a)}], s[Max(a)])]
  <2>3. ASSUME NEW a \in SUBSET (1..(k + 1)), a # {}
        PROVE  a \ {Max(a)} \in SUBSET (1..k)
    <3>1. Max(a) \in a /\ \A x \in a : x <= Max(a)
      BY <2>1, <2>3, MaxOfSet, Zenon
    <3>2. ASSUME NEW x \in a \ {Max(a)} PROVE x \in 1..k
      <4>1. x \in 1..(k + 1) /\ Max(a) \in 1..(k + 1) /\ x <= Max(a) /\ x # Max(a)
        BY <3>1
      <4> QED BY <2>1, <4>1
    <3> QED BY <3>2, Zenon
  <2>4. ASSUME NEW a \in SUBSET (1..k) PROVE h[a] = g[a]
    <3>1. a \in SUBSET (1..(k + 1))
      BY <2>1
    <3> QED BY <2>2, <3>1, Zenon DEF PrintSets
  <2>5. ASSUME NEW a \in SUBSET (1..(k + 1))
        PROVE  (IF a = {} THEN PrintStart(args) ELSE PrintStep(g[a \ {Max(a)}], s[Max(a)]))
               = (IF a = {} THEN PrintStart(args) ELSE PrintStep(h[a \ {Max(a)}], s[Max(a)]))
    <3>1. CASE a = {}
      BY <3>1, Zenon
    <3>2. CASE a # {}
      <4>1. h[a \ {Max(a)}] = g[a \ {Max(a)}]
        BY <2>3, <2>4, <3>2, Zenon
      <4> HIDE DEF h
      <4> QED BY <3>2, <4>1, Zenon
    <3> QED BY <3>1, <3>2, Zenon
  <2>6. PrintSets(h, s, args, k + 1)
    BY <2>5, Zenon DEF PrintSets
  <2> HIDE DEF h
  <2> QED BY <2>1, <2>6
<1>3. A \in SUBSET Nat
  OBVIOUS
<1>4. m \in A
  <2> HIDE DEF A
  <2> QED BY <1>1, <1>2, <1>3, Induction
<1> QED BY <1>4

\* printf() goes through its format character by character.
PrintGoes(h, s, args, len) ==
    /\ h[0] = PrintStart(args) /\ printf(s, args) = h[len].out
    /\ \A k \in Nat : k < len => h[k + 1] = PrintStep(h[k], s[k + 1])

\* They go from a character of the format to the next.
LEMMA PrintChain ==
    ASSUME NEW s \in Seq(Nat), NEW args
    PROVE  \E h : PrintGoes(h, s, args, Len(s))
<1> DEFINE H == CHOOSE g : g = [a \in SUBSET DOMAIN s |-> IF a = {} THEN PrintStart(args)
                                          ELSE PrintStep(g[a \ {Max(a)}], s[Max(a)])]
           h == [k \in 0..Len(s) |-> H[1..k]]
<1>1. PICK len \in Nat : len = Len(s) /\ DOMAIN s = 1..len
  OBVIOUS
<1>2. PrintSets(H, s, args, len)
  <2>1. PICK g : PrintSets(g, s, args, len)
    BY PrintSome, Zenon
  <2> QED BY <1>1, <2>1, Zenon DEF PrintSets
<1>3. printf(s, args) = H[1..len].out
  BY <1>1, Zenon DEF printf, FoldLeft, MapThenFoldSet
<1> HIDE DEF H
<1>4. ASSUME NEW k \in Nat, k < len PROVE h[k + 1] = PrintStep(h[k], s[k + 1])
  <2>1. PICK j \in Nat : /\ j = k + 1 /\ j > 0 /\ j - 1 = k /\ j \in 1..j /\ 1..j \in SUBSET (1..len)
                         /\ j \in 0..Len(s) /\ k \in 0..Len(s)
    <3>1. /\ k + 1 \in Nat /\ k + 1 > 0 /\ (k + 1) - 1 = k /\ k + 1 \in 1..(k + 1)
          /\ 1..(k + 1) \in SUBSET (1..len) /\ k + 1 \in 0..Len(s) /\ k \in 0..Len(s)
      BY <1>1, <1>4
    <3> QED BY <3>1
  <2>2. Max(1..j) = j /\ (1..j) \ {Max(1..j)} = 1..(j - 1)
    BY <2>1, LastPlace, Zenon
  <2>3. 1..j # {}
    BY <2>1, Zenon
  <2>4. H[1..j] = PrintStep(H[(1..j) \ {Max(1..j)}], s[Max(1..j)])
    BY <1>2, <2>1, <2>3, Zenon DEF PrintSets
  <2>5. H[1..j] = PrintStep(H[1..k], s[j])
    BY <2>1, <2>2, <2>4, Zenon
  <2> QED BY <2>1, <2>5, Zenon
<1>5. h[0] = PrintStart(args)
  <2>1. 1..0 = {} /\ 1..0 \in SUBSET (1..len) /\ 0 \in 0..Len(s)
    BY <1>1
  <2> QED BY <1>2, <2>1, Zenon DEF PrintSets
<1>6. h[len] = H[1..len]
  <2>1. len \in 0..Len(s)
    BY <1>1
  <2> QED BY <2>1, Zenon
<1> HIDE DEF h
<1>7. PrintGoes(h, s, args, len)
  BY <1>3, <1>4, <1>5, <1>6, Zenon DEF PrintGoes
<1> QED BY <1>1, <1>7

\* The state of printf().
State(o, a, p, w, at) == [out |-> o, args |-> a, pad |-> p, min_width |-> w, at |-> at]

\* The characters of the conversions are all different, and no digits.
LEMMA PercentCodes ==
    /\ Percent.percent = 37 /\ Percent.l = 108
    /\ ~Takes(37) /\ ~Takes(108) /\ ~isdigit(108) /\ 108 # ZERO
    /\ \A c \in 48..57 : ~Takes(c) /\ c # 108 /\ c # 37
    /\ \A c \in {Percent.u, Percent.x, Percent.o, Percent.d, Percent.p} :
           Takes(c) /\ ~isdigit(c) /\ c # ZERO /\ c # 108 /\ c # 37 /\ c \in Nat
<1>1. Percent.percent = 37 /\ Percent.l = 108
  BY SMT DEF Percent
<1>2. ~Takes(37) /\ ~Takes(108) /\ ~isdigit(108) /\ 108 # ZERO
  BY SMT DEF Percent, Takes, isdigit, ZERO
<1>3. \A c \in 48..57 : ~Takes(c) /\ c # 108 /\ c # 37
  BY SMT DEF Percent, Takes
<1>4. \A c \in {Percent.u, Percent.x, Percent.o, Percent.d, Percent.p} :
          ~isdigit(c) /\ c # ZERO /\ c # 108 /\ c # 37 /\ c \in Nat
  BY SMT DEF Percent, isdigit, ZERO
<1>5. \A c \in {Percent.u, Percent.x, Percent.o, Percent.d, Percent.p} : Takes(c)
  BY SMT DEF Percent, Takes
<1> QED BY SMT, <1>1, <1>2, <1>3, <1>4, <1>5

\* A step sets some of its fields.
SetOut(r, u) == [r EXCEPT !.out = u]
SetArgs(r, u) == [r EXCEPT !.args = u]
SetPad(r, u) == [r EXCEPT !.pad = u]
SetWidth(r, u) == [r EXCEPT !.min_width = u]
SetAt(r, v) == [r EXCEPT !.at = v]
SetOutAt(r, u, v) == [r EXCEPT !.out = u, !.at = v]
SetPadAt(r, u, v) == [r EXCEPT !.pad = u, !.at = v]
SetWidthAt(r, u, v) == [r EXCEPT !.min_width = u, !.at = v]
SetArgsAt(r, u, z, v) == [r EXCEPT !.out = u, !.args = z, !.at = v]

\* One field is set and the others stay as they are.
LEMMA StateSet ==
    ASSUME NEW o, NEW a, NEW p, NEW w, NEW at, NEW u
    PROVE  /\ SetOut(State(o, a, p, w, at), u) = State(u, a, p, w, at)
           /\ SetArgs(State(o, a, p, w, at), u) = State(o, u, p, w, at)
           /\ SetPad(State(o, a, p, w, at), u) = State(o, a, u, w, at)
           /\ SetWidth(State(o, a, p, w, at), u) = State(o, a, p, u, at)
           /\ SetAt(State(o, a, p, w, at), u) = State(o, a, p, w, u)
<1>1. SetOut(State(o, a, p, w, at), u) = State(u, a, p, w, at)
  BY SMT DEF State, SetOut
<1>2. SetArgs(State(o, a, p, w, at), u) = State(o, u, p, w, at)
  BY SMT DEF State, SetArgs
<1>3. SetPad(State(o, a, p, w, at), u) = State(o, a, u, w, at)
  BY SMT DEF State, SetPad
<1>4. SetWidth(State(o, a, p, w, at), u) = State(o, a, p, u, at)
  BY SMT DEF State, SetWidth
<1>5. SetAt(State(o, a, p, w, at), u) = State(o, a, p, w, u)
  BY SMT DEF State, SetAt
<1> QED BY <1>1, <1>2, <1>3, <1>4, <1>5

\* Several fields are set one by one.
LEMMA SetsInTurn ==
    ASSUME NEW r, NEW u, NEW v, NEW z
    PROVE  /\ SetOutAt(r, u, v) = SetAt(SetOut(r, u), v)
           /\ SetPadAt(r, u, v) = SetAt(SetPad(r, u), v)
           /\ SetWidthAt(r, u, v) = SetAt(SetWidth(r, u), v)
           /\ SetArgsAt(r, u, z, v) = SetAt(SetArgs(SetOut(r, u), z), v)
<1>1. SetOutAt(r, u, v) = SetAt(SetOut(r, u), v)
  BY SMT DEF SetOutAt, SetAt, SetOut
<1>2. SetPadAt(r, u, v) = SetAt(SetPad(r, u), v)
  BY SMT DEF SetPadAt, SetAt, SetPad
<1>3. SetWidthAt(r, u, v) = SetAt(SetWidth(r, u), v)
  BY SMT DEF SetWidthAt, SetAt, SetWidth
<1>4. SetArgsAt(r, u, z, v) = SetAt(SetArgs(SetOut(r, u), z), v)
  BY SMT DEF SetArgsAt, SetArgs, SetAt, SetOut
<1> QED BY <1>1, <1>2, <1>3, <1>4

\* What they are afterwards.
LEMMA StateSets ==
    ASSUME NEW o, NEW a, NEW p, NEW w, NEW at
    PROVE  /\ \A u, v : SetOutAt(State(o, a, p, w, at), u, v) = State(u, a, p, w, v)
           /\ \A u, v : SetPadAt(State(o, a, p, w, at), u, v) = State(o, a, u, w, v)
           /\ \A u, v : SetWidthAt(State(o, a, p, w, at), u, v) = State(o, a, p, u, v)
           /\ \A u, v, z : SetArgsAt(State(o, a, p, w, at), u, z, v) = State(u, z, p, w, v)
<1>1. ASSUME NEW u, NEW v PROVE SetOutAt(State(o, a, p, w, at), u, v) = State(u, a, p, w, v)
  <2>1. SetOutAt(State(o, a, p, w, at), u, v) = SetAt(SetOut(State(o, a, p, w, at), u), v)
    BY SetsInTurn
  <2>2. SetOut(State(o, a, p, w, at), u) = State(u, a, p, w, at)
    BY StateSet
  <2> QED BY <2>1, <2>2, StateSet
<1>2. ASSUME NEW u, NEW v PROVE SetPadAt(State(o, a, p, w, at), u, v) = State(o, a, u, w, v)
  <2>1. SetPadAt(State(o, a, p, w, at), u, v) = SetAt(SetPad(State(o, a, p, w, at), u), v)
    BY SetsInTurn
  <2>2. SetPad(State(o, a, p, w, at), u) = State(o, a, u, w, at)
    BY StateSet
  <2> QED BY <2>1, <2>2, StateSet
<1>3. ASSUME NEW u, NEW v PROVE SetWidthAt(State(o, a, p, w, at), u, v) = State(o, a, p, u, v)
  <2>1. SetWidthAt(State(o, a, p, w, at), u, v) = SetAt(SetWidth(State(o, a, p, w, at), u), v)
    BY SetsInTurn
  <2>2. SetWidth(State(o, a, p, w, at), u) = State(o, a, p, u, at)
    BY StateSet
  <2> QED BY <2>1, <2>2, StateSet
<1>4. ASSUME NEW u, NEW v, NEW z PROVE SetArgsAt(State(o, a, p, w, at), u, z, v) = State(u, z, p, w, v)
  BY StateSet, SetsInTurn
<1> QED BY <1>1, <1>2, <1>3, <1>4, Zenon

\* Its fields.
LEMMA StateFields ==
    ASSUME NEW o, NEW a, NEW p, NEW w, NEW at, NEW r, r = State(o, a, p, w, at)
    PROVE  r.out = o /\ r.args = a /\ r.pad = p /\ r.min_width = w /\ r.at = at
BY DEF State

\* Text is printed as it stands; a percent sign begins a conversion.
LEMMA PrintText ==
    ASSUME NEW o, NEW a, NEW p, NEW w, NEW c
    PROVE  PrintStep(State(o, a, p, w, "text"), c) =
               IF c = Percent.percent THEN State(o, a, SPACE, 0, "begin")
                                      ELSE State(Append(o, c), a, p, w, "text")
<1>1. PICK r : r = State(o, a, p, w, "text")
  OBVIOUS
<1>2. r.at = "text" /\ r.out = o /\ r.args = a
  BY <1>1, StateFields
<1>3. CASE c = Percent.percent
  <2>1. PrintStep(r, c) = SetOutAt(PrintStart(a), o, "begin")
    BY <1>2, <1>3, Zenon DEF PrintStep, SetOutAt
  <2>2. PrintStart(a) = State(<<>>, a, SPACE, 0, "text")
    BY Zenon DEF PrintStart, State
  <2>3. PICK e : PrintStart(a) = State(e, a, SPACE, 0, "text")
    BY <2>2
  <2>4. SetOutAt(State(e, a, SPACE, 0, "text"), o, "begin") = State(o, a, SPACE, 0, "begin")
    BY StateSets
  <2> QED BY <1>1, <1>3, <2>1, <2>3, <2>4, Zenon
<1>4. CASE c # Percent.percent
  <2>1. PrintStep(r, c) = SetOut(r, Append(o, c))
    BY <1>2, <1>4, Zenon DEF PrintStep, SetOut
  <2>2. PICK u : u = Append(o, c)
    OBVIOUS
  <2>3. SetOut(State(o, a, p, w, "text"), u) = State(u, a, p, w, "text")
    BY StateSet
  <2> QED BY <1>1, <1>4, <2>1, <2>2, <2>3, Zenon
<1> QED BY <1>3, <1>4

\* A zero chooses the padding.
LEMMA PrintZero ==
    ASSUME NEW o, NEW a, NEW p, NEW w
    PROVE  PrintStep(State(o, a, p, w, "begin"), ZERO) = State(o, a, ZERO, w, "zero")
<1>1. PICK r : r = State(o, a, p, w, "begin")
  OBVIOUS
<1>2. r.at = "begin"
  BY <1>1, StateFields
<1>3. ZERO # Percent.l /\ ~Takes(ZERO)
  BY PercentCodes DEF ZERO
<1>4. "begin" # "text"
  OBVIOUS
<1>5. PrintStep(r, ZERO) = SetPadAt(r, ZERO, "zero")
  BY <1>2, <1>3, <1>4, Zenon DEF PrintStep, SetPadAt
<1>6. SetPadAt(State(o, a, p, w, "begin"), ZERO, "zero") = State(o, a, ZERO, w, "zero")
  BY StateSets
<1> QED BY <1>1, <1>5, <1>6, Zenon

\* A digit adds to the width.
LEMMA PrintWidth ==
    ASSUME NEW o, NEW a, NEW p, NEW w \in Nat, NEW d \in 1..9, NEW at \in {"begin", "zero", "width"}
    PROVE  PrintStep(State(o, a, p, w, at), ZERO + d) = State(o, a, p, w * 10 + d, "width")
<1>1. PICK r : r = State(o, a, p, w, at)
  OBVIOUS
<1>2. r.at = at /\ r.min_width = w
  BY <1>1, StateFields
<1>3. PICK c \in 48..57 : c = ZERO + d /\ isdigit(c) /\ c # ZERO /\ w * 10 + c - ZERO = w * 10 + d
  BY DEF ZERO, isdigit
<1>4. ~Takes(c) /\ c # Percent.l
  BY PercentCodes
<1>5. at # "text"
  OBVIOUS
<1>6. PrintStep(r, c) = SetWidthAt(r, w * 10 + c - ZERO, "width")
  BY <1>2, <1>3, <1>4, <1>5, Zenon DEF PrintStep, SetWidthAt
<1>7. SetWidthAt(State(o, a, p, w, at), w * 10 + d, "width") = State(o, a, p, w * 10 + d, "width")
  BY StateSets
<1> QED BY <1>1, <1>3, <1>6, <1>7, Zenon

\* An l is passed over.
LEMMA PrintLong ==
    ASSUME NEW o, NEW a, NEW p, NEW w, NEW at \in {"begin", "width"}
    PROVE  PrintStep(State(o, a, p, w, at), Percent.l) = State(o, a, p, w, "begin")
<1>1. PICK r : r = State(o, a, p, w, at)
  OBVIOUS
<1>2. r.at = at
  BY <1>1, StateFields
<1>3. PICK c : c = Percent.l /\ ~isdigit(c) /\ c # ZERO /\ ~Takes(c)
  BY PercentCodes
<1>4. at # "text"
  OBVIOUS
<1>5. PrintStep(r, c) = SetAt(r, "begin")
  BY <1>2, <1>3, <1>4, Zenon DEF PrintStep, SetAt
<1>6. SetAt(State(o, a, p, w, at), "begin") = State(o, a, p, w, "begin")
  BY StateSet
<1> QED BY <1>1, <1>3, <1>5, <1>6, Zenon

\* A conversion prints the next argument.
LEMMA PrintConversion ==
    ASSUME NEW o, NEW a, NEW p, NEW w, NEW at \in {"begin", "width"}, NEW c,
           ~isdigit(c), c # ZERO, c # Percent.l, Takes(c)
    PROVE  PrintStep(State(o, a, p, w, at), c) =
               State(o \o Converted(State(o, a, p, w, at), c, Head(a)), Tail(a), p, w, "text")
<1>1. PICK r : r = State(o, a, p, w, at)
  OBVIOUS
<1>2. r.at = at /\ r.out = o /\ r.args = a
  BY <1>1, StateFields
<1>3. at # "text"
  OBVIOUS
<1>4. PrintStep(r, c) = SetArgsAt(r, o \o Converted(r, c, Head(a)), Tail(a), "text")
  BY <1>2, <1>3, Zenon DEF PrintStep, SetArgsAt
<1>5. PICK u, z : u = o \o Converted(r, c, Head(a)) /\ z = Tail(a)
  OBVIOUS
<1>6. SetArgsAt(State(o, a, p, w, at), u, z, "text") = State(u, z, p, w, "text")
  BY StateSets
<1> QED BY <1>1, <1>4, <1>5, <1>6, Zenon

\* The conversions of numbers.
LEMMA ConvertedNumber ==
    ASSUME NEW ctx, NEW arg
    PROVE  /\ Converted(ctx, Percent.u, arg) = print_unsigned(ctx, arg, 10)
           /\ Converted(ctx, Percent.x, arg) = print_unsigned(ctx, arg, 16)
           /\ Converted(ctx, Percent.o, arg) = print_unsigned(ctx, arg, 8)
           /\ Converted(ctx, Percent.d, arg) = print_number(ctx, arg, 10)
           /\ Converted(ctx, Percent.p, arg) =
                  <<ZERO, X>> \o print_unsigned([pad |-> ZERO, min_width |-> 8], arg, 16)
BY SMT DEF Converted, Percent

\* What a conversion of an argument prints, after o.
PrintsArgument(o, p, w, c, k) == o \o Converted(State(o, <<k>>, p, w, "begin"), c, k)

Numbers == {Percent.u, Percent.x, Percent.o, Percent.d, Percent.p}

\* It ends the conversion.
LEMMA PrintArgument ==
    ASSUME NEW o, NEW p, NEW w, NEW c \in Numbers, NEW k
    PROVE  PrintStep(State(o, <<k>>, p, w, "begin"), c) =
               State(PrintsArgument(o, p, w, c, k), Tail(<<k>>), p, w, "text")
<1>1. ~isdigit(c) /\ c # ZERO /\ c # Percent.l /\ Takes(c)
  BY PercentCodes DEF Numbers
<1>2. PrintStep(State(o, <<k>>, p, w, "begin"), c) =
          State(o \o Converted(State(o, <<k>>, p, w, "begin"), c, Head(<<k>>)), Tail(<<k>>), p, w, "text")
  BY <1>1, PrintConversion
<1>3. Head(<<k>>) = k
  OBVIOUS
<1> QED BY <1>2, <1>3, Zenon DEF PrintsArgument

\* A format of some characters.
FormatAt(h, s, k) ==
    /\ h[0] = State(<<>>, <<k>>, SPACE, 0, "text") /\ printf(s, <<k>>) = h[Len(s)].out
    /\ \A j \in 0..(Len(s) - 1) : h[j + 1] = PrintStep(h[j], s[j + 1])

\* printf() goes through a format as through any text, from its first state.
LEMMA FormatGoes ==
    ASSUME NEW s \in Seq(Nat), NEW k
    PROVE  \E h : FormatAt(h, s, k)
<1>1. PICK h : PrintGoes(h, s, <<k>>, Len(s))
  BY PrintChain, Zenon
<1>2. PrintStart(<<k>>) = State(<<>>, <<k>>, SPACE, 0, "text")
  BY Zenon DEF PrintStart, State
<1>3. ASSUME NEW j \in 0..(Len(s) - 1) PROVE h[j + 1] = PrintStep(h[j], s[j + 1])
  <2>1. j \in Nat /\ j < Len(s)
    OBVIOUS
  <2> QED BY <1>1, <2>1, Zenon DEF PrintGoes
<1>4. FormatAt(h, s, k)
  BY <1>1, <1>2, <1>3, Zenon DEF PrintGoes, FormatAt
<1> QED BY <1>4

\* The format of Printed().
FormatOf(zero, width, char) ==
    <<Percent.percent>> \o (IF zero THEN <<ZERO>> ELSE <<>>) \o
           (IF width > 0 THEN <<ZERO + width>> ELSE <<>>) \o <<Percent.l, char>>

\* It has up to five characters.
Format3(s, a, b, c) == s \in Seq(Nat) /\ Len(s) = 3 /\ s[1] = a /\ s[2] = b /\ s[3] = c
Format4(s, a, b, c, d) ==
    s \in Seq(Nat) /\ Len(s) = 4 /\ s[1] = a /\ s[2] = b /\ s[3] = c /\ s[4] = d
Format5(s, a, b, c, d, e) ==
    s \in Seq(Nat) /\ Len(s) = 5 /\ s[1] = a /\ s[2] = b /\ s[3] = c /\ s[4] = d /\ s[5] = e

\* The characters of two strings one after the other.
LEMMA JoinedAt ==
    ASSUME NEW p \in Seq(Nat), NEW t \in Seq(Nat)
    PROVE  /\ p \o t \in Seq(Nat) /\ Len(p \o t) = Len(p) + Len(t)
           /\ \A i \in 1..Len(p) : (p \o t)[i] = p[i]
           /\ \A i \in 1..Len(t) : (p \o t)[Len(p) + i] = t[i]
<1>1. PICK l \in Nat, m \in Nat : l = Len(p) /\ m = Len(t)
  OBVIOUS
<1>2. PICK w \in Seq(Nat) : w = p \o t /\ Len(w) = l + m
  <2>1. p \o t \in Seq(Nat) /\ Len(p \o t) = l + m
    BY <1>1
  <2> QED BY <2>1
<1>3. \A i \in 1..l : w[i] = p[i]
  BY <1>1, <1>2
<1>4. \A i \in 1..m : w[l + i] = t[i]
  BY <1>1, <1>2
<1> QED BY <1>1, <1>2, <1>3, <1>4

\* A percent sign, an l and a conversion, and what is between them.
LEMMA FormatBetween ==
    ASSUME NEW a \in Nat, NEW z \in Seq(Nat), NEW d \in Seq(Nat), NEW b \in Nat, NEW c \in Nat, NEW s,
           s = <<a>> \o z \o d \o <<b, c>>
    PROVE  /\ Len(z) = 0 /\ Len(d) = 0 => Format3(s, a, b, c)
           /\ Len(z) = 0 /\ Len(d) = 1 => Format4(s, a, d[1], b, c)
           /\ Len(z) = 1 /\ Len(d) = 1 => Format5(s, a, z[1], d[1], b, c)
<1>1. PICK p \in Seq(Nat), q \in Seq(Nat) :
          /\ p = <<a>> /\ Len(p) = 1 /\ p[1] = a
          /\ q = <<b, c>> /\ Len(q) = 2 /\ q[1] = b /\ q[2] = c
  <2>1. <<a>> \in Seq(Nat) /\ Len(<<a>>) = 1 /\ <<a>>[1] = a
    OBVIOUS
  <2>2. <<b, c>> \in Seq(Nat) /\ Len(<<b, c>>) = 2 /\ <<b, c>>[1] = b /\ <<b, c>>[2] = c
    OBVIOUS
  <2> QED BY <2>1, <2>2, Zenon
<1>2. PICK l \in Nat, m \in Nat : l = Len(z) /\ m = Len(d)
  OBVIOUS
<1>3. PICK u \in Seq(Nat) : /\ u = p \o z /\ Len(u) = Len(p) + Len(z)
                            /\ \A i \in 1..Len(p) : u[i] = p[i]
                            /\ \A i \in 1..Len(z) : u[Len(p) + i] = z[i]
  <2>1. /\ p \o z \in Seq(Nat) /\ Len(p \o z) = Len(p) + Len(z)
        /\ \A i \in 1..Len(p) : (p \o z)[i] = p[i]
        /\ \A i \in 1..Len(z) : (p \o z)[Len(p) + i] = z[i]
    BY JoinedAt, Zenon
  <2> QED BY <2>1, Zenon
<1>4. PICK v \in Seq(Nat) : /\ v = u \o d /\ Len(v) = Len(u) + Len(d)
                            /\ \A i \in 1..Len(u) : v[i] = u[i]
                            /\ \A i \in 1..Len(d) : v[Len(u) + i] = d[i]
  BY JoinedAt, ZenonT(60)
<1>5. PICK w \in Seq(Nat) : /\ w = v \o q /\ Len(w) = Len(v) + Len(q)
                            /\ \A i \in 1..Len(v) : w[i] = v[i]
                            /\ \A i \in 1..Len(q) : w[Len(v) + i] = q[i]
  BY JoinedAt, ZenonT(60)
<1>6. s = w
  BY <1>1, <1>3, <1>4, <1>5, Zenon
<1>10. Len(u) = 1 + l /\ u[1] = a /\ \A i \in 1..l : u[1 + i] = z[i]
  <2>1. 1 \in 1..1
    OBVIOUS
  <2> QED BY <1>1, <1>2, <1>3, <2>1
<1>11. /\ Len(v) = 1 + l + m /\ v[1] = a /\ \A i \in 1..l : v[1 + i] = z[i]
       /\ \A i \in 1..m : v[1 + l + i] = d[i]
  <2>1. 1 \in 1..(1 + l) /\ \A i \in 1..l : 1 + i \in 1..(1 + l)
    OBVIOUS
  <2>2. \A i \in 1..(1 + l) : v[i] = u[i]
    BY <1>4, <1>10
  <2> QED BY <1>2, <1>4, <1>10, <2>1, <2>2
<1>12. /\ Len(w) = 3 + l + m /\ w[1] = a /\ \A i \in 1..l : w[1 + i] = z[i]
       /\ \A i \in 1..m : w[1 + l + i] = d[i]
       /\ w[2 + l + m] = b /\ w[3 + l + m] = c
  <2>1. /\ 1 \in 1..(1 + l + m) /\ \A i \in 1..l : 1 + i \in 1..(1 + l + m)
        /\ \A i \in 1..m : 1 + l + i \in 1..(1 + l + m)
    OBVIOUS
  <2>2. \A i \in 1..(1 + l + m) : w[i] = v[i]
    BY <1>5, <1>11
  <2>3. 1 \in 1..2 /\ 2 \in 1..2 /\ 1 + l + m + 1 = 2 + l + m /\ 1 + l + m + 2 = 3 + l + m
    OBVIOUS
  <2>4. w[2 + l + m] = b /\ w[3 + l + m] = c
    BY <1>1, <1>5, <1>11, <2>3
  <2>5. Len(w) = 3 + l + m
    BY <1>1, <1>5, <1>11
  <2>6. w[1] = a /\ \A i \in 1..l : w[1 + i] = z[i]
    BY <1>11, <2>1, <2>2
  <2>7. \A i \in 1..m : w[1 + l + i] = d[i]
    BY <1>11, <2>1, <2>2
  <2> QED BY <2>4, <2>5, <2>6, <2>7
<1>7. ASSUME l = 0, m = 0 PROVE Format3(s, a, b, c)
  <2>1. 2 + l + m = 2 /\ 3 + l + m = 3
    BY <1>7
  <2> QED BY <1>6, <1>12, <2>1 DEF Format3
<1>8. ASSUME l = 0, m = 1 PROVE Format4(s, a, d[1], b, c)
  <2>1. 1 \in 1..m /\ 1 + l + 1 = 2 /\ 2 + l + m = 3 /\ 3 + l + m = 4
    BY <1>8
  <2> QED BY <1>6, <1>12, <2>1 DEF Format4
<1>9. ASSUME l = 1, m = 1 PROVE Format5(s, a, z[1], d[1], b, c)
  <2>1. 1 \in 1..m /\ 1 \in 1..l /\ 1 + 1 = 2 /\ 1 + l + 1 = 3 /\ 2 + l + m = 4 /\ 3 + l + m = 5
    BY <1>9
  <2> QED BY <1>6, <1>12, <2>1 DEF Format5
<1> QED BY <1>2, <1>7, <1>8, <1>9

\* That of Printed() is a percent sign, a zero and a width or none, and the rest.
LEMMA FormatChars ==
    ASSUME NEW w \in 0..4, NEW c \in Nat
    PROVE  /\ w = 0 => Format3(FormatOf(FALSE, w, c), Percent.percent, Percent.l, c)
           /\ w > 0 => Format4(FormatOf(FALSE, w, c), Percent.percent, ZERO + w, Percent.l, c)
           /\ w > 0 => Format5(FormatOf(TRUE, w, c), Percent.percent, ZERO, ZERO + w, Percent.l, c)
<1>1. PICK a \in Nat, b \in Nat : a = Percent.percent /\ b = Percent.l
  BY PercentCodes
<1>2. PICK e \in Seq(Nat), z \in Seq(Nat), d \in Seq(Nat) :
          /\ e = <<>> /\ Len(e) = 0
          /\ z = <<ZERO>> /\ Len(z) = 1 /\ z[1] = ZERO
          /\ d = <<ZERO + w>> /\ Len(d) = 1 /\ d[1] = ZERO + w
  <2>1. <<>> \in Seq(Nat) /\ Len(<<>>) = 0
    OBVIOUS
  <2>2. \A i \in Nat : <<i>> \in Seq(Nat) /\ Len(<<i>>) = 1 /\ <<i>>[1] = i
    OBVIOUS
  <2>3. ZERO \in Nat /\ ZERO + w \in Nat
    BY DEF ZERO
  <2> QED BY <2>1, <2>2, <2>3, Zenon
<1>3. ASSUME w = 0 PROVE Format3(FormatOf(FALSE, w, c), a, b, c)
  <2>1. ~(w > 0)
    BY <1>3
  <2>2. FormatOf(FALSE, w, c) = <<a>> \o e \o e \o <<b, c>>
    BY <1>1, <1>2, <2>1, Zenon DEF FormatOf
  <2> QED BY <1>2, <2>2, FormatBetween, Zenon
<1>4. ASSUME w > 0 PROVE Format4(FormatOf(FALSE, w, c), a, ZERO + w, b, c)
  <2>1. FormatOf(FALSE, w, c) = <<a>> \o e \o d \o <<b, c>>
    BY <1>1, <1>2, <1>4, Zenon DEF FormatOf
  <2>2. Format4(FormatOf(FALSE, w, c), a, d[1], b, c)
    BY <1>2, <2>1, FormatBetween, Zenon
  <2> QED BY <1>2, <2>2, Zenon
<1>5. ASSUME w > 0 PROVE Format5(FormatOf(TRUE, w, c), a, ZERO, ZERO + w, b, c)
  <2>1. FormatOf(TRUE, w, c) = <<a>> \o z \o d \o <<b, c>>
    BY <1>1, <1>2, <1>5, Zenon DEF FormatOf
  <2>2. Format5(FormatOf(TRUE, w, c), a, z[1], d[1], b, c)
    BY <1>2, <2>1, FormatBetween, Zenon
  <2> QED BY <1>2, <2>2, Zenon
<1> QED BY <1>1, <1>3, <1>4, <1>5, Zenon

\* A conversion begins,
LEMMA PrintBegin ==
    ASSUME NEW o, NEW a, NEW p, NEW w
    PROVE  PrintStep(State(o, a, p, w, "text"), Percent.percent) = State(o, a, SPACE, 0, "begin")
<1>1. PICK c : c = Percent.percent
  OBVIOUS
<1> QED BY <1>1, PrintText

\* and is printed after the l.
LEMMA PrintedRest ==
    ASSUME NEW o, NEW p, NEW w, NEW c \in Numbers, NEW k, NEW at \in {"begin", "width"},
           NEW x, NEW y, NEW z, x = State(o, <<k>>, p, w, at),
           y = PrintStep(x, Percent.l), z = PrintStep(y, c)
    PROVE  z.out = PrintsArgument(o, p, w, c, k)
<1>1. PrintStep(State(o, <<k>>, p, w, at), Percent.l) = State(o, <<k>>, p, w, "begin")
  BY PrintLong
<1>2. PrintStep(State(o, <<k>>, p, w, "begin"), c)
      = State(PrintsArgument(o, p, w, c, k), Tail(<<k>>), p, w, "text")
  BY PrintArgument
<1>3. PICK u, t : u = PrintsArgument(o, p, w, c, k) /\ t = Tail(<<k>>)
  OBVIOUS
<1>4. z = State(u, t, p, w, "text")
  BY <1>1, <1>2, <1>3, Zenon
<1>5. z.out = u
  BY <1>4, StateFields
<1> QED BY <1>3, <1>5

\* The three kinds of formats.
LEMMA PrintedFormats ==
    ASSUME NEW s, NEW w \in 1..9, NEW c \in Numbers, NEW k
    PROVE  /\ Format3(s, Percent.percent, Percent.l, c) =>
                  printf(s, <<k>>) = PrintsArgument(<<>>, SPACE, 0, c, k)
           /\ Format4(s, Percent.percent, ZERO + w, Percent.l, c) =>
                  printf(s, <<k>>) = PrintsArgument(<<>>, SPACE, w, c, k)
           /\ Format5(s, Percent.percent, ZERO, ZERO + w, Percent.l, c) =>
                  printf(s, <<k>>) = PrintsArgument(<<>>, ZERO, w, c, k)
<1>1. PICK a, b, d, e : a = Percent.percent /\ b = Percent.l /\ d = ZERO + w /\ e = ZERO
  OBVIOUS
<1>2. PICK nil : nil = <<>>
  OBVIOUS
<1>3. PICK arg : arg = <<k>>
  OBVIOUS
<1>4. \A p : \A at \in {"begin", "zero"} : PrintStep(State(nil, arg, p, 0, at), d) = State(nil, arg, p, w, "width")
  <2>1. ASSUME NEW at \in {"begin", "zero"}, NEW p
        PROVE  PrintStep(State(nil, arg, p, 0, at), d) = State(nil, arg, p, w, "width")
    <3>1. PICK v \in Nat : v = 0
      OBVIOUS
    <3>2. at \in {"begin", "zero", "width"}
      OBVIOUS
    <3>3. PrintStep(State(nil, arg, p, v, at), ZERO + w) = State(nil, arg, p, v * 10 + w, "width")
      BY <3>2, PrintWidth
    <3>4. v * 10 + w = w
      BY <3>1
    <3> QED BY <1>1, <3>1, <3>3, <3>4
  <2> QED BY <2>1
<1>5. PrintStep(State(nil, arg, SPACE, 0, "text"), a) = State(nil, arg, SPACE, 0, "begin")
  BY <1>1, PrintBegin
<1>6. PrintStep(State(nil, arg, SPACE, 0, "begin"), e) = State(nil, arg, ZERO, 0, "zero")
  BY <1>1, PrintZero
<1>7. ASSUME s \in Seq(Nat)
      PROVE  \E h : /\ h[0] = State(nil, arg, SPACE, 0, "text") /\ printf(s, arg) = h[Len(s)].out
                    /\ \A j \in 0..(Len(s) - 1) : h[j + 1] = PrintStep(h[j], s[j + 1])
  <2>1. PICK h : FormatAt(h, s, k)
    BY <1>7, FormatGoes
  <2> QED BY <1>2, <1>3, <2>1, Zenon DEF FormatAt
<1>8. ASSUME Format3(s, a, b, c) PROVE printf(s, arg) = PrintsArgument(<<>>, SPACE, 0, c, k)
  <2>1. s \in Seq(Nat) /\ Len(s) = 3 /\ s[1] = a /\ s[2] = b /\ s[3] = c
    BY <1>8 DEF Format3
  <2>2. PICK h : /\ h[0] = State(nil, arg, SPACE, 0, "text") /\ printf(s, arg) = h[Len(s)].out
                 /\ \A j \in 0..(Len(s) - 1) : h[j + 1] = PrintStep(h[j], s[j + 1])
    BY <1>7, <2>1
  <2>3. \A j \in 0..2 : h[j + 1] = PrintStep(h[j], s[j + 1])
    BY <2>1, <2>2
  <2>4. h[1] = PrintStep(h[0], a) /\ h[2] = PrintStep(h[1], b) /\ h[3] = PrintStep(h[2], c)
    BY <2>1, <2>3
  <2>5. h[1] = State(nil, arg, SPACE, 0, "begin")
    BY <1>5, <2>2, <2>4, Zenon
  <2>6. PICK x, y, z : x = h[1] /\ y = h[2] /\ z = h[3]
    OBVIOUS
  <2>7. z.out = PrintsArgument(nil, SPACE, 0, c, k)
    <3>1. x = State(nil, <<k>>, SPACE, 0, "begin") /\ y = PrintStep(x, Percent.l) /\ z = PrintStep(y, c)
      BY <1>1, <1>3, <2>4, <2>5, <2>6, Zenon
    <3> QED BY <3>1, PrintedRest
  <2> QED BY <1>2, <2>1, <2>2, <2>6, <2>7
<1>9. ASSUME Format4(s, a, d, b, c) PROVE printf(s, arg) = PrintsArgument(<<>>, SPACE, w, c, k)
  <2>1. s \in Seq(Nat) /\ Len(s) = 4 /\ s[1] = a /\ s[2] = d /\ s[3] = b /\ s[4] = c
    BY <1>9 DEF Format4
  <2>2. PICK h : /\ h[0] = State(nil, arg, SPACE, 0, "text") /\ printf(s, arg) = h[Len(s)].out
                 /\ \A j \in 0..(Len(s) - 1) : h[j + 1] = PrintStep(h[j], s[j + 1])
    BY <1>7, <2>1
  <2>3. \A j \in 0..3 : h[j + 1] = PrintStep(h[j], s[j + 1])
    BY <2>1, <2>2
  <2>4. /\ h[1] = PrintStep(h[0], a) /\ h[2] = PrintStep(h[1], d) /\ h[3] = PrintStep(h[2], b)
        /\ h[4] = PrintStep(h[3], c)
    BY <2>1, <2>3
  <2>5. h[2] = State(nil, arg, SPACE, w, "width")
    BY <1>4, <1>5, <2>2, <2>4, Zenon
  <2>6. PICK x, y, z : x = h[2] /\ y = h[3] /\ z = h[4]
    OBVIOUS
  <2>7. z.out = PrintsArgument(nil, SPACE, w, c, k)
    <3>1. x = State(nil, <<k>>, SPACE, w, "width") /\ y = PrintStep(x, Percent.l) /\ z = PrintStep(y, c)
      BY <1>1, <1>3, <2>4, <2>5, <2>6, Zenon
    <3> QED BY <3>1, PrintedRest
  <2> QED BY <1>2, <2>1, <2>2, <2>6, <2>7
<1>10. ASSUME Format5(s, a, e, d, b, c) PROVE printf(s, arg) = PrintsArgument(<<>>, ZERO, w, c, k)
  <2>1. s \in Seq(Nat) /\ Len(s) = 5 /\ s[1] = a /\ s[2] = e /\ s[3] = d /\ s[4] = b /\ s[5] = c
    BY <1>10 DEF Format5
  <2>2. PICK h : /\ h[0] = State(nil, arg, SPACE, 0, "text") /\ printf(s, arg) = h[Len(s)].out
                 /\ \A j \in 0..(Len(s) - 1) : h[j + 1] = PrintStep(h[j], s[j + 1])
    BY <1>7, <2>1
  <2>3. \A j \in 0..4 : h[j + 1] = PrintStep(h[j], s[j + 1])
    BY <2>1, <2>2
  <2>4. /\ h[1] = PrintStep(h[0], a) /\ h[2] = PrintStep(h[1], e) /\ h[3] = PrintStep(h[2], d)
        /\ h[4] = PrintStep(h[3], b) /\ h[5] = PrintStep(h[4], c)
    BY <2>1, <2>3
  <2>5. h[3] = State(nil, arg, ZERO, w, "width")
    BY <1>4, <1>5, <1>6, <2>2, <2>4, Zenon
  <2>6. PICK x, y, z : x = h[3] /\ y = h[4] /\ z = h[5]
    OBVIOUS
  <2>7. z.out = PrintsArgument(nil, ZERO, w, c, k)
    <3>1. x = State(nil, <<k>>, ZERO, w, "width") /\ y = PrintStep(x, Percent.l) /\ z = PrintStep(y, c)
      BY <1>1, <1>3, <2>4, <2>5, <2>6, Zenon
    <3> QED BY <3>1, PrintedRest
  <2> QED BY <1>2, <2>1, <2>2, <2>6, <2>7
<1> QED BY <1>1, <1>3, <1>8, <1>9, <1>10, Zenon

\* printf() prints a number with its padding.
LEMMA PrintedEffect ==
    ASSUME NEW w \in 0..4, NEW c \in Numbers, NEW k
    PROVE  /\ Printed(FALSE, w, c, k) = PrintsArgument(<<>>, SPACE, w, c, k)
           /\ w > 0 => Printed(TRUE, w, c, k) = PrintsArgument(<<>>, ZERO, w, c, k)
<1>1. c \in Nat
  BY PercentCodes DEF Numbers
<1>2. \A zero \in BOOLEAN : Printed(zero, w, c, k) = printf(FormatOf(zero, w, c), <<k>>)
  BY Zenon DEF Printed, FormatOf
<1>3. CASE w = 0
  <2>1. Format3(FormatOf(FALSE, w, c), Percent.percent, Percent.l, c)
    BY <1>1, <1>3, FormatChars
  <2>2. PICK v \in 1..9 : v = 1
    OBVIOUS
  <2>3. printf(FormatOf(FALSE, w, c), <<k>>) = PrintsArgument(<<>>, SPACE, 0, c, k)
    BY <2>1, <2>2, PrintedFormats, ZenonT(60)
  <2>4. ~(w > 0)
    BY <1>3
  <2>5. Printed(FALSE, w, c, k) = printf(FormatOf(FALSE, w, c), <<k>>)
    BY <1>2
  <2> QED BY <1>3, <2>3, <2>4, <2>5, Zenon
<1>4. CASE w > 0
  <2>1. w \in 1..9
    BY <1>4
  <2>2. /\ Format4(FormatOf(FALSE, w, c), Percent.percent, ZERO + w, Percent.l, c)
        /\ Format5(FormatOf(TRUE, w, c), Percent.percent, ZERO, ZERO + w, Percent.l, c)
    BY <1>1, <1>4, FormatChars
  <2>3. /\ printf(FormatOf(FALSE, w, c), <<k>>) = PrintsArgument(<<>>, SPACE, w, c, k)
        /\ printf(FormatOf(TRUE, w, c), <<k>>) = PrintsArgument(<<>>, ZERO, w, c, k)
    BY <2>1, <2>2, PrintedFormats, Zenon
  <2>4. /\ Printed(FALSE, w, c, k) = printf(FormatOf(FALSE, w, c), <<k>>)
        /\ Printed(TRUE, w, c, k) = printf(FormatOf(TRUE, w, c), <<k>>)
    BY <1>2
  <2> QED BY <2>3, <2>4, Zenon
<1>5. w = 0 \/ w > 0
  OBVIOUS
<1> QED BY <1>3, <1>4, <1>5, Zenon

\* A conversion of a number writes its digits, padded.
LEMMA ArgumentPadded ==
    ASSUME NEW p \in Char, NEW w \in Nat, NEW v \in Nat
    PROVE  /\ Padded(PrintsArgument(<<>>, p, w, Percent.u, v), Text(v, 10), w, p)
           /\ Padded(PrintsArgument(<<>>, p, w, Percent.x, v), Text(v, 16), w, p)
           /\ Padded(PrintsArgument(<<>>, p, w, Percent.o, v), Text(v, 8), w, p)
<1>1. PICK ctx, arg : arg = <<v>> /\ ctx = State(<<>>, arg, p, w, "begin")
  OBVIOUS
<1>2. ctx.pad = p /\ ctx.min_width = w
  <2>1. PICK nil : nil = <<>>
    OBVIOUS
  <2>2. ctx = State(nil, arg, p, w, "begin")
    BY <1>1, <2>1
  <2> QED BY <2>2, StateFields
<1>3. \A b \in Bases : Padded(print_unsigned(ctx, v, b), Text(v, b), w, p)
  <2>1. ASSUME NEW b \in Bases PROVE Padded(print_unsigned(ctx, v, b), Text(v, b), w, p)
    <3>1. PICK t \in Seq(Char) : t = Text(v, b)
      BY TextSteps
    <3>2. Padded(print_str(ctx, t), t, ctx.min_width, ctx.pad)
      BY <1>2, PadEffect
    <3>3. print_unsigned(ctx, v, b) = print_str(ctx, t)
      BY <3>1, Zenon DEF print_unsigned, Text
    <3> QED BY <1>2, <3>1, <3>2, <3>3, Zenon
  <2> QED BY <2>1
<1>4. \A b \in Bases : Padded(<<>> \o print_unsigned(ctx, v, b), Text(v, b), w, p)
  <2>1. ASSUME NEW b \in Bases PROVE Padded(<<>> \o print_unsigned(ctx, v, b), Text(v, b), w, p)
    <3>1. PICK t \in Seq(Char) : t = Text(v, b)
      BY TextSteps
    <3>2. Padded(print_unsigned(ctx, v, b), t, w, p)
      BY <1>3, <3>1
    <3>3. PICK s0 \in Seq(Char) : print_unsigned(ctx, v, b) = s0 \o t
      BY <3>2, Zenon DEF Padded
    <3>4. PICK s \in Seq(Char) : s = s0 \o t
      <4>1. s0 \o t \in Seq(Char)
        OBVIOUS
      <4> QED BY <4>1
    <3>5. <<>> \o s = s
      OBVIOUS
    <3> QED BY <1>3, <3>3, <3>4, <3>5, Zenon
  <2> QED BY <2>1
<1>5. /\ PrintsArgument(<<>>, p, w, Percent.u, v) = <<>> \o print_unsigned(ctx, v, 10)
      /\ PrintsArgument(<<>>, p, w, Percent.x, v) = <<>> \o print_unsigned(ctx, v, 16)
      /\ PrintsArgument(<<>>, p, w, Percent.o, v) = <<>> \o print_unsigned(ctx, v, 8)
  BY <1>1, ConvertedNumber, Zenon DEF PrintsArgument
<1>6. 8 \in Bases /\ 10 \in Bases /\ 16 \in Bases
  BY DEF Bases
<1> QED BY <1>4, <1>5, <1>6, Zenon

\* Numbers are printed as they are, in every base and width.
LEMMA NumbersPrinted ==
    ASSUME NEW v \in Nat, NEW w \in 0..4,
           NEW f \in {<<Percent.u, 10>>, <<Percent.x, 16>>, <<Percent.o, 8>>}
    PROVE  /\ PrintedRight(Printed(FALSE, w, f[1], v), f[2], w, SPACE, v)
           /\ w > 0 => PrintedRight(Printed(TRUE, w, f[1], v), f[2], w, ZERO, v)
<1>1. PICK c \in Numbers, b \in Bases :
          /\ c = f[1] /\ b = f[2]
          /\ (c = Percent.u /\ b = 10) \/ (c = Percent.x /\ b = 16) \/ (c = Percent.o /\ b = 8)
  <2>1. Percent.u \in Numbers /\ Percent.x \in Numbers /\ Percent.o \in Numbers
    BY DEF Numbers
  <2>2. 8 \in Bases /\ 10 \in Bases /\ 16 \in Bases
    BY DEF Bases
  <2> QED BY <2>1, <2>2
<1>2. w \in Nat /\ SPACE \in Char /\ ZERO \in Char
  BY PartChars
<1>3. ASSUME NEW pad \in Char PROVE PrintedRight(PrintsArgument(<<>>, pad, w, c, v), b, w, pad, v)
  <2>1. Padded(PrintsArgument(<<>>, pad, w, c, v), Text(v, b), w, pad)
    BY <1>1, <1>2, ArgumentPadded, Zenon
  <2> QED BY <1>2, <2>1, PaddedRight
<1>4. /\ Printed(FALSE, w, c, v) = PrintsArgument(<<>>, SPACE, w, c, v)
      /\ w > 0 => Printed(TRUE, w, c, v) = PrintsArgument(<<>>, ZERO, w, c, v)
  BY PrintedEffect
<1>5. /\ PrintedRight(Printed(FALSE, w, c, v), b, w, SPACE, v)
      /\ w > 0 => PrintedRight(Printed(TRUE, w, c, v), b, w, ZERO, v)
  BY <1>2, <1>3, <1>4, Zenon
<1> QED BY <1>1, <1>5, Zenon

\* So are negative ones, as far as a long goes.
LEMMA NegativePrinted ==
    ASSUME NEW v \in Nat, v <= ULONG_MAX
    PROVE  Printed(FALSE, 0, Percent.d, -v) = NumberText(v > 0, v, 10, 97)
<1>1. PICK ctx, arg : arg = <<-v>> /\ ctx = State(<<>>, arg, SPACE, 0, "begin")
  OBVIOUS
<1>2. ctx.pad = SPACE /\ ctx.min_width = 0
  <2>1. PICK nil : nil = <<>>
    OBVIOUS
  <2>2. ctx = State(nil, arg, SPACE, 0, "begin")
    BY <1>1, <2>1
  <2> QED BY <2>2, StateFields
<1>3. Printed(FALSE, 0, Percent.d, -v) = PrintsArgument(<<>>, SPACE, 0, Percent.d, -v)
  <2>1. Percent.d \in Numbers
    BY DEF Numbers
  <2>2. 0 \in 0..4
    OBVIOUS
  <2> QED BY <2>1, <2>2, PrintedEffect
<1>4. PrintsArgument(<<>>, SPACE, 0, Percent.d, -v) = <<>> \o print_number(ctx, -v, 10)
  BY <1>1, ConvertedNumber, Zenon DEF PrintsArgument
<1>5. PICK t \in Seq(Char) : t = NumberText(v > 0, v, 10, 97)
  <2>1. 10 \in Bases
    BY DEF Bases
  <2>2. PICK u \in Seq(Char) : u = Text(v, 10) /\ NumberText(TRUE, v, 10, 97) = <<MINUS>> \o u
    BY <2>1, TextSteps
  <2>3. <<MINUS>> \o u \in Seq(Char)
    BY PartChars
  <2>4. CASE v > 0
    BY <2>2, <2>3, <2>4
  <2>5. CASE ~(v > 0)
    <3>1. (v > 0) = FALSE
      BY <2>5
    <3> QED BY <2>2, <3>1 DEF Text
  <2> QED BY <2>4, <2>5
<1>6. print_number(ctx, -v, 10) = print_str(ctx, t)
  <2>1. (-v < 0) = (v > 0) /\ (IF -v < 0 THEN -(-v) ELSE -v) = v
    OBVIOUS
  <2>2. Wrapped(v) = v
    BY WrappedSmall
  <2> QED BY <1>5, <2>1, <2>2, Zenon DEF print_number
<1>7. <<>> \o print_str(ctx, t) = t
  <2>1. Padded(print_str(ctx, t), t, ctx.min_width, ctx.pad)
    BY <1>2, PartChars, PadEffect
  <2>2. PICK q \in Seq(Char) : print_str(ctx, t) = q \o t /\ Len(q) = IF ctx.min_width > Len(t) THEN ctx.min_width - Len(t) ELSE 0
    BY <2>1, Zenon DEF Padded
  <2>3. Len(q) = 0
    BY <1>2, <2>2
  <2>4. q \o t = t /\ <<>> \o t = t
    BY <2>3
  <2> QED BY <2>2, <2>4
<1> QED BY <1>3, <1>4, <1>5, <1>6, <1>7, Zenon

-----------------------------------------------------------------------------
(***************************************************************************)
(* The dump of memory.                                                     *)
(***************************************************************************)
\* A part of a text.
PartIs(u, s, k, m) == u \in Seq(Nat) /\ Len(u) = m /\ \A i \in 1..m : u[i] = s[k + i - 1]

\* SubSeq gives the part of a text from k on that has m characters.
LEMMA PartSeq ==
    ASSUME NEW s \in Seq(Nat), NEW k \in Nat, NEW e \in Nat, NEW m \in Nat,
           k > 0, e <= Len(s), e - k + 1 = m
    PROVE  PartIs(SubSeq(s, k, e), s, k, m)
<1>1. PICK u : u = SubSeq(s, k, e)
  OBVIOUS
<1>2. u \in Seq(Nat) /\ Len(u) = m /\ \A i \in 1..m : u[i] = s[k + i - 1]
  <2>1. CASE m = 0
    BY <1>1, <2>1
  <2>2. CASE m > 0
    BY <1>1, <2>2
  <2> QED BY <2>1, <2>2
<1>3. PartIs(u, s, k, m)
  BY <1>2 DEF PartIs
<1> QED BY <1>1, <1>3, Zenon

\* It is the text that it reads like.
LEMMA PartOf ==
    ASSUME NEW s \in Seq(Nat), NEW t \in Seq(Nat), NEW k \in Nat, NEW e \in Nat,
           k > 0, e <= Len(s), e - k + 1 = Len(t), \A i \in 1..Len(t) : s[k + i - 1] = t[i]
    PROVE  SubSeq(s, k, e) = t
<1>1. PICK m \in Nat : m = Len(t) /\ e - k + 1 = m
  OBVIOUS
<1>2. PICK u \in Seq(Nat) : u = SubSeq(s, k, e) /\ Len(u) = m /\ \A i \in 1..m : u[i] = s[k + i - 1]
  <2>1. PartIs(SubSeq(s, k, e), s, k, m)
    BY <1>1, PartSeq
  <2> QED BY <2>1, Zenon DEF PartIs
<1>3. \A i \in 1..m : u[i] = t[i]
  BY <1>1, <1>2
<1>4. u = t
  <2>1. Len(u) = m /\ Len(t) = m
    BY <1>1, <1>2, Zenon
  <2>2. u = [i \in 1..m |-> u[i]] /\ t = [i \in 1..m |-> t[i]]
    BY <2>1
  <2> QED BY <1>3, <2>2, Zenon
<1> QED BY <1>2, <1>4

\* Digits that are padded with zeros to their width have the value of the number.
LEMMA DigitsPadded ==
    ASSUME NEW v \in Nat, NEW w \in Nat, NEW s, Len(Text(v, 16)) <= w, Padded(s, Text(v, 16), w, ZERO)
    PROVE  s \in Seq(Nat) /\ Len(s) = w /\ ValueOf(s, 16) = v
<1>1. PICK b \in Bases : b = 16 /\ b \in Nat
  BY DEF Bases
<1>2. PICK t \in Seq(Nat), l \in Nat : t = Text(v, b) /\ l = Len(t) /\ l <= w
  <2>1. Text(v, b) \in Seq(Char)
    BY TextSteps
  <2>2. Text(v, b) \in Seq(Nat)
    BY <2>1, CharSeq
  <2>3. Len(Text(v, b)) \in Nat
    BY <2>2
  <2> QED BY <1>1, <2>2, <2>3
<1>3. PICK p \in Seq(Char) : /\ s = p \o t /\ \A i \in 1..Len(p) : p[i] = ZERO
                             /\ Len(p) = IF w > Len(t) THEN w - Len(t) ELSE 0
  BY <1>1, <1>2, Zenon DEF Padded
<1>4. p \in Seq(Nat)
  BY CharSeq
<1>5. Len(p) + Len(t) = w
  BY <1>2, <1>3
<1>6. p \o t \in Seq(Nat) /\ Len(p \o t) = w
  BY <1>4, <1>5
<1>7. DigitOf(ZERO) = 0
  <2>1. isdigit(ZERO) /\ ~isalpha(ZERO) /\ ZERO - ZERO = 0
    BY DEF ZERO, isdigit, isalpha, islower, isupper
  <2> QED BY <2>1 DEF DigitOf
<1>8. \A i \in 1..Len(p) : DigitOf(p[i]) = 0
  BY <1>3, <1>7
<1>9. ValueOf(p \o t, b) = ValueOf(t, b)
  BY <1>1, <1>4, <1>8, ValueOfZeros
<1>10. ValueOf(t, b) = v
  BY <1>2, TextValue
<1> QED BY <1>1, <1>3, <1>6, <1>9, <1>10, Zenon

\* The formats of a dump.
LEMMA DumpFormats ==
    /\ DumpByte \in Seq(Nat) /\ Len(DumpByte) = 5
    /\ DumpByte[1] = SPACE /\ DumpByte[2] = Percent.percent /\ DumpByte[3] = ZERO
    /\ DumpByte[4] = ZERO + 2 /\ DumpByte[5] = Percent.x
    /\ DumpAddress \in Seq(Nat) /\ Len(DumpAddress) = 3
    /\ DumpAddress[1] = Percent.percent /\ DumpAddress[2] = Percent.p /\ DumpAddress[3] = 58
<1>1. PICK a \in Nat, b \in Nat, c \in Nat : a = Percent.percent /\ b = Percent.x /\ c = Percent.p
  BY PercentCodes
<1>2. PICK d \in Nat, e \in Nat, f \in Nat : d = ZERO /\ e = ZERO + 2 /\ f = SPACE
  BY DEF ZERO, SPACE
<1>3. DumpByte = <<f, a, d, e, b>>
  BY <1>1, <1>2, Zenon DEF DumpByte
<1>4. DumpAddress = <<a, c, 58>>
  BY <1>1, Zenon DEF DumpAddress
<1>5. <<f, a, d, e, b>> \in Seq(Nat) /\ <<a, c, 58>> \in Seq(Nat)
  OBVIOUS
<1> QED BY <1>1, <1>2, <1>3, <1>4, <1>5

\* What print_unsigned() writes with zeros in front.
LEMMA HexPadded ==
    ASSUME NEW v \in Nat, NEW w \in Nat, NEW ctx, ctx.pad = ZERO, ctx.min_width = w,
           Len(Text(v, 16)) <= w
    PROVE  \E s \in Seq(Nat) : s = print_unsigned(ctx, v, 16) /\ Len(s) = w /\ ValueOf(s, 16) = v
<1>1. PICK t \in Seq(Char) : t = Text(v, 16)
  <2>1. 16 \in Bases
    BY DEF Bases
  <2> QED BY <2>1, TextSteps
<1>2. print_unsigned(ctx, v, 16) = print_str(ctx, t)
  BY <1>1, Zenon DEF print_unsigned, Text
<1>3. Padded(print_str(ctx, t), t, ctx.min_width, ctx.pad)
  BY PartChars, PadEffect
<1>4. Padded(print_unsigned(ctx, v, 16), Text(v, 16), w, ZERO)
  BY <1>1, <1>2, <1>3, Zenon
<1> QED BY <1>4, DigitsPadded

\* A byte of a dump: a blank and two digits.
LEMMA ByteShown ==
    ASSUME NEW v \in 0..255
    PROVE  \E s \in Seq(Nat) : /\ s = printf(DumpByte, <<v>>) /\ Len(s) = 3 /\ s[1] = SPACE
                               /\ ValueOf(SubSeq(s, 2, 3), 16) = v
<1>1. PICK h : FormatAt(h, DumpByte, v)
  BY DumpFormats, FormatGoes
<1>2. PICK nil, arg, o : nil = <<>> /\ arg = <<v>> /\ o = Append(nil, SPACE)
  OBVIOUS
<1>3. /\ h[0] = State(nil, arg, SPACE, 0, "text") /\ printf(DumpByte, <<v>>) = h[5].out
      /\ h[1] = PrintStep(h[0], SPACE) /\ h[2] = PrintStep(h[1], Percent.percent)
      /\ h[3] = PrintStep(h[2], ZERO) /\ h[4] = PrintStep(h[3], ZERO + 2)
      /\ h[5] = PrintStep(h[4], Percent.x)
  <2>1. \A j \in 0..4 : h[j + 1] = PrintStep(h[j], DumpByte[j + 1])
    <3>1. Len(DumpByte) - 1 = 4
      BY DumpFormats
    <3> QED BY <1>1, <3>1, Zenon DEF FormatAt
  <2>2. /\ h[1] = PrintStep(h[0], DumpByte[1]) /\ h[2] = PrintStep(h[1], DumpByte[2])
        /\ h[3] = PrintStep(h[2], DumpByte[3]) /\ h[4] = PrintStep(h[3], DumpByte[4])
        /\ h[5] = PrintStep(h[4], DumpByte[5])
    BY <2>1
  <2>3. h[0] = State(nil, arg, SPACE, 0, "text") /\ printf(DumpByte, <<v>>) = h[5].out
    BY <1>1, <1>2, DumpFormats, Zenon DEF FormatAt
  <2> QED BY <2>2, <2>3, DumpFormats, Zenon
<1>4. h[1] = State(o, arg, SPACE, 0, "text")
  <2>1. SPACE # Percent.percent
    BY PercentCodes DEF SPACE
  <2>2. PrintStep(State(nil, arg, SPACE, 0, "text"), SPACE) = State(Append(nil, SPACE), arg, SPACE, 0, "text")
    BY <2>1, PrintText
  <2> QED BY <1>2, <1>3, <2>2, Zenon
<1>5. h[2] = State(o, arg, SPACE, 0, "begin")
  <2>1. PrintStep(State(o, arg, SPACE, 0, "text"), Percent.percent) = State(o, arg, SPACE, 0, "begin")
    BY PrintBegin
  <2> QED BY <1>3, <1>4, <2>1, Zenon
<1>6. h[3] = State(o, arg, ZERO, 0, "zero")
  <2>1. PrintStep(State(o, arg, SPACE, 0, "begin"), ZERO) = State(o, arg, ZERO, 0, "zero")
    BY PrintZero
  <2> QED BY <1>3, <1>5, <2>1, Zenon
<1>7. h[4] = State(o, arg, ZERO, 2, "width")
  <2>1. PICK w \in Nat, d \in 1..9 : w = 0 /\ d = 2 /\ w * 10 + d = 2
    OBVIOUS
  <2>2. PrintStep(State(o, arg, ZERO, w, "zero"), ZERO + d) = State(o, arg, ZERO, w * 10 + d, "width")
    BY PrintWidth
  <2> QED BY <1>3, <1>6, <2>1, <2>2
<1>8. PICK ctx : ctx = State(o, arg, ZERO, 2, "width") /\ ctx.pad = ZERO /\ ctx.min_width = 2
  BY StateFields
<1>9. PICK u \in Seq(Nat) : u = print_unsigned(ctx, v, 16) /\ Len(u) = 2 /\ ValueOf(u, 16) = v
  <2>1. PICK b \in Bases : b = 16
    BY DEF Bases
  <2>2. Len(Text(v, 16)) <= 2
    <3>1. Fits(b, 16, 1)
      BY <2>1, FitsOne
    <3>2. Fits(b, 16 * b, 1 + 1)
      BY <2>1, <3>1, FitsMore
    <3>3. v \in Nat /\ v < 16 * b /\ 1 + 1 = 2
      BY <2>1
    <3> QED BY <2>1, <3>2, <3>3 DEF Fits
  <2>3. PICK w \in Nat : w = 2
    OBVIOUS
  <2>4. \E s \in Seq(Nat) : s = print_unsigned(ctx, v, 16) /\ Len(s) = w /\ ValueOf(s, 16) = v
    <3>1. v \in Nat /\ ctx.pad = ZERO /\ ctx.min_width = w /\ Len(Text(v, 16)) <= w
      BY <1>8, <2>2, <2>3
    <3> QED BY <3>1, HexPadded
  <2> QED BY <2>3, <2>4
<1>10. h[5].out = o \o u
  <2>1. PICK c : c = Percent.x /\ ~isdigit(c) /\ c # ZERO /\ c # Percent.l /\ Takes(c)
    BY PercentCodes
  <2>2. PrintStep(State(o, arg, ZERO, 2, "width"), c) =
            State(o \o Converted(State(o, arg, ZERO, 2, "width"), c, Head(arg)), Tail(arg), ZERO, 2, "text")
    BY <2>1, PrintConversion
  <2>3. Head(arg) = v
    BY <1>2
  <2>4. Converted(ctx, c, v) = u
    BY <1>9, <2>1, ConvertedNumber, Zenon
  <2>5. PICK z, r : z = o \o u /\ r = Tail(arg)
    OBVIOUS
  <2>6. h[5] = State(z, r, ZERO, 2, "text")
    BY <1>3, <1>7, <1>8, <2>1, <2>2, <2>3, <2>4, <2>5, Zenon
  <2>7. PICK y : y = h[5]
    OBVIOUS
  <2>8. y.out = z
    BY <2>6, <2>7, StateFields
  <2> QED BY <2>5, <2>7, <2>8, Zenon
<1>11. o \in Seq(Nat) /\ Len(o) = 1 /\ o[1] = SPACE
  BY <1>2 DEF SPACE
<1>12. PICK s \in Seq(Nat) : s = o \o u /\ Len(s) = 3 /\ s[1] = SPACE /\ s[2] = u[1] /\ s[3] = u[2]
  <2>1. PICK x \in Seq(Nat) : /\ x = o \o u /\ Len(x) = Len(o) + Len(u)
                              /\ \A i \in 1..Len(o) : x[i] = o[i]
                              /\ \A i \in 1..Len(u) : x[Len(o) + i] = u[i]
    BY <1>11, JoinedAt, Zenon
  <2>2. /\ Len(x) = 3 /\ 1 \in 1..Len(o) /\ 1 \in 1..Len(u) /\ 2 \in 1..Len(u)
        /\ Len(o) + 1 = 2 /\ Len(o) + 2 = 3
    <3>1. Len(o) = 1 /\ Len(u) = 2 /\ Len(x) = Len(o) + Len(u)
      BY <1>9, <1>11, <2>1, Zenon
    <3> QED BY <3>1
  <2>3. x[1] = SPACE /\ x[2] = u[1] /\ x[3] = u[2]
    BY <1>11, <2>1, <2>2
  <2> QED BY <2>1, <2>2, <2>3
<1>13. SubSeq(s, 2, 3) = u
  <2>1. \A i \in 1..Len(u) : s[2 + i - 1] = u[i]
    <3>1. \A i \in 1..Len(u) : i = 1 \/ i = 2
      <4>1. Len(u) = 2
        BY <1>9, Zenon
      <4> QED BY <4>1
    <3>2. 2 + 1 - 1 = 2 /\ 2 + 2 - 1 = 3
      OBVIOUS
    <3> QED BY <1>12, <3>1, <3>2
  <2> QED BY <1>9, <1>12, <2>1, PartOf
<1> QED BY <1>3, <1>9, <1>10, <1>12, <1>13

\* An address: its eight digits stand between 0x and a colon.
LEMMA AddressShown ==
    ASSUME NEW a \in Nat, a <= 2 * INT32_MAX + 1
    PROVE  \E s \in Seq(Nat) : /\ s = printf(DumpAddress, <<a>>) /\ Len(s) = 11
                               /\ ValueOf(SubSeq(s, 3, 10), 16) = a
<1>1. PICK h : FormatAt(h, DumpAddress, a)
  BY DumpFormats, FormatGoes
<1>2. PICK nil, arg, r : nil = <<>> /\ arg = <<a>> /\ r = Tail(arg)
  OBVIOUS
<1>3. /\ h[0] = State(nil, arg, SPACE, 0, "text") /\ printf(DumpAddress, <<a>>) = h[3].out
      /\ h[1] = PrintStep(h[0], Percent.percent) /\ h[2] = PrintStep(h[1], Percent.p)
      /\ h[3] = PrintStep(h[2], 58)
  <2>1. \A j \in 0..2 : h[j + 1] = PrintStep(h[j], DumpAddress[j + 1])
    <3>1. Len(DumpAddress) - 1 = 2
      BY DumpFormats
    <3> QED BY <1>1, <3>1, Zenon DEF FormatAt
  <2>2. /\ h[1] = PrintStep(h[0], DumpAddress[1]) /\ h[2] = PrintStep(h[1], DumpAddress[2])
        /\ h[3] = PrintStep(h[2], DumpAddress[3])
    BY <2>1
  <2>3. h[0] = State(nil, arg, SPACE, 0, "text") /\ printf(DumpAddress, <<a>>) = h[3].out
    BY <1>1, <1>2, DumpFormats, Zenon DEF FormatAt
  <2>4. DumpAddress[1] = Percent.percent /\ DumpAddress[2] = Percent.p /\ DumpAddress[3] = 58
    BY DumpFormats
  <2> QED BY <2>2, <2>3, <2>4
<1>4. h[1] = State(nil, arg, SPACE, 0, "begin")
  <2>1. PrintStep(State(nil, arg, SPACE, 0, "text"), Percent.percent) = State(nil, arg, SPACE, 0, "begin")
    BY PrintBegin
  <2> QED BY <1>3, <2>1, Zenon
<1>5. PICK u \in Seq(Nat) : /\ u = print_unsigned([pad |-> ZERO, min_width |-> 8], a, 16)
                            /\ Len(u) = 8 /\ ValueOf(u, 16) = a
  <2>1. PICK w \in Nat : w = 8
    OBVIOUS
  <2>2. PICK ctx : ctx = [pad |-> ZERO, min_width |-> w]
    OBVIOUS
  <2>5. ctx.pad = ZERO /\ ctx.min_width = w
    BY <2>2
  <2>3. Len(Text(a, 16)) <= w
    BY <2>1, FitsBuffer
  <2>4. \E s \in Seq(Nat) : s = print_unsigned(ctx, a, 16) /\ Len(s) = w /\ ValueOf(s, 16) = a
    BY <2>3, <2>5, HexPadded
  <2> QED BY <2>1, <2>2, <2>4, Zenon
<1>6. PICK f \in Seq(Nat) : f = <<ZERO, X>> /\ Len(f) = 2
  <2>1. <<ZERO, X>> \in Seq(Nat) /\ Len(<<ZERO, X>>) = 2
    BY DEF ZERO, X
  <2> QED BY <2>1, Zenon
<1>7. PICK z \in Seq(Nat) : z = f \o u /\ z = nil \o z /\ Len(z) = 10 /\ \A i \in 1..8 : z[2 + i] = u[i]
  <2>1. PICK x \in Seq(Nat) : /\ x = f \o u /\ Len(x) = Len(f) + Len(u)
                              /\ \A i \in 1..Len(f) : x[i] = f[i]
                              /\ \A i \in 1..Len(u) : x[Len(f) + i] = u[i]
    BY JoinedAt, Zenon
  <2>2. Len(x) = 10 /\ \A i \in 1..8 : x[2 + i] = u[i]
    <3>1. Len(f) = 2 /\ Len(u) = 8
      BY <1>5, <1>6, Zenon
    <3>2. Len(x) = 10
      BY <2>1, <3>1
    <3>3. \A i \in 1..8 : x[2 + i] = u[i]
      BY <2>1, <3>1, Zenon
    <3> QED BY <3>2, <3>3
  <2>3. x = nil \o x
    BY <1>2, <2>2
  <2> QED BY <2>1, <2>2, <2>3
<1>8. h[2] = State(z, r, SPACE, 0, "text")
  <2>1. PICK c : c = Percent.p /\ ~isdigit(c) /\ c # ZERO /\ c # Percent.l /\ Takes(c)
    BY PercentCodes
  <2>2. PrintStep(State(nil, arg, SPACE, 0, "begin"), c) =
            State(nil \o Converted(State(nil, arg, SPACE, 0, "begin"), c, Head(arg)), Tail(arg), SPACE, 0, "text")
    BY <2>1, PrintConversion
  <2>3. Head(arg) = a
    BY <1>2
  <2>4. \A ctx : Converted(ctx, c, a) = f \o u
    BY <1>5, <1>6, <2>1, ConvertedNumber, Zenon
  <2>5. PICK ctx : ctx = State(nil, arg, SPACE, 0, "begin")
    OBVIOUS
  <2>6. nil \o Converted(ctx, c, Head(arg)) = z
    BY <1>7, <2>3, <2>4, Zenon
  <2>7. h[2] = State(nil \o Converted(ctx, c, Head(arg)), Tail(arg), SPACE, 0, "text")
    BY <1>3, <1>4, <2>1, <2>2, <2>5, Zenon
  <2> QED BY <1>2, <2>6, <2>7, Zenon
<1>9. PICK s \in Seq(Nat) : s = Append(z, 58) /\ Len(s) = 11 /\ \A i \in 1..8 : s[2 + i] = u[i]
  <2>1. PICK x : x = Append(z, 58)
    OBVIOUS
  <2>2. x \in Seq(Nat) /\ Len(x) = Len(z) + 1 /\ \A i \in 1..Len(z) : x[i] = z[i]
    BY <2>1
  <2>3. Len(x) = 11 /\ \A i \in 1..8 : 2 + i \in 1..Len(z)
    BY <1>7, <2>2
  <2>4. \A i \in 1..8 : x[2 + i] = u[i]
    BY <1>7, <2>2, <2>3
  <2> QED BY <2>1, <2>2, <2>3, <2>4
<1>10. h[3].out = s
  <2>1. 58 # Percent.percent
    BY PercentCodes
  <2>2. PrintStep(State(z, r, SPACE, 0, "text"), 58) = State(Append(z, 58), r, SPACE, 0, "text")
    BY <2>1, PrintText
  <2>3. h[3] = State(s, r, SPACE, 0, "text")
    BY <1>3, <1>8, <1>9, <2>2
  <2> QED BY <2>3, StateFields
<1>11. SubSeq(s, 3, 10) = u
  <2>1. \A i \in 1..8 : 3 + i - 1 = 2 + i
    OBVIOUS
  <2>2. \A i \in 1..Len(u) : s[3 + i - 1] = u[i]
    BY <1>5, <1>9, <2>1
  <2> QED BY <1>5, <1>9, <2>2, PartOf
<1> QED BY <1>3, <1>5, <1>9, <1>10, <1>11

\* Where text k of a line of a dump begins: text 9 is longer by a blank.
Place(k) == 3 * (k - 1) + (IF k > 9 THEN 1 ELSE 0)

\* x is the first k of them.
FlattenedTo(x, ss, k) ==
    /\ x \in Seq(Nat) /\ Len(x) = Place(k + 1)
    /\ \A j \in 1..k : \A i \in 1..Len(ss[j]) : x[Place(j) + i] = ss[j][i]

Column(t, k) == t \in Seq(Nat) /\ Len(t) = IF k = 9 THEN 4 ELSE 3

\* Another one goes behind.
LEMMA FlattenMore ==
    ASSUME NEW ss, NEW k \in 1..15, NEW x, FlattenedTo(x, ss, k), \A j \in 1..16 : Column(ss[j], j)
    PROVE  FlattenedTo(x \o ss[k + 1], ss, k + 1)
<1>0. \A j \in 1..k : j \in 1..16
  OBVIOUS
<1>1. PICK t \in Seq(Nat), l \in Nat : t = ss[k + 1] /\ l = Len(t) /\ l = IF k + 1 = 9 THEN 4 ELSE 3
  <2>1. k + 1 \in 1..16
    OBVIOUS
  <2>2. Column(ss[k + 1], k + 1)
    BY <2>1
  <2>3. ss[k + 1] \in Seq(Nat) /\ Len(ss[k + 1]) = IF k + 1 = 9 THEN 4 ELSE 3
    BY <2>2, Zenon DEF Column
  <2>4. Len(ss[k + 1]) \in Nat
    BY <2>3
  <2> QED BY <2>3, <2>4, Zenon
<1>2. PICK m \in Nat, q \in Nat : /\ m = Place(k + 1) /\ q = Place(k + 2) /\ q = m + l
                                  /\ m = 3 * k + IF k + 1 > 9 THEN 1 ELSE 0
  <2>1. Place(k + 1) \in Nat /\ Place(k + 2) \in Nat /\ Place(k + 2) = Place(k + 1) + l
        /\ Place(k + 1) = 3 * k + IF k + 1 > 9 THEN 1 ELSE 0
    BY <1>1, SMTT(40) DEF Place
  <2> QED BY <2>1
<1>3. x \in Seq(Nat) /\ Len(x) = m
  BY <1>2, Zenon DEF FlattenedTo
<1>4. PICK y \in Seq(Nat) : /\ y = x \o t /\ Len(y) = Len(x) + Len(t)
                            /\ \A i \in 1..Len(x) : y[i] = x[i]
                            /\ \A i \in 1..Len(t) : y[Len(x) + i] = t[i]
  BY <1>3, JoinedAt, Zenon
<1>5. ASSUME NEW j \in 1..k, NEW i \in 1..Len(ss[j]) PROVE y[Place(j) + i] = ss[j][i]
  <2>1. Column(ss[j], j)
    BY <1>0
  <2>2. Place(j) + i \in 1..m
    <3>1. Len(ss[j]) = IF j = 9 THEN 4 ELSE 3
      BY <2>1, Zenon DEF Column
    <3>2. i \in 1..(IF j = 9 THEN 4 ELSE 3)
      BY <3>1
    <3> QED BY <1>2, <3>2 DEF Place
  <2>3. x[Place(j) + i] = ss[j][i]
    BY Zenon DEF FlattenedTo
  <2> QED BY <1>3, <1>4, <2>2, <2>3
<1>6. ASSUME NEW i \in 1..Len(ss[k + 1]) PROVE y[Place(k + 1) + i] = ss[k + 1][i]
  <2>1. i \in 1..Len(t) /\ Len(x) = Place(k + 1)
    BY <1>1, <1>2, <1>3, Zenon
  <2>2. y[Len(x) + i] = t[i]
    BY <1>4, <2>1
  <2> QED BY <1>1, <2>1, <2>2, Zenon
<1>7. Len(y) = Place((k + 1) + 1)
  <2>1. Place((k + 1) + 1) = Place(k + 2)
    <3>1. (k + 1) + 1 = k + 2
      OBVIOUS
    <3> QED BY <3>1
  <2>2. Len(y) = m + l /\ q = m + l /\ q = Place(k + 2)
    BY <1>1, <1>2, <1>3, <1>4, Zenon
  <2> QED BY <2>1, <2>2, Zenon
<1>8. \A j \in 1..(k + 1) : j \in 1..k \/ j = k + 1
  OBVIOUS
<1>9. FlattenedTo(y, ss, k + 1)
  BY <1>5, <1>6, <1>7, <1>8, Zenon DEF FlattenedTo
<1> QED BY <1>1, <1>4, <1>9, Zenon

\* So the bytes of a line have their columns.
LEMMA FlattenAt ==
    ASSUME NEW ss \in Seq(Seq(Nat)), Len(ss) = 16, \A j \in 1..16 : Column(ss[j], j)
    PROVE  FlattenedTo(FlattenSeq(ss), ss, 16)
<1>1. PICK H : FlattenGoes(H, ss)
  <2>1. Len(ss) > 0
    OBVIOUS
  <2> QED BY <2>1, FlattenChain
<1>2. /\ H[1] = ss[1] /\ FlattenSeq(ss) = H[16]
      /\ \A k \in 1..16 : k + 1 \in 1..16 => H[k + 1] = H[k] \o ss[k + 1]
  BY <1>1, Zenon DEF FlattenGoes
<1> DEFINE A == {k \in Nat : k < 16 => FlattenedTo(H[k + 1], ss, k + 1)}
<1>3. 0 \in A
  <2>1. PICK t \in Seq(Nat), e \in Nat : t = ss[1] /\ e = 1 /\ Len(t) = 3
    <3>1. Column(ss[1], 1)
      OBVIOUS
    <3>2. ss[1] \in Seq(Nat) /\ Len(ss[1]) = 3
      BY <3>1 DEF Column
    <3> QED BY <3>2
  <2>2. Place(1) = 0 /\ Place(1 + 1) = 3
    BY DEF Place
  <2>3. \A j \in 1..e : \A i \in 1..Len(ss[j]) : t[Place(j) + i] = ss[j][i]
    <3>1. SUFFICES ASSUME NEW j \in 1..e, NEW i \in 1..Len(ss[j]) PROVE t[Place(j) + i] = ss[j][i]
      OBVIOUS
    <3>2. j = 1
      BY <2>1
    <3>3. ss[j] = t /\ Place(j) = 0
      BY <2>1, <2>2, <3>2
    <3>4. i \in 1..3 /\ 0 + i = i
      <4>1. i \in 1..Len(t) /\ Len(t) = 3
        BY <2>1, <3>3, Zenon
      <4> QED BY <4>1
    <3> QED BY <3>3, <3>4
  <2>4. FlattenedTo(t, ss, e)
    BY <2>1, <2>2, <2>3, Zenon DEF FlattenedTo
  <2>5. 0 + 1 = e
    BY <2>1
  <2>6. FlattenedTo(H[0 + 1], ss, 0 + 1)
    BY <1>2, <2>1, <2>4, <2>5
  <2> QED BY <2>6
<1>4. ASSUME NEW k \in A PROVE k + 1 \in A
  <2>1. SUFFICES ASSUME k + 1 < 16 PROVE FlattenedTo(H[(k + 1) + 1], ss, (k + 1) + 1)
    OBVIOUS
  <2>2. PICK j \in 1..15 : j = k + 1 /\ j \in 1..16 /\ j + 1 \in 1..16
    <3>0. PICK i \in Nat : i = k /\ i + 1 < 16
      BY <2>1
    <3> HIDE DEF A
    <3>3. i + 1 \in 1..15 /\ i + 1 \in 1..16 /\ (i + 1) + 1 \in 1..16
      BY <3>0
    <3>1. k + 1 \in 1..15 /\ k + 1 \in 1..16 /\ (k + 1) + 1 \in 1..16
      BY <3>0, <3>3, Zenon
    <3> QED BY <3>1
  <2>3. FlattenedTo(H[j], ss, j)
    <3>1. k < 16
      BY <2>1
    <3> QED BY <2>2, <3>1
  <2>4. FlattenedTo(H[j] \o ss[j + 1], ss, j + 1)
    BY <2>3, FlattenMore
  <2> QED BY <1>2, <2>2, <2>4, Zenon
<1>5. 15 \in A
  <2>1. A \in SUBSET Nat
    OBVIOUS
  <2>2. PICK k \in Nat : k = 15
    OBVIOUS
  <2> HIDE DEF A
  <2> QED BY <1>3, <1>4, <2>1, <2>2, Induction
<1>6. 15 < 16 /\ 15 + 1 = 16
  OBVIOUS
<1> QED BY <1>2, <1>5, <1>6

\* Two characters of a text.
LEMMA TwoOf ==
    ASSUME NEW s \in Seq(Nat), NEW k \in Nat, k > 0, k + 1 <= Len(s)
    PROVE  SubSeq(s, k, k + 1) = <<s[k], s[k + 1]>>
<1>1. PICK a \in Nat, b \in Nat : a = s[k] /\ b = s[k + 1]
  <2>1. s[k] \in Nat /\ s[k + 1] \in Nat
    OBVIOUS
  <2> QED BY <2>1
<1>2. PICK t \in Seq(Nat) : t = <<a, b>> /\ Len(t) = 2 /\ t[1] = a /\ t[2] = b
  <2>1. <<a, b>> \in Seq(Nat) /\ Len(<<a, b>>) = 2 /\ <<a, b>>[1] = a /\ <<a, b>>[2] = b
    OBVIOUS
  <2> QED BY <2>1, Zenon
<1>3. \A i \in 1..Len(t) : s[k + i - 1] = t[i]
  <2>1. \A i \in 1..Len(t) : i = 1 \/ i = 2
    BY <1>2
  <2>2. k + 1 - 1 = k /\ k + 2 - 1 = k + 1
    OBVIOUS
  <2> QED BY <1>1, <1>2, <2>1, <2>2
<1>4. PICK e \in Nat : e = k + 1 /\ e - k + 1 = Len(t) /\ e <= Len(s)
  <2>1. k + 1 \in Nat /\ (k + 1) - k + 1 = Len(t)
    BY <1>2
  <2> QED BY <2>1
<1>5. SubSeq(s, k, e) = t
  BY <1>3, <1>4, PartOf
<1> QED BY <1>1, <1>2, <1>4, <1>5, Zenon

\* The text of byte i of a line.
ByteAt(m, ptr, size, i) ==
    (IF i = 8 THEN <<SPACE>> ELSE <<>>) \o
        (IF i < size THEN printf(DumpByte, <<m[ptr + i]>>) ELSE <<SPACE, SPACE, SPACE>>)

\* Where its digits are.
DigitsAt(i) == IF i = 8 THEN 3 ELSE 2

\* The text of a byte has its two digits and a space behind them.
LEMMA ByteColumn ==
    ASSUME NEW m, NEW ptr, NEW size \in Nat, NEW i \in 0..15, i < size => m[ptr + i] \in 0..255
    PROVE  \E t \in Seq(Nat) : /\ t = ByteAt(m, ptr, size, i) /\ Column(t, i + 1) /\ t[1] = SPACE
                               /\ i < size => ValueOf(<<t[DigitsAt(i)], t[DigitsAt(i) + 1]>>, 16) = m[ptr + i]
<1>1. PICK u \in Seq(Nat) :
          /\ u = (IF i < size THEN printf(DumpByte, <<m[ptr + i]>>) ELSE <<SPACE, SPACE, SPACE>>)
          /\ Len(u) = 3 /\ u[1] = SPACE
          /\ i < size => ValueOf(<<u[2], u[3]>>, 16) = m[ptr + i]
  <2>1. CASE i < size
    <3>1. PICK v \in 0..255 : v = m[ptr + i]
      BY <2>1
    <3>2. PICK u \in Seq(Nat) : /\ u = printf(DumpByte, <<v>>) /\ Len(u) = 3 /\ u[1] = SPACE
                                /\ ValueOf(SubSeq(u, 2, 3), 16) = v
      BY ByteShown
    <3>3. SubSeq(u, 2, 3) = <<u[2], u[3]>>
      <4>0. Len(u) = 3
        BY <3>2, Zenon
      <4>1. PICK k \in Nat : k = 2 /\ k > 0 /\ k + 1 = 3 /\ k + 1 <= Len(u)
        BY <4>0
      <4>2. SubSeq(u, k, k + 1) = <<u[k], u[k + 1]>>
        BY <4>1, TwoOf
      <4> QED BY <4>1, <4>2, Zenon
    <3>4. ValueOf(<<u[2], u[3]>>, 16) = v
      BY <3>2, <3>3, Zenon
    <3> QED BY <2>1, <3>1, <3>2, <3>4, Zenon
  <2>2. CASE ~(i < size)
    <3>1. <<SPACE, SPACE, SPACE>> \in Seq(Nat) /\ Len(<<SPACE, SPACE, SPACE>>) = 3 /\ <<SPACE, SPACE, SPACE>>[1] = SPACE
      BY DEF SPACE
    <3> QED BY <2>2, <3>1, Zenon
  <2> QED BY <2>1, <2>2
<1>2. CASE i # 8
  <2>1. <<>> \o u = u
    OBVIOUS
  <2>2. ByteAt(m, ptr, size, i) = u
    BY <1>1, <1>2, <2>1, Zenon DEF ByteAt
  <2>3. i + 1 # 9
    BY <1>2
  <2>4. Column(u, i + 1)
    BY <1>1, <2>3, Zenon DEF Column
  <2>5. DigitsAt(i) = 2 /\ DigitsAt(i) + 1 = 3
    BY <1>2 DEF DigitsAt
  <2> QED BY <1>1, <2>2, <2>4, <2>5, Zenon
<1>3. CASE i = 8
  <2>1. PICK b \in Seq(Nat) : b = <<SPACE>> /\ Len(b) = 1 /\ b[1] = SPACE
    <3>1. <<SPACE>> \in Seq(Nat) /\ Len(<<SPACE>>) = 1 /\ <<SPACE>>[1] = SPACE
      BY DEF SPACE
    <3> QED BY <3>1, Zenon
  <2>2. PICK t \in Seq(Nat) : /\ t = b \o u /\ Len(t) = Len(b) + Len(u)
                              /\ \A j \in 1..Len(b) : t[j] = b[j]
                              /\ \A j \in 1..Len(u) : t[Len(b) + j] = u[j]
    BY JoinedAt, Zenon
  <2>3. ByteAt(m, ptr, size, i) = t
    BY <1>1, <1>3, <2>1, <2>2, Zenon DEF ByteAt
  <2>4. Len(b) = 1 /\ Len(u) = 3
    BY <1>1, <2>1, Zenon
  <2>5. /\ 1 \in 1..Len(b) /\ 2 \in 1..Len(u) /\ 3 \in 1..Len(u)
        /\ Len(b) + Len(u) = 4 /\ Len(b) + 2 = 3 /\ Len(b) + 3 = 4
    BY <2>4
  <2>6. Len(t) = 4 /\ t[1] = SPACE /\ t[3] = u[2] /\ t[4] = u[3]
    <3>1. t[1] = b[1] /\ t[Len(b) + 2] = u[2] /\ t[Len(b) + 3] = u[3]
      BY <2>2, <2>5, Zenon
    <3> QED BY <2>1, <2>2, <2>5, <3>1, Zenon
  <2>7. Column(t, i + 1)
    BY <1>3, <2>6 DEF Column
  <2>8. DigitsAt(i) = 3 /\ DigitsAt(i) + 1 = 4
    BY <1>3 DEF DigitsAt
  <2> QED BY <1>1, <2>3, <2>6, <2>7, <2>8, Zenon
<1> QED BY <1>2, <1>3

\* x is p with t behind it.
Joins(x, p, t) ==
    /\ x \in Seq(Nat) /\ x = p \o t /\ Len(x) = Len(p) + Len(t)
    /\ \A i \in 1..Len(p) : x[i] = p[i]
    /\ \A i \in 1..Len(t) : x[Len(p) + i] = t[i]

\* A text with another one behind it keeps both.
LEMMA Joining ==
    ASSUME NEW p \in Seq(Nat), NEW t \in Seq(Nat)
    PROVE  Joins(p \o t, p, t)
BY JoinedAt, Zenon DEF Joins

\* A function of the first numbers is a sequence.
Counts(f, T, k) == f = [i \in 1..k |-> f[i]] /\ \A i \in 1..k : f[i] \in T

\* It has its values in order.
LEMMA CountsSeq ==
    ASSUME NEW T, NEW k \in Nat, NEW f, Counts(f, T, k)
    PROVE  f \in Seq(T) /\ Len(f) = k
<1>1. f = [i \in 1..k |-> f[i]] /\ \A i \in 1..k : f[i] \in T
  BY Zenon DEF Counts
<1>2. [i \in 1..k |-> f[i]] \in Seq(T) /\ Len([i \in 1..k |-> f[i]]) = k
  BY <1>1
<1> QED BY <1>1, <1>2

\* A text of a length.
Long(s, k) == s \in Seq(Nat) /\ Len(s) = k

\* A line of a dump.
LineOf(adr, F, sp, txt, e) == adr \o F \o sp \o txt \o e

LineIs(l, adr, F, sp) ==
    /\ l \in Seq(Nat) /\ Len(l) >= 62 /\ \A i \in 1..11 : l[i] = adr[i]
    /\ (\A i \in 1..49 : l[11 + i] = F[i]) /\ l[61] = sp[1]

\* The parts of a line stand one behind the other.
LEMMA LineParts ==
    ASSUME NEW adr \in Seq(Nat), Long(adr, 11), NEW F \in Seq(Nat), Long(F, 49),
           NEW sp \in Seq(Nat), Long(sp, 2), NEW txt \in Seq(Nat), NEW e \in Seq(Nat), NEW l,
           l = LineOf(adr, F, sp, txt, e)
    PROVE  LineIs(l, adr, F, sp)
<1>1. PICK x : Joins(x, adr, F)
  BY Joining
<1>2. PICK y : Joins(y, x, sp)
  <2>1. x \in Seq(Nat)
    BY <1>1, Zenon DEF Joins
  <2> QED BY <2>1, Joining
<1>3. PICK z : Joins(z, y, txt)
  <2>1. y \in Seq(Nat)
    BY <1>2, Zenon DEF Joins
  <2> QED BY <2>1, Joining
<1>4. PICK w : Joins(w, z, e)
  <2>1. z \in Seq(Nat)
    BY <1>3, Zenon DEF Joins
  <2> QED BY <2>1, Joining
<1>5. l = w
  BY <1>1, <1>2, <1>3, <1>4, Zenon DEF LineOf, Joins
<1>12. Len(adr) = 11 /\ Len(F) = 49 /\ Len(sp) = 2
  BY DEF Long
<1>6. Len(x) = 60 /\ Len(y) = 62 /\ Len(z) >= 62 /\ Len(w) >= 62
  <2>1. Len(txt) \in Nat /\ Len(e) \in Nat
    OBVIOUS
  <2>2. Len(x) = 60
    BY <1>1, <1>12 DEF Joins
  <2>3. Len(y) = 62
    BY <1>2, <1>12, <2>2 DEF Joins
  <2>4. Len(z) >= 62
    BY <1>3, <2>1, <2>3 DEF Joins
  <2> QED BY <1>4, <2>1, <2>2, <2>3, <2>4 DEF Joins
<1>7. \A i \in 1..62 : w[i] = y[i]
  <2>1. \A i \in 1..62 : i \in 1..Len(z) /\ i \in 1..Len(y)
    <3>1. PICK a \in Nat, b \in Nat : a = Len(z) /\ b = Len(y)
      BY <1>2, <1>3 DEF Joins
    <3>2. a >= 62 /\ b = 62
      BY <1>6, <3>1
    <3> QED BY <3>1, <3>2
  <2> QED BY <1>3, <1>4, <2>1, Zenon DEF Joins
<1>8. \A i \in 1..60 : w[i] = x[i]
  <2>1. \A i \in 1..60 : i \in 1..62 /\ i \in 1..Len(x)
    BY <1>6
  <2> QED BY <1>2, <1>7, <2>1, Zenon DEF Joins
<1>9. \A i \in 1..11 : w[i] = adr[i]
  <2>1. \A i \in 1..11 : i \in 1..60 /\ i \in 1..Len(adr)
    BY <1>12
  <2> QED BY <1>1, <1>8, <2>1, Zenon DEF Joins
<1>10. \A i \in 1..49 : w[11 + i] = F[i]
  <2>1. \A i \in 1..49 : 11 + i \in 1..60 /\ i \in 1..Len(F) /\ Len(adr) + i = 11 + i
    BY <1>12
  <2>2. ASSUME NEW i \in 1..49 PROVE w[11 + i] = F[i]
    <3>1. w[11 + i] = x[11 + i] /\ x[Len(adr) + i] = F[i]
      BY <1>1, <1>8, <2>1, Zenon DEF Joins
    <3> QED BY <2>1, <3>1
  <2> QED BY <2>2
<1>11. w[61] = sp[1]
  <2>1. 61 \in 1..62 /\ 1 \in 1..Len(sp) /\ Len(x) + 1 = 61
    BY <1>6, <1>12
  <2>2. w[61] = y[61] /\ y[Len(x) + 1] = sp[1]
    BY <1>2, <1>7, <2>1, Zenon DEF Joins
  <2> QED BY <2>1, <2>2
<1>13. w \in Seq(Nat)
  BY <1>4, Zenon DEF Joins
<1> QED BY <1>13, <1>5, <1>6, <1>9, <1>10, <1>11 DEF LineIs
\* The address is read there.
LEMMA AddressKept ==
    ASSUME NEW adr \in Seq(Nat), Long(adr, 11), NEW F, NEW sp, NEW l, LineIs(l, adr, F, sp)
    PROVE  SubSeq(l, 3, 10) = SubSeq(adr, 3, 10)
<1>11. l \in Seq(Nat) /\ Len(l) >= 62 /\ \A i \in 1..11 : l[i] = adr[i]
  BY DEF LineIs
<1>1. PICK t \in Seq(Nat) : t = SubSeq(adr, 3, 10) /\ Len(t) = 8 /\ \A i \in 1..8 : t[i] = adr[3 + i - 1]
  <2>1. Len(adr) = 11
    BY Zenon DEF Long
  <2>2. PICK k \in Nat, e2 \in Nat, o \in Nat :
            k = 3 /\ e2 = 10 /\ o = 8 /\ k > 0 /\ e2 <= Len(adr) /\ e2 - k + 1 = o
    BY <2>1
  <2>3. PICK t \in Seq(Nat) : t = SubSeq(adr, k, e2) /\ Len(t) = o /\ \A i \in 1..o : t[i] = adr[k + i - 1]
    <3>1. k > 0 /\ e2 <= Len(adr) /\ e2 - k + 1 = o
      BY <2>2
    <3>2. PartIs(SubSeq(adr, k, e2), adr, k, o)
      BY <3>1, PartSeq
    <3> QED BY <3>2, Zenon DEF PartIs
  <2> QED BY <2>2, <2>3
<1>2. PICK k \in Nat, e2 \in Nat : k = 3 /\ k > 0 /\ e2 = 10 /\ e2 <= Len(l) /\ e2 - k + 1 = Len(t)
  <2>1. Len(l) >= 62 /\ Len(t) = 8 /\ Len(l) \in Nat
    BY <1>11, <1>1
  <2> QED BY <2>1
<1>3. \A i \in 1..Len(t) : l[k + i - 1] = t[i]
  <2>1. \A i \in 1..8 : 3 + i - 1 \in 1..11
    OBVIOUS
  <2>2. \A i \in 1..8 : l[3 + i - 1] = adr[3 + i - 1]
    BY <1>11, <2>1, Zenon
  <2>3. Len(t) = 8
    BY <1>1
  <2> QED BY <1>1, <1>2, <2>2, <2>3
<1>4. SubSeq(l, k, e2) = t
  <2>1. l \in Seq(Nat)
    BY <1>11
  <2> QED BY <1>2, <1>3, <2>1, PartOf
<1> QED BY <1>1, <1>2, <1>4, Zenon

\* A line of a dump shows its address and its bytes.
LineRight(l, m, ptr, size) ==
    /\ ValueOf(SubSeq(l, 3, 10), 16) = ptr
    /\ \A i \in 0..15 : i < size =>
           LET c == 13 + 3 * i + (IF i < 8 THEN 0 ELSE 1)
           IN  ValueOf(SubSeq(l, c, c + 1), 16) = m[ptr + i] /\ l[c + 2] = SPACE

\* hexdump() prints such lines, for every piece of memory of up to 16 bytes.
LEMMA DumpLineRight ==
    ASSUME NEW m, NEW ptr \in Nat, ptr <= 2 * INT32_MAX + 1, NEW size \in Nat,
           \A i \in 0..15 : i < size => m[ptr + i] \in 0..255
    PROVE  LineRight(DumpLine(m, ptr, size), m, ptr, size)
<1>1. PICK adr \in Seq(Nat) : /\ adr = printf(DumpAddress, <<ptr>>) /\ Long(adr, 11)
                              /\ ValueOf(SubSeq(adr, 3, 10), 16) = ptr
  <2>1. PICK s \in Seq(Nat) : /\ s = printf(DumpAddress, <<ptr>>) /\ Len(s) = 11
                              /\ ValueOf(SubSeq(s, 3, 10), 16) = ptr
    BY AddressShown, SMTT(40)
  <2> QED BY <2>1, Zenon DEF Long
<1> DEFINE ss == [k \in 1..16 |-> ByteAt(m, ptr, size, k - 1)]
<1>2. ASSUME NEW i \in 0..15
      PROVE  \E t \in Seq(Nat) : /\ t = ByteAt(m, ptr, size, i) /\ Column(t, i + 1) /\ t[1] = SPACE
                                 /\ i < size => ValueOf(<<t[DigitsAt(i)], t[DigitsAt(i) + 1]>>, 16) = m[ptr + i]
  BY ByteColumn
<1>3. \A k \in 1..16 : ss[k] = ByteAt(m, ptr, size, k - 1) /\ k - 1 \in 0..15 /\ (k - 1) + 1 = k
  OBVIOUS
<1>4. \A k \in 1..16 : Column(ss[k], k) /\ ss[k][1] = SPACE
  <2>1. ASSUME NEW k \in 1..16 PROVE Column(ss[k], k) /\ ss[k][1] = SPACE
    <3>1. PICK i \in 0..15 : i = k - 1 /\ i + 1 = k /\ ss[k] = ByteAt(m, ptr, size, i)
      BY <1>3
    <3>2. PICK t : t = ByteAt(m, ptr, size, i) /\ Column(t, i + 1) /\ t[1] = SPACE
      BY <1>2, Zenon
    <3> HIDE DEF ss
    <3> QED BY <3>1, <3>2, Zenon
  <2> QED BY <2>1
<1>5. \A i \in 0..15 : i < size =>
          ValueOf(<<ss[i + 1][DigitsAt(i)], ss[i + 1][DigitsAt(i) + 1]>>, 16) = m[ptr + i]
  <2>1. ASSUME NEW i \in 0..15, i < size
        PROVE  ValueOf(<<ss[i + 1][DigitsAt(i)], ss[i + 1][DigitsAt(i) + 1]>>, 16) = m[ptr + i]
    <3>1. PICK k \in 1..16 : k = i + 1 /\ k - 1 = i
      OBVIOUS
    <3>2. ss[i + 1] = ByteAt(m, ptr, size, i)
      BY <1>3, <3>1
    <3> HIDE DEF ss
    <3> QED BY <1>2, <2>1, <3>2, Zenon
  <2> QED BY <2>1
<1>6. ss \in Seq(Seq(Nat)) /\ Len(ss) = 16
  <2>1. PICK T : T = Seq(Nat)
    OBVIOUS
  <2>2. \A k \in 1..16 : ss[k] \in T
    <3> HIDE DEF ss
    <3> QED BY <1>4, <2>1, Zenon DEF Column
  <2>3. ss = [k \in 1..16 |-> ss[k]] /\ 16 \in Nat
    OBVIOUS
  <2> HIDE DEF ss
  <2>4. Counts(ss, T, 16)
    BY <2>2, <2>3, ZenonT(60) DEF Counts
  <2>5. ss \in Seq(T) /\ Len(ss) = 16
    BY <2>3, <2>4, CountsSeq
  <2> QED BY <2>1, <2>5
<1> HIDE DEF ss
<1>7. PICK F \in Seq(Nat) : F = FlattenSeq(ss) /\ Long(F, 49) /\ FlattenedTo(F, ss, 16)
  <2>1. FlattenedTo(FlattenSeq(ss), ss, 16)
    BY <1>4, <1>6, FlattenAt
  <2>2. PICK F : F = FlattenSeq(ss)
    OBVIOUS
  <2>3. F \in Seq(Nat) /\ Len(F) = Place(16 + 1)
    BY <2>1, <2>2, Zenon DEF FlattenedTo
  <2>4. Place(16 + 1) = 49
    BY DEF Place
  <2> QED BY <2>1, <2>2, <2>3, <2>4, Zenon DEF Long
<1>8. PICK sp \in Seq(Nat), e \in Seq(Nat) :
          sp = <<SPACE, 124>> /\ e = <<124, NL>> /\ Long(sp, 2) /\ sp[1] = SPACE
  <2>1. /\ <<SPACE, 124>> \in Seq(Nat) /\ <<124, NL>> \in Seq(Nat) /\ Len(<<SPACE, 124>>) = 2
        /\ <<SPACE, 124>>[1] = SPACE
    BY DEF SPACE, NL
  <2>2. Long(<<SPACE, 124>>, 2)
    BY <2>1 DEF Long
  <2> QED BY <2>1, <2>2
<1> DEFINE txt == [i \in 1..Min({16, size}) |-> IF isprint(m[ptr + i - 1]) THEN m[ptr + i - 1] ELSE 46]
<1>9. txt \in Seq(Nat)
  <2>1. PICK k \in Nat : k = Min({16, size}) /\ k <= 16 /\ k <= size
    <3>1. {16, size} \in SUBSET Nat /\ {16, size} # {}
      OBVIOUS
    <3>2. PICK k : k = Min({16, size})
      OBVIOUS
    <3>3. k \in {16, size} /\ \A a \in {16, size} : k <= a
      BY <3>1, <3>2, MinOfSet, ZenonT(60)
    <3>4. k \in Nat /\ k <= 16 /\ k <= size
      BY <3>3
    <3> QED BY <3>2, <3>4
  <2>2. \A i \in 1..k : m[ptr + i - 1] \in Nat
    <3>1. ASSUME NEW i \in 1..k PROVE m[ptr + i - 1] \in Nat
      <4>1. PICK j \in 0..15 : j < size /\ ptr + j = ptr + i - 1
        <5>1. i - 1 \in 0..15 /\ i - 1 < size /\ ptr + (i - 1) = ptr + i - 1
          BY <2>1
        <5> QED BY <5>1
      <4>2. PICK v \in 0..255 : v = m[ptr + j]
        BY <4>1
      <4>3. v \in Nat
        OBVIOUS
      <4>4. m[ptr + i - 1] = v
        BY <4>1, <4>2, Zenon
      <4> QED BY <4>3, <4>4
    <3> QED BY <3>1
  <2>3. \A i \in 1..k : (IF isprint(m[ptr + i - 1]) THEN m[ptr + i - 1] ELSE 46) \in Nat
    BY <2>2
  <2>4. txt = [i \in 1..k |-> IF isprint(m[ptr + i - 1]) THEN m[ptr + i - 1] ELSE 46]
    BY <2>1, Zenon
  <2>5. \A i \in 1..k : txt[i] \in Nat
    BY <2>3, <2>4, Zenon
  <2>6. txt = [i \in 1..k |-> txt[i]]
    BY <2>4, ZenonT(60)
  <2> HIDE DEF txt
  <2>7. Counts(txt, Nat, k)
    BY <2>5, <2>6, Zenon DEF Counts
  <2> QED BY <2>7, CountsSeq
<1>10. PICK l : l = DumpLine(m, ptr, size) /\ l = LineOf(adr, F, sp, txt, e)
  <2>1. DumpLine(m, ptr, size) = LineOf(adr, F, sp, txt, e)
    BY <1>1, <1>7, <1>8, Zenon DEF DumpLine, LineOf, ss, ByteAt
  <2> QED BY <2>1
<1> HIDE DEF txt
<1>11. /\ LineIs(l, adr, F, sp)
       /\ l \in Seq(Nat) /\ Len(l) >= 62 /\ \A i \in 1..11 : l[i] = adr[i]
       /\ (\A i \in 1..49 : l[11 + i] = F[i]) /\ l[61] = sp[1]
  <2>1. PICK y \in Seq(Nat) : y = txt
    BY <1>9
  <2>2. l = LineOf(adr, F, sp, y, e)
    BY <1>10, <2>1, Zenon
  <2>3. Long(adr, 11) /\ Long(F, 49) /\ Long(sp, 2)
    BY <1>1, <1>7, <1>8, Zenon
  <2>4. LineIs(l, adr, F, sp)
    BY <2>2, <2>3, LineParts, Zenon
  <2>5. /\ l \in Seq(Nat) /\ Len(l) >= 62 /\ \A i \in 1..11 : l[i] = adr[i]
        /\ (\A i \in 1..49 : l[11 + i] = F[i]) /\ l[61] = sp[1]
    BY <2>4 DEF LineIs
  <2> QED BY <2>4, <2>5
<1>12. ValueOf(SubSeq(l, 3, 10), 16) = ptr
  <2>1. SubSeq(l, 3, 10) = SubSeq(adr, 3, 10)
    BY <1>1, <1>11, AddressKept, Zenon
  <2> QED BY <1>1, <2>1, Zenon
<1>13. ASSUME NEW i \in 0..15, i < size, NEW c, c = 13 + 3 * i + (IF i < 8 THEN 0 ELSE 1)
       PROVE  ValueOf(SubSeq(l, c, c + 1), 16) = m[ptr + i] /\ l[c + 2] = SPACE
  <2>1. PICK k \in 1..16, d \in 2..3, b \in Nat :
            /\ k = i + 1 /\ d = DigitsAt(i) /\ b = Place(k)
            /\ c = 11 + (b + d) /\ c + 1 = 11 + (b + (d + 1)) /\ c \in Nat /\ c > 0 /\ c + 1 <= 61
            /\ b + d \in 1..49 /\ b + (d + 1) \in 1..49
            /\ d + 1 = IF k = 9 THEN 4 ELSE 3
    <3>1. PICK k \in 1..16 : k = i + 1
      OBVIOUS
    <3>2. PICK d \in 2..3 : d = DigitsAt(i) /\ d = IF i = 8 THEN 3 ELSE 2
      BY DEF DigitsAt
    <3>3. PICK b \in Nat : b = Place(k) /\ b = 3 * i + IF i > 8 THEN 1 ELSE 0
      <4>1. Place(k) \in Nat /\ Place(k) = 3 * i + IF i > 8 THEN 1 ELSE 0
        BY <3>1 DEF Place
      <4> QED BY <4>1
    <3>4. c = 11 + (b + d) /\ c + 1 = 11 + (b + (d + 1)) /\ c \in Nat /\ c > 0 /\ c + 1 <= 61
      <4>1. PICK i2 \in 0..15 : i2 = i /\ c = 13 + 3 * i2 + (IF i2 < 8 THEN 0 ELSE 1)
        BY <1>13
      <4>2. CASE i2 < 8
        BY <3>2, <3>3, <4>1, <4>2
      <4>3. CASE i2 = 8
        BY <3>2, <3>3, <4>1, <4>3
      <4>4. CASE i2 > 8
        BY <3>2, <3>3, <4>1, <4>4
      <4> QED BY <4>2, <4>3, <4>4
    <3>5. b + d \in 1..49 /\ b + (d + 1) \in 1..49
      BY <3>2, <3>3
    <3>6. d + 1 = IF k = 9 THEN 4 ELSE 3
      BY <3>1, <3>2
    <3> QED BY <3>1, <3>2, <3>3, <3>4, <3>5, <3>6
  <2>2. PICK t \in Seq(Nat) : /\ t = ss[k] /\ d \in 1..Len(t) /\ d + 1 \in 1..Len(t)
                              /\ \A j \in 1..Len(t) : F[b + j] = t[j]
    <3>1. Column(ss[k], k)
      BY <1>4
    <3>2. ss[k] \in Seq(Nat) /\ Len(ss[k]) = IF k = 9 THEN 4 ELSE 3
      BY <3>1, Zenon DEF Column
    <3>3. \A j \in 1..Len(ss[k]) : F[b + j] = ss[k][j]
      BY <1>7, <2>1, Zenon DEF FlattenedTo
    <3>4. d \in 1..Len(ss[k]) /\ d + 1 \in 1..Len(ss[k])
      <4>1. PICK o \in Nat : o = Len(ss[k]) /\ o = IF k = 9 THEN 4 ELSE 3
        BY <3>2
      <4>2. d + 1 = o
        BY <2>1, <4>1
      <4>3. d \in 1..o /\ d + 1 \in 1..o
        BY <4>2
      <4> QED BY <4>1, <4>3, Zenon
    <3> QED BY <3>2, <3>3, <3>4
  <2>3. l[c] = t[d] /\ l[c + 1] = t[d + 1]
    <3>1. l[11 + (b + d)] = F[b + d] /\ l[11 + (b + (d + 1))] = F[b + (d + 1)]
      BY <1>11, <2>1, Zenon
    <3>2. F[b + d] = t[d] /\ F[b + (d + 1)] = t[d + 1]
      BY <2>2, Zenon
    <3> QED BY <2>1, <3>1, <3>2, Zenon
  <2>4. ValueOf(SubSeq(l, c, c + 1), 16) = m[ptr + i]
    <3>1. SubSeq(l, c, c + 1) = <<l[c], l[c + 1]>>
      <4>0. Len(l) >= 62 /\ Len(l) \in Nat /\ l \in Seq(Nat)
        BY <1>11
      <4>1. c \in Nat /\ c > 0 /\ c + 1 <= 61
        BY <2>1, Zenon
      <4>2. c + 1 <= Len(l)
        BY <4>0, <4>1
      <4> QED BY <4>0, <4>1, <4>2, TwoOf
    <3>2. ValueOf(<<t[d], t[d + 1]>>, 16) = m[ptr + i]
      BY <1>5, <1>13, <2>1, <2>2, Zenon
    <3> QED BY <2>3, <3>1, <3>2, Zenon
  <2>5. CASE i = 15
    <3>1. c + 2 = 61
      BY <1>13, <2>5
    <3> QED BY <1>8, <1>11, <2>4, <3>1, Zenon
  <2>6. CASE i # 15
    <3>1. PICK j \in 1..16, o \in Nat : j = k + 1 /\ o = Place(j) /\ c + 2 = 11 + (o + 1) /\ o + 1 \in 1..49
      <4>1. PICK j \in 1..16 : j = i + 2 /\ j = k + 1
        BY <2>1, <2>6
      <4>2. PICK o \in Nat : o = Place(j) /\ o = 3 * i + 3 + IF i > 7 THEN 1 ELSE 0
        <5>1. Place(j) \in Nat /\ Place(j) = 3 * i + 3 + IF i > 7 THEN 1 ELSE 0
          BY <4>1 DEF Place
        <5> QED BY <5>1
      <4>3. c + 2 = 11 + (o + 1) /\ o + 1 \in 1..49
        BY <1>13, <2>6, <4>2
      <4> QED BY <4>1, <4>2, <4>3
    <3>2. 1 \in 1..Len(ss[j]) /\ ss[j][1] = SPACE
      <4>1. Column(ss[j], j) /\ ss[j][1] = SPACE
        BY <1>4
      <4>2. Len(ss[j]) = IF j = 9 THEN 4 ELSE 3
        BY <4>1, Zenon DEF Column
      <4> QED BY <4>1, <4>2
    <3>3. F[o + 1] = ss[j][1]
      BY <1>7, <3>1, <3>2, Zenon DEF FlattenedTo
    <3>4. l[11 + (o + 1)] = F[o + 1]
      BY <1>11, <3>1, Zenon
    <3> QED BY <2>4, <3>1, <3>2, <3>3, <3>4, Zenon
  <2> QED BY <2>5, <2>6
<1>14. LineRight(l, m, ptr, size)
  BY <1>12, <1>13, Zenon DEF LineRight
<1> QED BY <1>10, <1>14, Zenon

\* The line of some bytes of a dump.
LEMMA HexdumpLine ==
    ASSUME NEW v \in Nat, v <= ULONG_MAX, NEW m, \A a \in 0..(v + 2) : m[a] \in 0..255,
           NEW q \in Nat, 16 * q < v
    PROVE  LineRight(hexdump(m, 3, v)[q + 1], m, 3 + 16 * q, v - 16 * q)
<1>1. PICK k \in Nat, ptr \in Nat, size \in Nat :
          /\ k = q + 1 /\ k > 0 /\ 16 * (k - 1) = 16 * q /\ ptr = 3 + 16 * q /\ size = v - 16 * q
          /\ ptr + size = v + 3
  <2>1. /\ q + 1 \in Nat /\ q + 1 > 0 /\ 16 * ((q + 1) - 1) = 16 * q /\ 3 + 16 * q \in Nat /\ v - 16 * q \in Nat
        /\ (3 + 16 * q) + (v - 16 * q) = v + 3
    OBVIOUS
  <2> QED BY <2>1
<1>2. PICK len \in Nat : len = (v + 15) \div 16 /\ k \in 1..len
  <2>1. (v + 15) \div 16 \in Nat /\ k <= (v + 15) \div 16
    BY <1>1
  <2> QED BY <1>1, <2>1
<1>3. hexdump(m, 3, v)[k] = DumpLine(m, ptr, size)
  <2>1. PICK ls : ls = hexdump(m, 3, v)
    OBVIOUS
  <2>2. ls = [j \in 1..len |-> DumpLine(m, 3 + 16 * (j - 1), v - 16 * (j - 1))]
    BY <1>2, <2>1, Zenon DEF hexdump
  <2>3. ls[k] = DumpLine(m, 3 + 16 * (k - 1), v - 16 * (k - 1))
    BY <1>2, <2>2, Zenon
  <2>4. 3 + 16 * (k - 1) = ptr /\ v - 16 * (k - 1) = size
    BY <1>1
  <2> QED BY <2>1, <2>3, <2>4, Zenon
<1>4. ptr <= 2 * INT32_MAX + 1
  <2>1. v <= 2 * INT32_MAX + 1
    BY LibraryAssumption, AddressAssumption, FitsBuffer DEF ULONG_MAX
  <2>2. 2 * INT32_MAX + 1 = 4294967295
    BY SMT DEF INT32_MAX
  <2>3. 16 * q < 4294967295
    BY SMT, <2>1, <2>2
  <2>4. 3 + 16 * q <= 4294967295
    BY SMT, <2>3
  <2> QED BY SMT, <1>1, <2>2, <2>4
<1>5. \A i \in 0..15 : i < size => m[ptr + i] \in 0..255
  <2>1. ASSUME NEW i \in 0..15, i < size PROVE m[ptr + i] \in 0..255
    <3>1. ptr + i \in 0..(v + 2)
      BY <1>1, <2>1
    <3> QED BY <3>1
  <2> QED BY <2>1
<1>6. LineRight(DumpLine(m, ptr, size), m, ptr, size)
  BY <1>4, <1>5, DumpLineRight
<1> QED BY <1>1, <1>3, <1>6, Zenon

\* Every byte is in its line and column.
LEMMA DumpRight ==
    ASSUME NEW v \in Nat, v <= ULONG_MAX, NEW m, \A a \in 0..(v + 2) : m[a] \in 0..255,
           NEW lines, lines = hexdump(m, 3, v)
    PROVE  Len(lines) = (v + 15) \div 16 /\ \A i \in 0..(v - 1) : DumpedRight(m, 3, lines, i)
<1>1. Len(lines) = (v + 15) \div 16
  <2>1. PICK len \in Nat : len = (v + 15) \div 16
    OBVIOUS
  <2>2. lines = [j \in 1..len |-> DumpLine(m, 3 + 16 * (j - 1), v - 16 * (j - 1))]
    BY <2>1, Zenon DEF hexdump
  <2> QED BY <2>1, <2>2
<1>2. ASSUME NEW i \in 0..(v - 1) PROVE DumpedRight(m, 3, lines, i)
  <2>1. PICK q \in Nat, r \in 0..15 :
            /\ q = i \div 16 /\ r = i % 16 /\ i = 16 * q + r /\ 16 * q < v /\ r < v - 16 * q
            /\ 3 + i - r = 3 + 16 * q /\ 3 + i = (3 + 16 * q) + r
    <3>1. PICK b \in Bases : b = 16
      BY DEF Bases
    <3>2. PICK q \in Nat, r \in 0..15 : q = i \div 16 /\ r = i % 16 /\ i = 16 * q + r
      <4>1. i \in Nat
        OBVIOUS
      <4>2. PICK q \in Nat, r \in 0..(b - 1) :
                /\ i \div b = q /\ i % b = r /\ i = q * b + r
                /\ i > 0 => q < i
                /\ i >= b => q > 0
        BY <4>1, Quotient
      <4>3. r \in 0..15 /\ i = 16 * q + r
        BY <3>1, <4>2
      <4> QED BY <3>1, <4>2, <4>3
    <3>3. /\ 16 * q < v /\ r < v - 16 * q
          /\ 3 + i - r = 3 + 16 * q /\ 3 + i = (3 + 16 * q) + r
      BY <3>2
    <3> QED BY <3>2, <3>3
  <2>2. PICK l : l = lines[q + 1]
    OBVIOUS
  <2>3. LineRight(l, m, 3 + 16 * q, v - 16 * q)
    BY <2>1, <2>2, HexdumpLine
  <2>4. PICK c : c = 13 + 3 * r + (IF r < 8 THEN 0 ELSE 1)
    OBVIOUS
  <2>5. /\ ValueOf(SubSeq(l, 3, 10), 16) = 3 + 16 * q
        /\ ValueOf(SubSeq(l, c, c + 1), 16) = m[(3 + 16 * q) + r] /\ l[c + 2] = SPACE
    BY <2>1, <2>3, <2>4, Zenon DEF LineRight
  <2>6. /\ ValueOf(SubSeq(l, 3, 10), 16) = 3 + i - r
        /\ ValueOf(SubSeq(l, c, c + 1), 16) = m[3 + i] /\ l[c + 2] = SPACE
    BY <2>1, <2>5, Zenon
  <2> QED BY <2>1, <2>2, <2>4, <2>6, Zenon DEF DumpedRight
<1> QED BY <1>1, <1>2

\* The digits of a word of 32 bits and a sign have room in the buffer.
LEMMA BufferHolds == \A b \in {8, 10} : Len(NumberText(b = 10, INT32_MAX, b, 97)) < PRINT_BUFFER
<1>1. PICK i \in Nat : i = INT32_MAX
  BY FitsBuffer
<1>2. ASSUME NEW b, b = 8 PROVE Len(NumberText(b = 10, i, b, 97)) < PRINT_BUFFER
  <2>1. (b = 10) = FALSE
    BY <1>2
  <2>2. NumberText(b = 10, i, b, 97) = Text(i, 8)
    BY <1>2, <2>1 DEF Text
  <2>3. Len(Text(i, 8)) <= 11
    BY <1>1, FitsBuffer
  <2>4. 8 \in Bases
    BY DEF Bases
  <2>5. Text(i, 8) \in Seq(Char)
    BY <2>4, TextSteps
  <2> QED BY <2>2, <2>3, <2>5 DEF PRINT_BUFFER
<1>3. ASSUME NEW b, b = 10 PROVE Len(NumberText(b = 10, i, b, 97)) < PRINT_BUFFER
  <2>1. (b = 10) = TRUE
    BY <1>3
  <2>2. 10 \in Bases
    BY DEF Bases
  <2>3. PICK t \in Seq(Char) : t = Text(i, 10) /\ NumberText(TRUE, i, 10, 97) = <<MINUS>> \o t
    BY <2>2, TextSteps
  <2>4. Len(t) <= 10
    BY <1>1, <2>3, FitsBuffer
  <2>5. Len(<<MINUS>> \o t) = 1 + Len(t)
    OBVIOUS
  <2>6. NumberText(b = 10, i, b, 97) = <<MINUS>> \o t
    BY <1>3, <2>1, <2>3
  <2> QED BY <2>4, <2>5, <2>6 DEF PRINT_BUFFER
<1> QED BY <1>1, <1>2, <1>3

\* What is printed can be read back, for every number that a word holds.
LEMMA PrintedReads ==
    ASSUME number \in Nat \cup {NULL}
    PROVE  PrintedReadsBack
<1> SUFFICES ASSUME number \in 0..ULONG_MAX PROVE PrintedReadsBack
  BY Zenon DEF PrintedReadsBack
<1>1. PICK v \in Nat : v = number /\ v <= ULONG_MAX
  <2>1. ULONG_MAX \in Nat
    BY LibraryAssumption DEF ULONG_MAX
  <2> QED BY <2>1
<1>2. ASSUME NEW w \in 0..4, NEW f \in {<<Percent.u, 10>>, <<Percent.x, 16>>, <<Percent.o, 8>>}
      PROVE  /\ PrintedRight(Printed(FALSE, w, f[1], v), f[2], w, SPACE, v)
             /\ w > 0 => PrintedRight(Printed(TRUE, w, f[1], v), f[2], w, ZERO, v)
  BY NumbersPrinted
<1>3. Printed(FALSE, 0, Percent.d, -v) = NumberText(v > 0, v, 10, 97)
  BY <1>1, NegativePrinted
<1> DEFINE m == [a \in 0..(v + 2) |-> (a * 11 + 3) % 256]
           lines == hexdump(m, 3, v)
<1>4. Len(lines) = (v + 15) \div 16 /\ \A i \in 0..(v - 1) : DumpedRight(m, 3, lines, i)
  <2>1. \A a \in 0..(v + 2) : m[a] \in 0..255
    <3>1. \A a \in 0..(v + 2) : (a * 11 + 3) % 256 \in 0..255
      OBVIOUS
    <3>2. \A a \in 0..(v + 2) : m[a] = (a * 11 + 3) % 256
      OBVIOUS
    <3> HIDE DEF m
    <3> QED BY <3>1, <3>2
  <2>2. PICK k : k = m
    OBVIOUS
  <2>3. \A a \in 0..(v + 2) : k[a] \in 0..255
    BY <2>1, <2>2, Zenon
  <2>4. PICK ls : ls = hexdump(k, 3, v)
    OBVIOUS
  <2>5. Len(ls) = (v + 15) \div 16 /\ \A i \in 0..(v - 1) : DumpedRight(k, 3, ls, i)
    BY <1>1, <2>3, <2>4, DumpRight
  <2> QED BY <2>2, <2>4, <2>5, Zenon
<1> QED BY <1>1, <1>2, <1>3, <1>4, BufferHolds, Zenon DEF PrintedReadsBack

\* Numbers are printed in octal, decimal and hexadecimal with the digits of
\* their value and no others, padded to their width; negative ones too, down to
\* the least long; a dump shows every byte in its line and its column; and the
\* buffer for the digits has room: whatever the size of a long is, up to 32 bits.
THEOREM PrintedReadsBackHolds == ShellSpec => []PrintedReadsBack
<1>1. ASSUME ShellInv PROVE PrintedReadsBack
  <2>1. number \in Nat \cup {NULL}
    BY <1>1 DEF ShellInv, ShellTypes
  <2> QED BY <2>1, PrintedReads
<1> QED BY <1>1, ShellInvariant, PTL
=============================================================================
