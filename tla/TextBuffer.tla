----------------------------- MODULE TextBuffer -----------------------------
(***************************************************************************)
(* drivers/text_buffer.c: the cursor and the cells of the text screen.     *)
(* putchar() draws one character with interrupts disabled.  Colours and    *)
(* the blinking cursor, which follows row and col, are left out: a cell is *)
(* its character.                                                          *)
(***************************************************************************)
EXTENDS Library

CONSTANTS TEXT_BUFFER_ROWS, TEXT_BUFFER_COLS

ASSUME TextBufferAssumption ==
    TEXT_BUFFER_ROWS \in Nat \ {0} /\ TEXT_BUFFER_COLS \in Nat \ {0}

Cells == 0..(TEXT_BUFFER_ROWS * TEXT_BUFFER_COLS - 1)

Position(t) == t.row * TEXT_BUFFER_COLS + t.col

text_buffer_clear == [row |-> 0, col |-> 0, cell |-> [p \in Cells |-> SPACE]]

text_buffer_draw_char_at(t, c) == [t EXCEPT !.cell[Position(t)] = c]

\* The cells move up by a line when the cursor has left the screen.
Scroll(t) ==
    LET last == TEXT_BUFFER_COLS * (TEXT_BUFFER_ROWS - 1)
        up == memmove(t.cell, 0, TEXT_BUFFER_COLS, last)
    IN  IF t.row < TEXT_BUFFER_ROWS THEN t
        ELSE [t EXCEPT !.row = TEXT_BUFFER_ROWS - 1,
                       !.cell = [p \in Cells |-> IF p >= last THEN SPACE ELSE up[p]]]

Newline(t) == [row |-> t.row + 1, col |-> 0, cell |-> t.cell]

\* A character of its own: it is drawn, and the cursor goes on, at the end of a
\* line to the next one.
DrawPlain(t, c) ==
    LET d == text_buffer_draw_char_at(t, c)
    IN  Scroll(IF t.col + 1 >= TEXT_BUFFER_COLS THEN Newline(d)
                                                ELSE [d EXCEPT !.col = @ + 1])

\* Mutant: no way back to the line above.
BackInLine(t) == IF t.col # 0 THEN [t EXCEPT !.col = @ - 1] ELSE t

Back(t) ==
    IF t.col # 0 THEN [t EXCEPT !.col = @ - 1]
    ELSE IF t.row # 0 THEN [t EXCEPT !.row = @ - 1, !.col = TEXT_BUFFER_COLS - 1]
    ELSE t

\* A TAB writes spaces up to the next multiple of 8 columns.
putchar(t, c) ==
    CASE c = BS -> text_buffer_draw_char_at(Back(t), SPACE)
      [] c = CR -> t
      [] c = NL -> Scroll(Newline(t))
      [] c = TAB -> FoldLeft(DrawPlain, t, [k \in 1..(8 - (t.col % 8)) |-> SPACE])
      [] OTHER -> DrawPlain(t, c)

\* What printf() writes.
Puts(t, s) == FoldLeft(putchar, t, s)
=============================================================================
