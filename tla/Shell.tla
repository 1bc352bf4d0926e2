------------------------------- MODULE Shell -------------------------------
(***************************************************************************)
(* applications/shell.c and lib/readline.c: the shell reads a line, echoes *)
(* it on the screen, splits it in place and runs a command.                *)
(*                                                                         *)
(* Its thread is the only one here: what the others print would appear in  *)
(* the middle of a line.  getchar() gives any of the characters Typed at   *)
(* any time.  Messages are shortened, each to a mark and what it quotes;   *)
(* date, uptime, cal, ps and uname print Output and change nothing.        *)
(***************************************************************************)
EXTENDS TextBuffer

CONSTANTS
    LINE_MAX, SHELL_ARGS_MAX_NUM,
    Typed,      \* the characters that getchar() may return
    Commands,   \* the table of commands, in the order of the section: exe, do
    Prompt, Motd, Output,
    Memory      \* what hexdump reads: the contents of the memory

Handlers == {"exit", "help", "reboot", "hexdump", "print"}

Char == 0..255

\* The line has room for a character; the prompt is drawn as it stands; no two
\* commands have the same name.
ASSUME ShellAssumption ==
    /\ LINE_MAX \in Nat /\ LINE_MAX > 1 /\ SHELL_ARGS_MAX_NUM \in Nat \ {0}
    /\ Typed \subseteq Char
    /\ Prompt \in Seq(Char \ {BS, TAB, NL, CR}) /\ Motd \in Seq(Char) /\ Output \in Seq(Char)
    /\ Commands \in Seq([exe : Seq(Char \ {NUL}), do : Handlers])
    /\ \A i, j \in DOMAIN Commands : Commands[i].exe = Commands[j].exe => i = j

VARIABLES
    screen,
    readline_buffer, n, \* the line: the buffer, and the characters in it
    pc,                 \* "shell", "loop", "readline", "parse" or "exec"
    is_exit,
    argv, argc,         \* what cmd_parse() returns
    line,               \* the line as it was when readline() returned it
    cr                  \* whether a CR has been typed since the prompt

lineVars == <<screen, readline_buffer, n, pc, is_exit, argv, argc, line, cr>>
shellVars == <<number, screen, readline_buffer, n, pc, is_exit, argv, argc, line, cr>>

delim == <<SPACE, TAB, CR, NL>>

EmptyBuffer == [k \in 0..(LINE_MAX - 1) |-> NUL]

ShellInit ==
    /\ LibraryInit
    /\ screen = text_buffer_clear
    /\ readline_buffer = EmptyBuffer /\ n = 0
    /\ pc = "shell"
    /\ is_exit = FALSE
    /\ argv = <<>> /\ argc = 0
    /\ line = <<>> /\ cr = FALSE

-----------------------------------------------------------------------------
\* The loop of shell(), whenever loop() returns.
shell ==
    /\ pc = "shell"
    /\ is_exit' = FALSE
    /\ screen' = Puts(screen, Motd)
    /\ pc' = "loop"
    /\ UNCHANGED <<readline_buffer, n, argv, argc, line, cr>>

loop_exit ==
    /\ pc = "loop" /\ is_exit
    /\ pc' = "shell"
    /\ UNCHANGED <<screen, readline_buffer, n, is_exit, argv, argc, line, cr>>

\* readline() begins.
readline ==
    /\ pc = "loop" /\ ~is_exit
    /\ screen' = Puts(screen, Prompt)
    /\ n' = 0 /\ cr' = FALSE
    /\ pc' = "readline"
    /\ UNCHANGED <<readline_buffer, is_exit, argv, argc, line>>

\* A NUL goes where the line ends, and cmd_parse() gets it.
Return(buffer, k) ==
    /\ readline_buffer' = [buffer EXCEPT ![k] = NUL]
    /\ line' = [j \in 1..k |-> buffer[j - 1]]
    /\ pc' = "parse"

readline_backspace ==
    /\ pc = "readline"
    /\ n > 0
    /\ screen' = putchar(screen, BS)
    /\ n' = n - 1
    /\ UNCHANGED <<readline_buffer, pc, is_exit, argv, argc, line, cr>>

readline_newline ==
    /\ pc = "readline"
    /\ screen' = putchar(screen, NL)
    /\ Return(readline_buffer, n)
    /\ UNCHANGED <<n, is_exit, argv, argc, cr>>

\* The last place is for the NUL: the line is returned when it is full.
readline_char(c) ==
    /\ pc = "readline"
    /\ c \notin {BS, TAB, NL}
    /\ screen' = putchar(screen, c)
    /\ n' = n + 1
    /\ cr' = (cr \/ c = CR)
    /\ LET buffer == [readline_buffer EXCEPT ![n] = c]
       IN  IF n' < LINE_MAX - 1
           THEN readline_buffer' = buffer /\ UNCHANGED <<line, pc>>
           ELSE Return(buffer, n')
    /\ UNCHANGED <<is_exit, argv, argc>>

-----------------------------------------------------------------------------
(***************************************************************************)
(* cmd_parse() calls strtok_r() until it has no token left or argv is      *)
(* full; a full argv is an error.                                          *)
(***************************************************************************)
\* After k calls.  When there is no token left, there is none at the next call.
Tokens(m) ==
    LET Calls[k \in 0..SHELL_ARGS_MAX_NUM] ==
            IF k = 0 THEN [mem |-> m, save |-> 0, args |-> <<>>]
            ELSE LET c == Calls[k - 1]
                     t == strtok_r(c.mem, c.save, delim)
                 IN  IF t.tok = NULL THEN c
                     ELSE [mem |-> t.mem, save |-> t.save, args |-> Append(c.args, t.tok)]
    IN  Calls[SHELL_ARGS_MAX_NUM]

cmd_parse ==
    /\ pc = "parse"
    /\ LET t == Tokens(readline_buffer)
           invalid == Len(t.args) >= SHELL_ARGS_MAX_NUM
       IN  /\ readline_buffer' = t.mem
           /\ argv' = t.args
           /\ argc' = IF invalid THEN -1 ELSE Len(t.args)
           /\ screen' = IF invalid THEN Puts(screen, <<33, NL>>) ELSE screen
    /\ pc' = "exec"
    /\ n' = 0 /\ cr' = FALSE
    /\ UNCHANGED <<is_exit, line>>

Arg(k) == String(readline_buffer, argv[k])

cmd_find(exe) ==
    LET found == {i \in DOMAIN Commands : strcmp_equal(Commands[i].exe, exe)}
    IN  IF found = {} THEN NULL ELSE Min(found)

\* The handler of the command, if there is one.
Handler == IF cmd_find(Arg(1)) = NULL THEN "none" ELSE Commands[cmd_find(Arg(1))].do

\* Back to the loop with what the command printed.
Prints(s) ==
    /\ screen' = Puts(screen, s)
    /\ pc' = "loop"
    /\ argv' = <<>> /\ argc' = 0 /\ line' = <<>>
    /\ UNCHANGED <<readline_buffer, n, cr>>

cmd_none == pc = "exec" /\ argc <= 0 /\ Prints(<<>>) /\ UNCHANGED is_exit

Executes(do) == pc = "exec" /\ argc > 0 /\ Handler = do

NoSuchCommand(exe) == <<63>> \o exe \o <<NL>>

cmd_unknown == Executes("none") /\ Prints(NoSuchCommand(Arg(1))) /\ UNCHANGED is_exit

do_exit == Executes("exit") /\ Prints(<<>>) /\ is_exit' = TRUE

Usage(i) == Commands[i].exe \o <<NL>>

do_help ==
    /\ Executes("help")
    /\ Prints(FlattenSeq(
           IF argc = 1 THEN [i \in DOMAIN Commands |-> Usage(i)]
           ELSE [i \in 1..(argc - 1) |->
                    IF cmd_find(Arg(i + 1)) = NULL THEN NoSuchCommand(Arg(i + 1))
                    ELSE Usage(cmd_find(Arg(i + 1)))]))
    /\ UNCHANGED is_exit

do_hexdump ==
    /\ Executes("hexdump")
    /\ Prints(IF argc # 3 THEN <<33, NL>>
              ELSE LET lines == hexdump(Memory, strtoul(Arg(2), 0).val, strtoul(Arg(3), 0).val)
                   IN  FlattenSeq([i \in 1..Len(lines) |-> <<36, NL>>]))
    /\ UNCHANGED is_exit

do_print == Executes("print") /\ Prints(Output) /\ UNCHANGED is_exit

\* reboot(): the machine starts again.
do_reboot ==
    /\ Executes("reboot")
    /\ screen' = text_buffer_clear
    /\ readline_buffer' = EmptyBuffer /\ n' = 0
    /\ pc' = "shell"
    /\ is_exit' = FALSE
    /\ argv' = <<>> /\ argc' = 0
    /\ line' = <<>> /\ cr' = FALSE

\* The steps of the shell, once the functions have been tried.
Step ==
    \/ shell \/ loop_exit \/ readline
    \/ (BS \in Typed /\ readline_backspace)
    \/ (NL \in Typed /\ readline_newline)
    \/ \E c \in Typed : readline_char(c)
    \/ cmd_parse \/ cmd_none \/ cmd_unknown
    \/ do_exit \/ do_help \/ do_hexdump \/ do_print \/ do_reboot

ShellNext ==
    \/ LibraryNext /\ UNCHANGED lineVars
    \/ number = NULL /\ Step /\ UNCHANGED number

ShellSpec == ShellInit /\ [][ShellNext]_shellVars

-----------------------------------------------------------------------------
(***************************************************************************)
(* Properties.                                                             *)
(***************************************************************************)
\* While a line is typed the screen shows it: before the cursor stand the last
\* characters of the prompt and of the buffer, as many as the screen holds, and
\* from the cursor on it is blank, across line ends, scrolling, and backspaces
\* over both.  (A CR is stored but not drawn, and a backspace over it erases
\* the character before.)
ShowsLine ==
    pc = "readline" /\ ~cr =>
        LET text == Prompt \o [k \in 1..n |-> readline_buffer[k - 1]]
            pos == Position(screen)
        IN  /\ \A k \in 1..Min({pos, Len(text)}) : screen.cell[pos - k] = text[Len(text) + 1 - k]
            /\ \A p \in Cells : p >= pos => screen.cell[p] = SPACE

\* The words of a line, by what a word is: it begins after a blank, and goes on
\* up to the next one; as many words begin before the i-th as come before it.
Words(s) ==
    LET Blank(k) == k \notin 1..Len(s) \/ s[k] \in ToSet(delim)
        starts == {k \in 1..Len(s) : Blank(k - 1) /\ ~Blank(k)}
        Start(i) == CHOOSE k \in starts : Cardinality({j \in starts : j < k}) = i - 1
        End(k) == Min({j \in k..Len(s) : Blank(j + 1)})
    IN  [i \in 1..Cardinality(starts) |-> SubSeq(s, Start(i), End(Start(i)))]

\* The C string in a line: what comes before the first NUL that was typed.
CString(s) == SubSeq(s, 1, Min({k \in 1..(Len(s) + 1) : k > Len(s) \/ s[k] = NUL}) - 1)

\* A command gets the words of the line that was typed, each ending where it
\* ends, with nothing of the lines that were in the buffer before, or none if
\* there are too many for argv; and it is the one with the name typed.
RunsWhatWasTyped ==
    pc = "exec" =>
        LET words == Words(CString(line))
        IN  IF Len(words) >= SHELL_ARGS_MAX_NUM THEN argc = -1
            ELSE /\ [k \in 1..argc |-> Arg(k)] = words
                 /\ argc > 0 =>
                        \A i \in DOMAIN Commands :
                            cmd_find(Arg(1)) = i <=> Commands[i].exe = words[1]
=============================================================================
