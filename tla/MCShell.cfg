SPECIFICATION ShellSpec
CONSTANTS
    LONG_MAX = 127
    TEXT_BUFFER_ROWS = 2
    TEXT_BUFFER_COLS = 2
    LINE_MAX = 8
    SHELL_ARGS_MAX_NUM = 4
    Typed = {8, 10, 13, 32, 49}
    Commands <- MCCommands
    Prompt <- MCPrompt
    Motd <- MCMotd
    Output <- MCOutput
    Memory <- MCMemory
INVARIANTS
    ShowsLine
    RunsWhatWasTyped
    NumbersRead
    PrintedReadsBack
