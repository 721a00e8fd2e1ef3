SPECIFICATION Spec
CONSTANTS
    VGA_WIDTH = 4
    VGA_HEIGHT = 2
    TAB_WIDTH = 2
    CMD_SIZE = 5
    HELP <- MCHelp
    CLEAR <- MCClear
    EXEC <- MCExec
    PROMPT <- MCPrompt
    MESSAGE <- MCMessage
    Keys = {14, 27, 28, 30, 156}
    PastLiteral = {8, 9}
    Counts = {2}
    Outputs = {9, 13}
INVARIANT CommandIsLine
PROPERTIES EnterAnswered ImplementsTerminal
