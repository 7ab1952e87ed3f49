CONSTANTS
    Width = 4
    Height = 3
    Word = 16
SPECIFICATION TerminalSpec
INVARIANTS
    TerminalTypeOK
    OnScreen
PROPERTIES
    BackspaceUndoes
