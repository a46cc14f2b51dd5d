SPECIFICATION Spec
CONSTANTS
    Cmds <- MCCmds
    Timeout = 1
    Never = Never
    NoMessage = NoMessage
INVARIANTS
    FinalZeroUnlessRaced
    DropEndsStream
PROPERTIES
    FallsSilent
