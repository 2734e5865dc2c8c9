SPECIFICATION Spec
CONSTANTS
    None = None
    Ids = {a1}
    ChatTurns = {}
    TextOf <- NoText
    MaxReads = 2
CHECK_DEADLOCK FALSE
INVARIANT ResetByEventStartsAnew
