SPECIFICATION Spec
CONSTANTS
    Numbers <- Digits
    Characters <- AllCharacters
    Lines <- ShortLines
    Args <- ShortArgs
    Commands <- ShortCommands
    TornLines = FALSE
    MaxLines = 3
CHECK_DEADLOCK FALSE
INVARIANTS DecodedAreSent  ReplyEndsWithItsLastLine
