CONSTANTS
    Programs <- MCPrograms
    Dice <- MCDice
SPECIFICATION Spec
CHECK_DEADLOCK FALSE
INVARIANTS TypeOK LiveEnough FrameKept SupportedCompiles
PROPERTY MeaningKept
