CONSTANTS
    Programs <- MCPrograms
    Dice <- MCDice
SPECIFICATION Spec
CHECK_DEADLOCK FALSE
INVARIANT NamesUnique
