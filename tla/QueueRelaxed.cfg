\* The smallest queue; the cursors wrap three times as often as the buffer,
\* and a queue can be full with its front at each cursor.
CONSTANTS
    Size = 2
    CursorMod = 6
    NULL = null
    Values = {null, a}
SPECIFICATION LoopSpec
INVARIANTS TypeOK CursorOrder NoDataRace RoomToPush ValueToPop
PROPERTIES ImplementsFifo KeepsMoving
