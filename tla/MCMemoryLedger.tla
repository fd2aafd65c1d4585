-------------------------- MODULE MCMemoryLedger --------------------------
EXTENDS MemoryLedger
NoBoardKinds == {}
NightlyBoard == [mb |-> 3, nightly |-> TRUE, short |-> FALSE, seconds |-> 1]
SmallBoard == [mb |-> 1, nightly |-> FALSE, short |-> FALSE, seconds |-> NoTime]
OrderBoardKinds == {NightlyBoard, SmallBoard}
============================================================================
