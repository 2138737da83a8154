CONSTANT MaxSeqNum = 6
SPECIFICATION Spec
INVARIANTS TypeOK ResendStaysInRange ResendCoversRange
CHECK_DEADLOCK FALSE
