SPECIFICATION Spec
CONSTANT MaxTextLength = 5
INVARIANTS TypeOK NumberIsRow
PROPERTIES PresentsLinesInOrder
CHECK_DEADLOCK FALSE
