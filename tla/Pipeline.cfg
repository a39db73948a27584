SPECIFICATION Spec
CONSTANTS
    Stages = 3
    PipeSize = 1
    Codes = {0, 1}
    Tty = Tty
    Closed = Closed
INVARIANTS OnlyOwnEnds StatusOfLast
PROPERTIES PipelineEnds
CHECK_DEADLOCK FALSE
