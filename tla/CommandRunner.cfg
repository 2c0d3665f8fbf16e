\* One helper; pipes and chunks of two bytes, four bytes written against a limit of three.
CONSTANTS
    Child = child
    Helpers = {helper}
    Capacity = 2
    Buffer = 2
    MaxOutput = 3
    MaxBytes = 4
SPECIFICATION Spec
INVARIANTS TypeOK WholeOutput NothingLeftRunning
PROPERTIES NoStall CallReturns
CHECK_DEADLOCK FALSE
