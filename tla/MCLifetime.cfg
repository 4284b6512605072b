SPECIFICATION Spec
CONSTANTS
    Transports = {t1, t2}
    Threads = {a, b}
    Device = device
    NoTransport = NoTransport
    MaxChanges = 1
SYMMETRY Symmetry
CHECK_DEADLOCK FALSE
INVARIANTS
    TypeOK
    CallbackHasItsObjects
    CallHasItsObjects
    OnlyListenersLeak
