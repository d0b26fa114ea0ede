\* Both session loops, frames in one direction, closing at either end at any time.
SPECIFICATION Spec
CONSTANTS
    Platforms = {"windows", "posix"}
    Senders = {"client"}
    Readers = {"server"}
    MaxFrames = 3
    Oversize = {3}
    MaxSend = 2
    MaxReceive = 1
    WireCapacity = 2
INVARIANTS
    TypeOK
    FramesConserved
    DeliveredInOrder
    ClosedReleasesSlot
PROPERTIES
    CloseReturns
    AcceptedArrives
\* Both programs may end, and a session thread may wait for itself.
CHECK_DEADLOCK FALSE
