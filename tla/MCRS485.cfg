SPECIFICATION Spec
CONSTANTS
    a = a
    b = b
    s1 = s1
    s2 = s2
    a1 = a1
    a2 = a2
    b1 = b1
    b2 = b2
    NoRequest = NoRequest
    Device = {a, b}
    Dmx = {}
    Segment = {s1, s2}
    SegmentOf <- Apart
    Request = {a1, a2, b1}
    DeviceOf <- Owner
    Noise = TRUE
    MidTransfer = FALSE
    Timely = FALSE
    MaxParts = 1
    MaxTasks = 3
    MaxBytes = 2
INVARIANTS TypeOK PointersLive Watched Listening PortReleased IdleUart
PROPERTY Serialises
