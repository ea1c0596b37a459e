SPECIFICATION Spec
CONSTANTS
    a = a
    b = b
    s1 = s1
    s2 = s2
    a1 = a1
    a2 = a2
    b1 = b1
    b2 = b2
    NoRequest = NoRequest
    Device = {a, b}
    Dmx = {b}
    Segment = {s1}
    SegmentOf <- Together
    Request = {a1, a2, b1}
    DeviceOf <- Owner
    Noise = FALSE
    MidTransfer = FALSE
    Timely = FALSE
    MaxParts = 1
    MaxTasks = 2
    MaxBytes = 2
INVARIANT WatchedOnceSent
