SPECIFICATION Spec
CONSTANTS
    d1 = d1
    d2 = d2
    Device = {d1, d2}
    Request = {r1, r2, r3}
    None = None
    Timing <- Timings
    Configured <- Configs
    Default = 2
    Bits = 2
    Codes <- OneCode
    MaxRepeats = 2
    MaxLow = 255
    Extension = 24
    Latency = 12
INVARIANTS TypeOK Asserted OnAir QuietWhenIdle
PROPERTY Serialises
