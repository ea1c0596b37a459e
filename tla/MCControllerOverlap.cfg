SPECIFICATION Spec
CONSTANTS
    relay = relay
    probe = probe
    dmx = dmx
    NoDevice = NoDevice
    Device = {relay, dmx}
    Request = {r1, r2}
    Nodeless = {}
    Passive = {dmx}
    Rejected <- NoPairs
    Immediate <- SharedImmediate
    Commands <- SharedCommands
    Reentrant <- NoPairs
    MaxParts = 1
    CheckTicks = 2
INVARIANT SerialExecution
