SPECIFICATION Spec
CONSTANTS
    relay = relay
    probe = probe
    dmx = dmx
    NoDevice = NoDevice
    Device = {relay, probe}
    Request = {r1, r2, r3}
    Nodeless = {probe}
    Passive = {}
    Rejected <- BusRejected
    Immediate <- NoPairs
    Commands <- BusCommands
    Reentrant <- BusReentrant
    MaxParts = 1
    CheckTicks = 2
INVARIANTS TypeOK SerialExecution NoStall NoOrphanFault StartingHasQuery
PROPERTIES Serialises RestartAttempted
