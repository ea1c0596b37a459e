SPECIFICATION Spec
CONSTANTS
    c1 = c1
    c2 = c2
    rf = rf
    Order <- Ids
    Controller = {c1, c2, rf}
    ClassOf <- Classes
    Configs <- TwoConfigs
    Messages <- SomeMessages
    MaxChannels = 1
    MaxRequests = 3
INVARIANTS TypeOK Owned DevicesLive Toggled
