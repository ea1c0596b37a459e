SPECIFICATION Spec
CONSTANTS
    Asked <- Function
    Served <- Answerable
    Own = 10
    Addresses = {10, 3}
    Seeds <- OneSeed
    ReadCounts <- Counts
    WriteCounts = {0, 3, 5000}
    Fill = {0, 255}
    Stray = {0, 255}
    Damageable = {1, 2, 3, 4, 5, 6, 7, 8, 9, 10, 11, 12, 13, 14}
    Cuts = {1, 2, 3, 4, 5, 6, 7, 8, 9, 10, 11, 12, 13, 14}
    MaxLate = 5
    MaxFaults = 1
INVARIANTS TypeOK Conforms Understood Answered
