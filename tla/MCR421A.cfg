SPECIFICATION Spec
CONSTANTS
    Channel = {1, 2, 3}
    Fitted = {1, 2}
    Command = {"on", "off", "toggle", "query"}
    Late = FALSE
    MaxQueue = 2
    MaxAnswers = 1
INVARIANTS TypeOK Faithful
PROPERTY Recovers
