\* A PUT between the read and the save of a refresh.
SPECIFICATION Spec
CONSTANTS
    Writers = {w1}
    CallKeys = {c1}
    NoKey = NoKey
    Faults = {}
    MaxTokens = 3
    MaxRestarts = 0
PROPERTIES
    AdminWriteNotOverwritten
