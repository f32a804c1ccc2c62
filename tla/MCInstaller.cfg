CONSTANTS
    Nil = Nil
    Order <- MCOrder
    Merged = {"agents"}
    Intent = {"payload"}
    Payload = "payload"
    BaseState = "base-state"
    State = "install-state"
    HadBase = TRUE
    Hashed <- MCHashed
    MaxTxn = 3
    MaxVisits = 1
    MaxFaults = 2
CONSTRAINT FewEvents
SPECIFICATION StatusSpec
CHECK_DEADLOCK FALSE
INVARIANTS OneVersion NothingLost Undoable StatusSound
