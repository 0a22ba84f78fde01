CONSTANTS
    MaxLen = 6
    FieldNames <- Names
    Exported = {"ClientPrivateKey", "Note"}
    Normal <- NormalForm
    DefaultRedactFields = {"client_private_key"}
    Extras <- Lists
    Depth = 2
SPECIFICATION Spec
CHECK_DEADLOCK FALSE
INVARIANTS NothingLeaks InSync NothingRedactableLeft 
