CONSTANTS
    Printable = {"c", "l"}
    Extended = {"left"}
    MAX_HELD = 3
    MAX_MISSED = 1
SPECIFICATION Spec
INVARIANTS
    TypeOK
    NoStuckModifier
    OneLostPerCode
