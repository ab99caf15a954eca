CONSTANTS
    Unset = Unset
    Types = {"rsa", "ecdsa", "ed25519", "dsa"}
    Sizes <- MCSizes
    Chunk = 2
    MaxLen = 4
SPECIFICATION Spec
INVARIANTS
    KeyAsAsked
    TokenArrives
PROPERTY PasteEnds
