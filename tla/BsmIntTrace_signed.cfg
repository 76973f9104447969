\* The signed fixed-width integer traces.
CONSTANTS
    CharBits = 2
    ShortBits = 3
    IntBits = 4
    LongBits = 4
    Int64Bits = 6
    VecBits = 3
    MaxLiterals = 5
    Classes <- MC_SignedClasses
SPECIFICATION Spec
INVARIANT LineDecodes
CHECK_DEADLOCK FALSE
