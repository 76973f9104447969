\* bsm_unsigned_long_trace under LP64: long is twice as wide as int.
CONSTANTS
    CharBits = 2
    ShortBits = 3
    IntBits = 4
    LongBits = 6
    Int64Bits = 6
    VecBits = 3
    MaxLiterals = 5
    Classes <- MC_LongClass
SPECIFICATION Spec
INVARIANT LineDecodes
CHECK_DEADLOCK FALSE
