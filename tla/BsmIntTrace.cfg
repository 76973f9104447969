\* Unsigned, enumeration, arbitrary-width and vector traces, LLP64 widths.
CONSTANTS
    CharBits = 2
    ShortBits = 3
    IntBits = 4
    LongBits = 4
    Int64Bits = 6
    VecBits = 3
    MaxLiterals = 5
    Classes <- MC_UnsignedClasses
SPECIFICATION Spec
INVARIANTS TypeOK LineDecodes
CHECK_DEADLOCK FALSE
