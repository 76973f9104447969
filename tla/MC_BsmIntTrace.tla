--------------------------- MODULE MC_BsmIntTrace ---------------------------
(***************************************************************************)
(* Instances of BsmIntTrace for TLC.  The C++ widths 8 < 16 < 32 <= 64 are *)
(* scaled to 2 < 3 < 4 <= 6 so that every value of a type is enumerated.  *)
(***************************************************************************)
EXTENDS BsmIntTrace

\* The classes whose writes agree with the reader under LLP64.
MC_UnsignedClasses ==
    {"uchar", "ushort", "uint", "ulong", "uint64", "enum", "scuint", "scint", "lv"}

\* bsm_unsigned_long_trace alone, for the LP64 run.
MC_LongClass == {"ulong"}

\* The signed fixed-width integer traces.
MC_SignedClasses == {"schar", "sshort", "sint", "slong", "int64"}
=============================================================================
