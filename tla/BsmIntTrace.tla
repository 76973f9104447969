---------------------------- MODULE BsmIntTrace ----------------------------
(***************************************************************************)
(* One value trace of sc_bsm_trace.h followed through the cycles of a      *)
(* simulation: the integer traces bsm_{unsigned,signed}_{char,short,int,   *)
(* long}_trace, bsm_int64_trace, bsm_uint64_trace and bsm_enum_trace, the  *)
(* arbitrary-width traces bsm_sc_{unsigned,signed,uint_base,int_base}_trace *)
(* and the vector trace bsm_T_trace<sc_lv_base>.  At every cycle the file  *)
(* asks the trace changed(); when it answers true the file calls          *)
(* write(fp), which encodes the value as a string of bits (rawdata) and,  *)
(* in VCD mode, compresses it with compose_data_line/strip_leading_bits.  *)
(*                                                                         *)
(* The widths of the C++ types are constants so that TLC can enumerate    *)
(* every value of a type: CharBits, ShortBits, IntBits, LongBits and      *)
(* Int64Bits stand for 8, 16, 32, 32 or 64 (LLP64 or LP64), and 64.  The  *)
(* literal thresholds of the masks (8, 16, 32, 64) are the same constants.*)
(* Bitwise AND with a low mask 2^k - 1 is written x % 2^k; the cast of a  *)
(* signed value to its unsigned type is v % 2^bits (two's complement).    *)
(***************************************************************************)
EXTENDS Integers, Sequences

CONSTANTS
    CharBits, ShortBits, IntBits, LongBits, Int64Bits,
    VecBits,       \* longest sc_unsigned/sc_signed/sc_lv object traced
    MaxLiterals,   \* most literals of a traced enumeration
    Classes        \* the trace classes a run follows

FixedClasses == {"uchar", "ushort", "uint", "ulong",
                 "schar", "sshort", "sint", "slong", "int64", "uint64"}
AllClasses == FixedClasses \cup {"enum", "scuint", "scint", "lv"}
SignedClasses == {"schar", "sshort", "sint", "slong", "int64", "scint"}

ASSUME WidthAssumption ==
    /\ CharBits \in Nat \ {0}
    /\ CharBits < ShortBits /\ ShortBits < IntBits
    /\ IntBits <= LongBits /\ LongBits <= Int64Bits
    /\ VecBits \in Nat \ {0}
    /\ MaxLiterals \in Nat
    /\ Classes \subseteq AllClasses

Triggers == {"POS", "NEG", "BOTH", "NONE"}
Chars == {"0", "1", "x", "z"}
NoLine == <<"none">>  \* no line written yet; not a string of Chars

\* Width of the C++ type of the traced object.
TypeBits == [uchar |-> CharBits, schar |-> CharBits,
             ushort |-> ShortBits, sshort |-> ShortBits,
             uint |-> IntBits, sint |-> IntBits, enum |-> IntBits,
             ulong |-> LongBits, slong |-> LongBits,
             int64 |-> Int64Bits, uint64 |-> Int64Bits]

\* The literal of "if (bit_width < L) mask = ~(-1 << bit_width); else
\* mask = <L ones>" in each constructor: 32 for unsigned long and long too.
MaskLimit == [uchar |-> CharBits, schar |-> CharBits,
              ushort |-> ShortBits, sshort |-> ShortBits,
              uint |-> IntBits, sint |-> IntBits, enum |-> IntBits,
              ulong |-> IntBits, slong |-> IntBits,
              int64 |-> Int64Bits, uint64 |-> Int64Bits]

\* Width of bit_mask in write(): "unsigned", "unsigned long" or uint64.
\* A width above it makes "1 << (bit_width - 1)" undefined, so the traces
\* are followed at the widths up to it.
ShiftBits == [uchar |-> IntBits, schar |-> IntBits,
              ushort |-> IntBits, sshort |-> IntBits,
              uint |-> IntBits, sint |-> IntBits, enum |-> IntBits,
              ulong |-> LongBits, slong |-> LongBits,
              int64 |-> Int64Bits, uint64 |-> Int64Bits]

\* bsm_enum_trace's constructor: the number of shifts that bring
\* nliterals - 1, an unsigned, to zero.
EnumWidth(n) ==
    LET m == (n - 1) % 2^IntBits
    IN  CHOOSE k \in 0..IntBits : m < 2^k /\ (k = 0 \/ m >= 2^(k - 1))

Widths(c) ==
    IF c \in FixedClasses THEN 1..ShiftBits[c]
    ELSE IF c = "enum" THEN {EnumWidth(n) : n \in 0..MaxLiterals}
    ELSE 1..VecBits

\* The values the traced object can hold.
ValuesOf(c, w) ==
    IF c = "lv" THEN [1..w -> Chars]
    ELSE IF c = "scuint" THEN 0..(2^w - 1)
    ELSE IF c = "scint" THEN (-(2^(w - 1)))..(2^(w - 1) - 1)
    ELSE IF c \in SignedClasses
         THEN (-(2^(TypeBits[c] - 1)))..(2^(TypeBits[c] - 1) - 1)
    ELSE 0..(2^TypeBits[c] - 1)

\* Bit p of the two's complement of v: "(object & bit_mask) ? '1' : '0'".
Bit(v, p) == (v % 2^(p + 1)) \div 2^p

Bits(v, w) == [i \in 1..w |-> IF Bit(v, w - i) = 1 THEN "1" ELSE "0"]

AllX(w) == [i \in 1..w |-> "x"]

\* "Check for overflow": ((unsigned T)object & mask) != (unsigned T)object.
MaskBits(c, w) == IF w < MaskLimit[c] THEN w ELSE MaskLimit[c]

Overflow(c, v, w) ==
    LET u == v % 2^TypeBits[c]
    IN  u % 2^MaskBits(c, w) # u

\* Mutant: the bit loop runs to bitindex <= bit_width.
RawDataOverrun(c, v, w) ==
    IF c = "lv" THEN v
    ELSE IF c \in {"scuint", "scint"} THEN Bits(v, w + 1)
    ELSE IF Overflow(c, v, w) THEN AllX(w + 1)
    ELSE Bits(v, w + 1)

\* rawdata as write() fills it before the terminating '\0'.
RawData(c, v, w) ==
    IF c = "lv" THEN v
    ELSE IF c \in {"scuint", "scint"} THEN Bits(v, w)
    ELSE IF Overflow(c, v, w) THEN AllX(w)
    ELSE Bits(v, w)

\* The index of the first character of s, from 2 on, that differs from
\* s[1]; Len(s) + 1 when the while loop stops at the '\0'.
RunEnd(s) ==
    CHOOSE k \in 2..(Len(s) + 1) :
        /\ \A j \in 2..(k - 1) : s[j] = s[1]
        /\ (k = Len(s) + 1 \/ s[k] # s[1])

\* Mutant: the run of the first character is dropped whole.
StripDropsRun(s) ==
    IF Len(s) < 2 \/ s[1] \notin {"z", "x", "0"} THEN s
    ELSE SubSeq(s, RunEnd(s), Len(s))

StripLeadingBits(s) ==
    IF Len(s) < 2 \/ s[1] \notin {"z", "x", "0"} THEN s
    ELSE LET k == RunEnd(s)
         IN  IF s[1] = "0" /\ k <= Len(s) /\ s[k] = "1"
             THEN SubSeq(s, k, Len(s))
             ELSE SubSeq(s, k - 1, Len(s))

\* The value part of compose_data_line and compose_line; the leading "b",
\* the blank and bsm_name are layout.
ComposeData(s, w) ==
    IF w = 0 THEN << >>
    ELSE IF w = 1 THEN s
    ELSE StripLeadingBits(s)

\* What write(fp) puts in the file for value v.
Data(c, v, w, vcd) ==
    IF vcd THEN ComposeData(RawData(c, v, w), w) ELSE RawData(c, v, w)

\* changed(): TRACE_CHANGED_IMPLEMENT compares with the trigger type;
\* bsm_T_trace::changed() is "!(object == old_value)" whatever the trigger.
TriggerHolds(trig, v, old) ==
    \/ trig = "BOTH"
    \/ trig = "POS" /\ v > old
    \/ trig = "NEG" /\ v < old

Fires(c, trig, v, old) ==
    /\ v # old
    /\ IF c = "lv" THEN TRUE ELSE TriggerHolds(trig, v, old)

VARIABLES
    cls,       \* the class of the trace
    width,     \* bit_width
    vcd,       \* is_print_vcd()
    trigger,   \* bsm_trigger_type
    oldValue,  \* old_value
    line,      \* the value part of the last line write(fp) produced
    shown      \* the value that line encodes (an observer, not code state)

vars == <<cls, width, vcd, trigger, oldValue, line, shown>>

\* The constructor: old_value(object_) and the width of the trace call
\* (or object.length(), or the enumeration's width).
Init ==
    /\ cls \in Classes
    /\ width \in Widths(cls)
    /\ vcd \in BOOLEAN
    /\ trigger \in Triggers
    /\ oldValue \in ValuesOf(cls, width)
    /\ line = NoLine
    /\ shown = oldValue

\* A cycle at which the object holds v and changed() is true: the file
\* calls write(fp), which prints the value and sets old_value = object.
Fire(v) ==
    /\ Fires(cls, trigger, v, oldValue)
    /\ line' = Data(cls, v, width, vcd)
    /\ shown' = v
    /\ oldValue' = v
    /\ UNCHANGED <<cls, width, vcd, trigger>>

\* A cycle at which the value changed against the trigger: changed()
\* calls write(NULL), which prints nothing and sets old_value = object.
Unfired(v) ==
    /\ v # oldValue
    /\ ~Fires(cls, trigger, v, oldValue)
    /\ oldValue' = v
    /\ UNCHANGED <<cls, width, vcd, trigger, line, shown>>

\* set_trigger_type, as bsm_trace_file::set_bsm_trace_type calls it.
SetTriggerType(t) ==
    /\ trigger' = t
    /\ UNCHANGED <<cls, width, vcd, oldValue, line, shown>>

Next ==
    \/ \E v \in ValuesOf(cls, width) : Fire(v) \/ Unfired(v)
    \/ \E t \in Triggers : SetTriggerType(t)

Spec == Init /\ [][Next]_vars

-----------------------------------------------------------------------------
(* Properties *)

\* The reference reading of a line: a VCD reader extends a vector value to
\* the declared width with '0' when it starts with '1' and with its first
\* character otherwise; a line in the simple format is read as it is.
VcdExtend(d, w) ==
    LET pad == IF Len(d) = 0 \/ d[1] = "1" THEN "0" ELSE d[1]
    IN  [i \in 1..w |-> IF i <= w - Len(d) THEN pad ELSE d[i - (w - Len(d))]]

ReaderValue(d, w, isVcd) == IF isVcd /\ w > 1 THEN VcdExtend(d, w) ELSE d

\* What a trace of v at width w should show: the w-bit two's complement
\* of v when v fits in w bits as a value of its signedness, all 'x' when
\* it does not ("Check for overflow"), the characters of a vector.
Fits(c, v, w) ==
    IF c \in SignedClasses THEN -(2^(w - 1)) <= v /\ v < 2^(w - 1)
    ELSE v < 2^w

Expected(c, v, w) ==
    IF c = "lv" THEN v
    ELSE IF Fits(c, v, w) THEN Bits(v, w)
    ELSE AllX(w)

\* Type invariant; the line write(fp) leaves has at most bit_width
\* characters (rawdata is filled for bitindex < bit_width).
TypeOK ==
    /\ cls \in Classes
    /\ width \in Widths(cls)
    /\ vcd \in BOOLEAN
    /\ trigger \in Triggers
    /\ oldValue \in ValuesOf(cls, width)
    /\ shown \in ValuesOf(cls, width)
    /\ line = NoLine \/ (line \in Seq(Chars) /\ Len(line) <= width)

\* Every line a trace writes reads back as the value the object held
\* when write(fp) ran: the w-bit two's complement when the value fits in
\* bit_width bits, all 'x' when it does not.  It ties together the mask of
\* the constructor, the overflow check and bit loop of write() and the VCD
\* compression of strip_leading_bits, against the reader's expansion.
LineDecodes ==
    line # NoLine => ReaderValue(line, width, vcd) = Expected(cls, shown, width)

=============================================================================
