----------------------------- MODULE Balancing -----------------------------
(***************************************************************************)
(* The clocked thread balancing::entry of the cae_test "balancing" case.   *)
(* An SC_CTHREAD runs from one wait() to the next at each clock edge, so   *)
(* one step of this module is the code between two wait() calls, and pc is *)
(* the source line of the wait() the thread is suspended in (0 before it   *)
(* first runs).  The inputs are read at the step that reads them.         *)
(*                                                                         *)
(* balancing.h is not in the repository: the ports are taken to carry      *)
(* 4-bit values, as the sc_biguint<4> and sc_bigint<4> variables that read *)
(* them and the sc_biguint<4> written to out_value2 and out_value3 are.   *)
(***************************************************************************)
EXTENDS Integers

InValues == 0..15          \* a 4-bit input port

\* Mutant: the value is kept unsigned.
Signed4NoSign(v) == v % 16

\* sc_bigint<4> = v: the 4-bit two's complement of v.
Signed4(v) == LET u == v % 16 IN IF u >= 8 THEN u - 16 ELSE u

\* sc_biguint<4> = v, and to_uint() of it.
Unsigned4(v) == v % 16

\* sc_unsigned out_tmp(12) = v.
Unsigned12(v) == v % 4096

VARIABLES
    pc,
    tmp1, tmp2, tmp3,          \* sc_biguint<4>, sc_bigint<4>, sc_biguint<4>
    outTmp2, outTmp3,          \* sc_unsigned(12)
    outValue1, outValue2, outValue3,
    outValid1, outValid2, outValid3

locals == <<tmp1, tmp2, tmp3, outTmp2, outTmp3>>
outs == <<outValue1, outValue2, outValue3, outValid1, outValid2, outValid3>>
vars == <<pc, locals, outs>>

\* Elaboration: the locals are constructed with value 0, the output
\* signals hold their initial value.
Init ==
    /\ pc = 0
    /\ tmp1 = 0 /\ tmp2 = 0 /\ tmp3 = 0
    /\ outTmp2 = 0 /\ outTmp3 = 0
    /\ outValue1 = 0 /\ outValue2 = 0 /\ outValue3 = 0
    /\ outValid1 = FALSE /\ outValid2 = FALSE /\ outValid3 = FALSE

\* Lines 52-62: the reset branch writes every output and out_tmp2/3.
Reset(r) ==
    /\ pc = 0
    /\ IF r
       THEN /\ outValue1' = 0 /\ outValue2' = 0 /\ outValue3' = 0
            /\ outValid1' = FALSE /\ outValid2' = FALSE /\ outValid3' = FALSE
            /\ outTmp2' = 0 /\ outTmp3' = 0
            /\ pc' = 61
       ELSE /\ pc' = 62
            /\ UNCHANGED <<outs, outTmp2, outTmp3>>
    /\ UNCHANGED <<tmp1, tmp2, tmp3>>

\* Mutant: the last wait() of the second switch jumps back to line 129.
PlainWaitLoops ==
    /\ \/ pc \in {61, 62} /\ pc' = 68
       \/ pc \in {78, 79, 80, 87, 88, 93, 129, 130, 166, 167} /\ pc' = pc + 1
       \/ pc = 131 /\ pc' = 129
       \/ pc = 168 /\ pc' = 170
    /\ UNCHANGED <<locals, outs>>

\* A wait() followed directly by another wait().
PlainWait ==
    /\ \/ pc \in {61, 62} /\ pc' = 68
       \/ pc \in {78, 79, 80, 87, 88, 93, 129, 130, 166, 167} /\ pc' = pc + 1
       \/ pc = 131 /\ pc' = 133
       \/ pc = 168 /\ pc' = 170
    /\ UNCHANGED <<locals, outs>>

\* Line 68 with in_valid true (an iteration of the do-while that sees
\* in_valid false changes no variable: a stuttering step), then lines 71-98 up to the first wait() of
\* the switch on tmp1, one disjunct per label.
Branch1Start(in1) ==
    /\ pc = 68
    /\ tmp1' = Unsigned4(in1)
    /\ outValid1' = TRUE
    /\ \/ tmp1' = 4 /\ pc' = 78 /\ UNCHANGED outValue1
       \/ tmp1' = 3 /\ pc' = 87 /\ outValue1' = 2
       \/ tmp1' = 2 /\ pc' = 93 /\ outValue1' = 1
       \/ tmp1' \notin 2..4 /\ pc' = 98 /\ outValue1' = tmp1'
    /\ UNCHANGED <<tmp2, tmp3, outTmp2, outTmp3, outValue2, outValue3,
                   outValid2, outValid3>>

\* Mutant: a break before the default label, so the last write is skipped.
Branch1WriteBreak ==
    /\ \/ pc = 81 /\ pc' = 83 /\ outValue1' = 3
       \/ pc = 83 /\ pc' = 87 /\ outValue1' = 2
       \/ pc = 89 /\ pc' = 93 /\ outValue1' = 1
       \/ pc = 94 /\ pc' = 98 /\ outValue1' = outValue1
    /\ UNCHANGED <<locals, outValue2, outValue3, outValid1, outValid2,
                   outValid3>>

\* The writes of out_value1 between the waits of the fallthrough chain:
\* after line 81 "3", after 83 "2", after 89 "1", after 94 tmp1.
Branch1Write ==
    /\ \/ pc = 81 /\ pc' = 83 /\ outValue1' = 3
       \/ pc = 83 /\ pc' = 87 /\ outValue1' = 2
       \/ pc = 89 /\ pc' = 93 /\ outValue1' = 1
       \/ pc = 94 /\ pc' = 98 /\ outValue1' = tmp1
    /\ UNCHANGED <<locals, outValue2, outValue3, outValid1, outValid2,
                   outValid3>>

\* Mutant: out_valid2.write(true) of line 106 written in place of the
\* out_valid1.write(false) of line 100.
Branch1EndRaisesNext ==
    /\ pc = 98
    /\ outValid2' = TRUE
    /\ pc' = 101
    /\ UNCHANGED <<locals, outValue1, outValue2, outValue3, outValid1,
                   outValid3>>

\* Lines 100-101.
Branch1End ==
    /\ pc = 98
    /\ outValid1' = FALSE
    /\ pc' = 101
    /\ UNCHANGED <<locals, outValue1, outValue2, outValue3, outValid2,
                   outValid3>>

\* Lines 104-107.
Branch2Read(in2) ==
    /\ pc = 101
    /\ tmp2' = Signed4(in2)
    /\ tmp1' = Unsigned4(tmp2')
    /\ outValid2' = TRUE
    /\ pc' = 107
    /\ UNCHANGED <<tmp3, outTmp2, outTmp3, outValue1, outValue2, outValue3,
                   outValid1, outValid3>>

\* Lines 108-132, the switch on tmp1: "case 8 | 9 | 10 | 11:" is the one
\* label 11 (8 | 9 | 10 | 11 = 11), and 8, 9, 10, 12..15 match no label.
Branch2Switch ==
    /\ pc = 107
    /\ \/ tmp1 \in 0..3 /\ pc' = 116 /\ outTmp2' = Unsigned12(tmp2 * tmp2 * tmp2)
       \/ tmp1 \in 4..7 /\ pc' = 124 /\ outTmp2' = 4
       \/ tmp1 = 11 /\ pc' = 129 /\ outTmp2' = 1
       \/ tmp1 \notin 0..7 \cup {11} /\ pc' = 133 /\ UNCHANGED outTmp2
    /\ UNCHANGED <<tmp1, tmp2, tmp3, outTmp3, outs>>

\* The fallthrough of the second switch: after 116 "4", after 124 "1".
Branch2Fall ==
    /\ \/ pc = 116 /\ pc' = 124 /\ outTmp2' = 4
       \/ pc = 124 /\ pc' = 129 /\ outTmp2' = 1
    /\ UNCHANGED <<tmp1, tmp2, tmp3, outTmp3, outs>>

\* Lines 135-137.
Branch2End ==
    /\ pc = 133
    /\ outValue2' = Unsigned4(outTmp2)
    /\ outValid2' = FALSE
    /\ pc' = 137
    /\ UNCHANGED <<locals, outValue1, outValue3, outValid1, outValid3>>

\* Lines 140-142.
Branch3Read(in3) ==
    /\ pc = 137
    /\ tmp3' = Unsigned4(in3)
    /\ outValid3' = TRUE
    /\ pc' = 142
    /\ UNCHANGED <<tmp1, tmp2, outTmp2, outTmp3, outValue1, outValue2,
                   outValue3, outValid1, outValid2>>

\* Lines 143-169: the third switch writes out_tmp2 (not out_tmp3) from
\* tmp2 (not tmp3); "case 4..7" has no wait() before falling through.
Branch3Switch ==
    /\ pc = 142
    /\ \/ tmp3 \in 0..3 /\ pc' = 151 /\ outTmp2' = Unsigned12(tmp2 * tmp2 * tmp2)
       \/ tmp3 \in 4..11 /\ pc' = 166 /\ outTmp2' = 1
       \/ tmp3 \notin 0..11 /\ pc' = 170 /\ UNCHANGED outTmp2
    /\ UNCHANGED <<tmp1, tmp2, tmp3, outTmp3, outs>>

\* After line 151: out_tmp2 = 4; out_tmp2 = 1; up to the wait of line 166.
Branch3Fall ==
    /\ pc = 151
    /\ pc' = 166
    /\ outTmp2' = 1
    /\ UNCHANGED <<tmp1, tmp2, tmp3, outTmp3, outs>>

\* Lines 171-172.
Branch3Write ==
    /\ pc = 170
    /\ outValue3' = Unsigned4(outTmp3)
    /\ pc' = 172
    /\ UNCHANGED <<locals, outValue1, outValue2, outValid1, outValid2,
                   outValid3>>

\* Mutant: out_valid3 is left high.
Branch3EndKeepsValid ==
    /\ pc = 172
    /\ pc' = 68
    /\ UNCHANGED <<locals, outs>>

\* Line 173 and the loop back to the do-while wait of line 68.
Branch3End ==
    /\ pc = 172
    /\ outValid3' = FALSE
    /\ pc' = 68
    /\ UNCHANGED <<locals, outValue1, outValue2, outValue3, outValid1,
                   outValid2>>

\* The steps the thread takes at the next clock edge whatever its inputs:
\* every one but leaving the do-while of line 68, which waits for in_valid.
Clocked ==
    \/ \E r \in BOOLEAN : Reset(r)
    \/ PlainWait
    \/ Branch1Write
    \/ Branch1End
    \/ \E in2 \in InValues : Branch2Read(in2)
    \/ Branch2Switch \/ Branch2Fall \/ Branch2End
    \/ \E in3 \in InValues : Branch3Read(in3)
    \/ Branch3Switch \/ Branch3Fall \/ Branch3Write \/ Branch3End

Next == Clocked \/ \E in1 \in InValues : Branch1Start(in1)

Spec == Init /\ [][Next]_vars

\* The clock never stops and an SC_CTHREAD is resumed at every edge, so a
\* clocked step that can be taken is taken.  Nothing is assumed of
\* in_valid, which the testbench drives.
FairSpec == Spec /\ WF_vars(Clocked)

-----------------------------------------------------------------------------
(* Properties *)

WaitLines == {0, 61, 62, 68, 78, 79, 80, 81, 83, 87, 88, 89, 93, 94, 98,
              101, 107, 116, 124, 129, 130, 131, 133, 137, 142, 151, 166,
              167, 168, 170, 172}

\* Type invariant: pc is a wait() of entry() and every variable holds a
\* value of its C++ type.
TypeOK ==
    /\ pc \in WaitLines
    /\ tmp1 \in 0..15
    /\ tmp2 \in -8..7
    /\ tmp3 \in 0..15
    /\ outTmp2 \in 0..4095
    /\ outTmp3 \in 0..4095
    /\ outValue1 \in 0..15
    /\ outValue2 \in 0..15
    /\ outValue3 \in 0..15
    /\ outValid1 \in BOOLEAN
    /\ outValid2 \in BOOLEAN
    /\ outValid3 \in BOOLEAN

\* The three branches hand their results over one after the other: at no
\* clock edge are two of out_valid1, out_valid2 and out_valid3 high, so a
\* consumer never sees two branches' strobes at once.
OneValidAtATime ==
    /\ ~(outValid1 /\ outValid2)
    /\ ~(outValid1 /\ outValid3)
    /\ ~(outValid2 /\ outValid3)

\* Whatever latency the fallthrough chain of the first switch takes, the
\* clock edge that drops out_valid1 sees out_value1 equal to the input
\* value the branch read (the last write of every path is tmp1).
Branch1Output == pc = 101 => outValue1 = tmp1

\* Whatever the inputs, the thread always gets back to the do-while of
\* line 68, ready for the next transaction: no path through reset or the
\* three switches and their fallthrough chains loops or blocks.
TransactionCompletes == pc # 68 ~> pc = 68

\* The handshake of BalancingHandshake, seen on the ports: the strobe that
\* is high, the branch whose turn it is (from the wait() the thread is
\* in), and the input latched in tmp1.
Handshake == INSTANCE BalancingHandshake WITH
    strobe <- IF outValid1 THEN 1 ELSE IF outValid2 THEN 2
              ELSE IF outValid3 THEN 3 ELSE 0,
    turn <- IF pc \in {101, 107, 116, 124, 129, 130, 131, 133} THEN 2
            ELSE IF pc \in {137, 142, 151, 166, 167, 168, 170, 172} THEN 3
            ELSE 1,
    latched <- tmp1,
    outValue1 <- outValue1

\* balancing::entry implements the handshake: strobes in the order 1, 2, 3,
\* one at a time, out_value1 moving only under out_valid1 and equal to the
\* latched input when it drops.
HandshakeSpec == Handshake!Spec

\* The three case groups 0..3, 4..7 and 8..11 of the second switch all end
\* with out_tmp2 = 1, so out_value2 is 1 when out_valid2 drops for every
\* input of those groups, as the comments of the switch describe it.
Branch2Output == pc = 137 /\ tmp1 \in 0..11 => outValue2 = 1

\* Likewise the third branch: out_value3 is 1 when the third branch ends
\* for an input of its case groups 0..11.
Branch3Output == pc = 172 /\ tmp3 \in 0..11 => outValue3 = 1
=============================================================================
