-------------------------- MODULE BalancingProofs --------------------------
(***************************************************************************)
(* Proofs about Balancing, the clocked thread balancing::entry: the type  *)
(* invariant, the one-strobe-at-a-time handshake of out_valid1..3 and the *)
(* output of the first branch, for every behaviour of the thread.         *)
(***************************************************************************)
EXTENDS Balancing, TLAPS

\* The wait() lines at which each branch holds its out_valid high.
Valid1Lines == {78, 79, 80, 81, 83, 87, 88, 89, 93, 94, 98}
Valid2Lines == {107, 116, 124, 129, 130, 131, 133}
Valid3Lines == {142, 151, 166, 167, 168, 170, 172}

\* The integer-valued part of TypeOK, and its Boolean part: the SMT
\* backend proves the first, Zenon the second.
ValuesOK ==
    /\ pc \in WaitLines
    /\ tmp1 \in 0..15 /\ tmp2 \in -8..7 /\ tmp3 \in 0..15
    /\ outTmp2 \in 0..4095 /\ outTmp3 \in 0..4095
    /\ outValue1 \in 0..15 /\ outValue2 \in 0..15 /\ outValue3 \in 0..15
StrobesBool ==
    outValid1 \in BOOLEAN /\ outValid2 \in BOOLEAN /\ outValid3 \in BOOLEAN

\* Each out_valid is high exactly while the thread is suspended in a
\* wait() of its branch.
StrobeLines ==
    /\ outValid1 <=> pc \in Valid1Lines
    /\ outValid2 <=> pc \in Valid2Lines
    /\ outValid3 <=> pc \in Valid3Lines

\* From the last write of out_value1 (line 98) until tmp1 is overwritten
\* (line 104) out_value1 holds tmp1.
Value1Held == pc \in {98, 101} => outValue1 = tmp1

\* The inductive invariant.
IInv == ValuesOK /\ StrobesBool /\ StrobeLines /\ Value1Held

\* The 4-bit and 12-bit conversions return values of their types.
LEMMA ConversionTypes ==
    ASSUME NEW v \in Int
    PROVE  /\ Signed4(v) \in -8..7
           /\ Unsigned4(v) \in 0..15
           /\ Unsigned12(v) \in 0..4095
BY DEF Signed4, Unsigned4, Unsigned12

\* The inductive invariant implies the type invariant.
LEMMA IInvTypeOK == IInv => TypeOK
BY DEF IInv, ValuesOK, StrobesBool, TypeOK

\* Every initial state satisfies the inductive invariant.
LEMMA InitIInv == Init => IInv
<1> SUFFICES ASSUME Init PROVE IInv
  OBVIOUS
<1>1. ValuesOK /\ StrobeLines /\ Value1Held
  BY DEF Init, ValuesOK, StrobeLines, Value1Held, WaitLines, Valid1Lines,
         Valid2Lines, Valid3Lines
<1>2. StrobesBool
  BY Zenon DEF Init, StrobesBool
<1>3. QED
  BY <1>1, <1>2 DEF IInv

\* Every step of the thread, and every stuttering step, keeps it: one step
\* per action, each split into the integer part with the strobe lines, and
\* the Boolean part.
LEMMA NextIInv == IInv /\ [Next]_vars => IInv'
<1> SUFFICES ASSUME IInv, [Next]_vars PROVE IInv'
  OBVIOUS
<1>1. ASSUME NEW r \in BOOLEAN, Reset(r) PROVE IInv'
  <2>1. ValuesOK' /\ StrobeLines' /\ Value1Held'
    <3>1. CASE r
      BY <1>1, <3>1 DEF IInv, Reset, outs, ValuesOK, StrobeLines, Value1Held,
         WaitLines, Valid1Lines, Valid2Lines, Valid3Lines
    <3>2. CASE ~r
      BY <1>1, <3>2 DEF IInv, Reset, outs, ValuesOK, StrobeLines, Value1Held,
         WaitLines, Valid1Lines, Valid2Lines, Valid3Lines
    <3>3. QED
      BY <3>1, <3>2
  <2>2. StrobesBool'
    BY <1>1, Zenon DEF IInv, StrobesBool, Reset, outs
  <2>3. QED
    BY <2>1, <2>2 DEF IInv
<1>2. CASE PlainWait
  <2>1. ValuesOK' /\ StrobeLines' /\ Value1Held'
    BY <1>2 DEF IInv, PlainWait, locals, outs, ValuesOK, StrobeLines, Value1Held,
       WaitLines, Valid1Lines, Valid2Lines, Valid3Lines
  <2>2. StrobesBool'
    BY <1>2, Zenon DEF IInv, StrobesBool, PlainWait, locals, outs
  <2>3. QED
    BY <2>1, <2>2 DEF IInv
<1>3. ASSUME NEW in1 \in InValues, Branch1Start(in1) PROVE IInv'
  <2>1. tmp1' \in 0..15
    BY <1>3, ConversionTypes DEF Branch1Start, InValues
  <2>2. ValuesOK' /\ StrobeLines' /\ Value1Held'
    BY <1>3, <2>1 DEF IInv, Branch1Start, ValuesOK, StrobeLines, Value1Held,
       WaitLines, Valid1Lines, Valid2Lines, Valid3Lines
  <2>3. StrobesBool'
    BY <1>3, Zenon DEF IInv, StrobesBool, Branch1Start
  <2>4. QED
    BY <2>2, <2>3 DEF IInv
<1>4. CASE Branch1Write
  <2>1. ValuesOK' /\ StrobeLines' /\ Value1Held'
    BY <1>4 DEF IInv, Branch1Write, locals, ValuesOK, StrobeLines, Value1Held,
       WaitLines, Valid1Lines, Valid2Lines, Valid3Lines
  <2>2. StrobesBool'
    BY <1>4, Zenon DEF IInv, StrobesBool, Branch1Write, locals
  <2>3. QED
    BY <2>1, <2>2 DEF IInv
<1>5. CASE Branch1End
  <2>1. ValuesOK' /\ StrobeLines' /\ Value1Held'
    BY <1>5 DEF IInv, Branch1End, locals, ValuesOK, StrobeLines, Value1Held,
       WaitLines, Valid1Lines, Valid2Lines, Valid3Lines
  <2>2. StrobesBool'
    BY <1>5, Zenon DEF IInv, StrobesBool, Branch1End, locals
  <2>3. QED
    BY <2>1, <2>2 DEF IInv
<1>6. ASSUME NEW in2 \in InValues, Branch2Read(in2) PROVE IInv'
  <2>1. tmp2' \in -8..7 /\ tmp1' \in 0..15
    BY <1>6, ConversionTypes DEF Branch2Read, InValues
  <2>2. ValuesOK' /\ StrobeLines' /\ Value1Held'
    BY <1>6, <2>1 DEF IInv, Branch2Read, ValuesOK, StrobeLines, Value1Held,
       WaitLines, Valid1Lines, Valid2Lines, Valid3Lines
  <2>3. StrobesBool'
    BY <1>6, Zenon DEF IInv, StrobesBool, Branch2Read
  <2>4. QED
    BY <2>2, <2>3 DEF IInv
<1>7. CASE Branch2Switch
  <2>1. Unsigned12(tmp2 * tmp2 * tmp2) \in 0..4095
    <3>1. tmp2 * tmp2 * tmp2 \in Int
      BY DEF IInv, ValuesOK
    <3>2. QED
      BY <3>1 DEF Unsigned12
  <2>2. ValuesOK' /\ StrobeLines' /\ Value1Held'
    <3>1. CASE tmp1 \in 0..3
      <4>1. /\ pc = 107 /\ pc' = 116
            /\ UNCHANGED <<tmp1, tmp2, tmp3, outTmp3, outs>>
        BY <1>7, <3>1 DEF Branch2Switch
      <4>2. outTmp2' \in 0..4095
        BY <1>7, <3>1, <2>1 DEF Branch2Switch
      <4>3. QED
        BY <4>1, <4>2 DEF IInv, outs, ValuesOK, StrobeLines, Value1Held,
           WaitLines, Valid1Lines, Valid2Lines, Valid3Lines
    <3>2. CASE tmp1 \in 4..7
      <4>1. /\ pc = 107 /\ pc' = 124 /\ outTmp2' = 4
            /\ UNCHANGED <<tmp1, tmp2, tmp3, outTmp3, outs>>
        BY <1>7, <3>2 DEF Branch2Switch
      <4>2. QED
        BY <4>1 DEF IInv, outs, ValuesOK, StrobeLines, Value1Held,
           WaitLines, Valid1Lines, Valid2Lines, Valid3Lines
    <3>3. CASE tmp1 = 11
      <4>1. /\ pc = 107 /\ pc' = 129 /\ outTmp2' = 1
            /\ UNCHANGED <<tmp1, tmp2, tmp3, outTmp3, outs>>
        BY <1>7, <3>3 DEF Branch2Switch
      <4>2. QED
        BY <4>1 DEF IInv, outs, ValuesOK, StrobeLines, Value1Held,
           WaitLines, Valid1Lines, Valid2Lines, Valid3Lines
    <3>4. CASE tmp1 \notin 0..7 /\ tmp1 # 11
      <4>1. pc = 107 /\ pc' = 133 /\ UNCHANGED <<tmp1, tmp2, tmp3, outTmp2, outTmp3, outs>>
        BY <1>7, <3>4 DEF Branch2Switch
      <4>2. QED
        BY <4>1 DEF IInv, outs, ValuesOK, StrobeLines, Value1Held,
           WaitLines, Valid1Lines, Valid2Lines, Valid3Lines
    <3>5. QED
      BY <3>1, <3>2, <3>3, <3>4
  <2>3. StrobesBool'
    BY <1>7, Zenon DEF IInv, StrobesBool, Branch2Switch, outs
  <2>4. QED
    BY <2>2, <2>3 DEF IInv
<1>8. CASE Branch2Fall
  <2>1. ValuesOK' /\ StrobeLines' /\ Value1Held'
    BY <1>8 DEF IInv, Branch2Fall, outs, ValuesOK, StrobeLines, Value1Held,
       WaitLines, Valid1Lines, Valid2Lines, Valid3Lines
  <2>2. StrobesBool'
    BY <1>8, Zenon DEF IInv, StrobesBool, Branch2Fall, outs
  <2>3. QED
    BY <2>1, <2>2 DEF IInv
<1>9. CASE Branch2End
  <2>1. Unsigned4(outTmp2) \in 0..15
    BY <1>9, ConversionTypes DEF IInv, ValuesOK
  <2>2. ValuesOK' /\ StrobeLines' /\ Value1Held'
    BY <1>9, <2>1 DEF IInv, Branch2End, locals, ValuesOK, StrobeLines, Value1Held,
       WaitLines, Valid1Lines, Valid2Lines, Valid3Lines
  <2>3. StrobesBool'
    BY <1>9, Zenon DEF IInv, StrobesBool, Branch2End, locals
  <2>4. QED
    BY <2>2, <2>3 DEF IInv
<1>10. ASSUME NEW in3 \in InValues, Branch3Read(in3) PROVE IInv'
  <2>1. tmp3' \in 0..15
    BY <1>10, ConversionTypes DEF Branch3Read, InValues
  <2>2. ValuesOK' /\ StrobeLines' /\ Value1Held'
    BY <1>10, <2>1 DEF IInv, Branch3Read, ValuesOK, StrobeLines, Value1Held,
       WaitLines, Valid1Lines, Valid2Lines, Valid3Lines
  <2>3. StrobesBool'
    BY <1>10, Zenon DEF IInv, StrobesBool, Branch3Read
  <2>4. QED
    BY <2>2, <2>3 DEF IInv
<1>11. CASE Branch3Switch
  <2>1. Unsigned12(tmp2 * tmp2 * tmp2) \in 0..4095
    <3>1. tmp2 * tmp2 * tmp2 \in Int
      BY DEF IInv, ValuesOK
    <3>2. QED
      BY <3>1 DEF Unsigned12
  <2>2. ValuesOK' /\ StrobeLines' /\ Value1Held'
    <3>1. CASE tmp3 \in 0..3
      <4>1. /\ pc = 142 /\ pc' = 151
            /\ UNCHANGED <<tmp1, tmp2, tmp3, outTmp3, outs>>
        BY <1>11, <3>1 DEF Branch3Switch
      <4>2. outTmp2' \in 0..4095
        BY <1>11, <3>1, <2>1 DEF Branch3Switch
      <4>3. QED
        BY <4>1, <4>2 DEF IInv, outs, ValuesOK, StrobeLines, Value1Held,
           WaitLines, Valid1Lines, Valid2Lines, Valid3Lines
    <3>2. CASE tmp3 \in 4..11
      <4>1. /\ pc = 142 /\ pc' = 166 /\ outTmp2' = 1
            /\ UNCHANGED <<tmp1, tmp2, tmp3, outTmp3, outs>>
        BY <1>11, <3>2 DEF Branch3Switch
      <4>2. QED
        BY <4>1 DEF IInv, outs, ValuesOK, StrobeLines, Value1Held,
           WaitLines, Valid1Lines, Valid2Lines, Valid3Lines
    <3>3. CASE tmp3 \notin 0..11
      <4>1. pc = 142 /\ pc' = 170 /\ UNCHANGED <<tmp1, tmp2, tmp3, outTmp2, outTmp3, outs>>
        BY <1>11, <3>3 DEF Branch3Switch
      <4>2. QED
        BY <4>1 DEF IInv, outs, ValuesOK, StrobeLines, Value1Held,
           WaitLines, Valid1Lines, Valid2Lines, Valid3Lines
    <3>4. QED
      BY <3>1, <3>2, <3>3
  <2>3. StrobesBool'
    BY <1>11, Zenon DEF IInv, StrobesBool, Branch3Switch, outs
  <2>4. QED
    BY <2>2, <2>3 DEF IInv
<1>12. CASE Branch3Fall
  <2>1. ValuesOK' /\ StrobeLines' /\ Value1Held'
    BY <1>12 DEF IInv, Branch3Fall, outs, ValuesOK, StrobeLines, Value1Held,
       WaitLines, Valid1Lines, Valid2Lines, Valid3Lines
  <2>2. StrobesBool'
    BY <1>12, Zenon DEF IInv, StrobesBool, Branch3Fall, outs
  <2>3. QED
    BY <2>1, <2>2 DEF IInv
<1>13. CASE Branch3Write
  <2>1. Unsigned4(outTmp3) \in 0..15
    BY <1>13, ConversionTypes DEF IInv, ValuesOK
  <2>2. ValuesOK' /\ StrobeLines' /\ Value1Held'
    BY <1>13, <2>1 DEF IInv, Branch3Write, locals, ValuesOK, StrobeLines, Value1Held,
       WaitLines, Valid1Lines, Valid2Lines, Valid3Lines
  <2>3. StrobesBool'
    BY <1>13, Zenon DEF IInv, StrobesBool, Branch3Write, locals
  <2>4. QED
    BY <2>2, <2>3 DEF IInv
<1>14. CASE Branch3End
  <2>1. ValuesOK' /\ StrobeLines' /\ Value1Held'
    BY <1>14 DEF IInv, Branch3End, locals, ValuesOK, StrobeLines, Value1Held,
       WaitLines, Valid1Lines, Valid2Lines, Valid3Lines
  <2>2. StrobesBool'
    BY <1>14, Zenon DEF IInv, StrobesBool, Branch3End, locals
  <2>3. QED
    BY <2>1, <2>2 DEF IInv
<1>15. CASE UNCHANGED vars
  <2>1. ValuesOK' /\ StrobeLines' /\ Value1Held'
    BY <1>15 DEF IInv, vars, locals, outs, ValuesOK, StrobeLines, Value1Held,
       WaitLines, Valid1Lines, Valid2Lines, Valid3Lines
  <2>2. StrobesBool'
    BY <1>15, Zenon DEF IInv, StrobesBool, vars, locals, outs
  <2>3. QED
    BY <2>1, <2>2 DEF IInv

<1>16. QED
  BY <1>1, <1>2, <1>3, <1>4, <1>5, <1>6, <1>7, <1>8, <1>9, <1>10, <1>11,
     <1>12, <1>13, <1>14, <1>15 DEF Next, Clocked

\* The type invariant of the thread's variables holds in every state.
THEOREM TypeCorrect == Spec => []TypeOK
BY InitIInv, NextIInv, IInvTypeOK, PTL DEF Spec

\* The out_valid strobes of the three branches are never high together.
THEOREM ValidsExclusive == Spec => []OneValidAtATime
<1>1. IInv => OneValidAtATime
  BY DEF IInv, StrobeLines, OneValidAtATime, Valid1Lines, Valid2Lines,
         Valid3Lines
<1>2. QED
  BY InitIInv, NextIInv, <1>1, PTL DEF Spec

\* When out_valid1 drops, out_value1 is the value the first branch read,
\* whichever fallthrough path of its switch the thread took.
THEOREM FirstBranchOutput == Spec => []Branch1Output
<1>1. IInv => Branch1Output
  BY DEF IInv, Value1Held, Branch1Output
<1>2. QED
  BY InitIInv, NextIInv, <1>1, PTL DEF Spec
-----------------------------------------------------------------------------
(* The thread implements BalancingHandshake under the mapping Handshake.   *)

\* The strobe and the turn the mapping gives a state.
HStrobe == IF outValid1 THEN 1 ELSE IF outValid2 THEN 2
           ELSE IF outValid3 THEN 3 ELSE 0
HTurn == IF pc \in {101, 107, 116, 124, 129, 130, 131, 133} THEN 2
         ELSE IF pc \in {137, 142, 151, 166, 167, 168, 170, 172} THEN 3
         ELSE 1

\* Before the reset branch runs, out_value1 has its initial value: the reset
\* step writes 0 to it and must map to a stutter.
Reset0 == pc = 0 => outValue1 = 0

\* No step of the thread returns to the state before reset.
LEMMA NextReset0 == IInv /\ Reset0 /\ [Next]_vars => Reset0'
<1> SUFFICES ASSUME IInv, Reset0, [Next]_vars PROVE Reset0'
  OBVIOUS
<1>1. CASE UNCHANGED vars
  BY <1>1 DEF vars, locals, outs, Reset0
<1>2. CASE Next
  <2>1. pc' # 0
    BY <1>2 DEF Next, Clocked, Reset, PlainWait, Branch1Start, Branch1Write,
       Branch1End, Branch2Read, Branch2Switch, Branch2Fall, Branch2End,
       Branch3Read, Branch3Switch, Branch3Fall, Branch3Write, Branch3End
  <2>2. QED
    BY <2>1 DEF Reset0
<1>3. QED
  BY <1>1, <1>2

\* Every step of the thread maps to a step of the handshake or to a
\* stutter: one step per action.
LEMMA StepMap ==
    IInv /\ Reset0 /\ [Next]_vars => [Handshake!Next]_Handshake!hvars
<1> SUFFICES ASSUME IInv, IInv', Reset0, [Next]_vars
             PROVE  [Handshake!Next]_Handshake!hvars
  BY NextIInv
<1> DEFINE Stutter ==
        /\ HStrobe' = HStrobe /\ HTurn' = HTurn
        /\ tmp1' = tmp1 /\ outValue1' = outValue1
<1>0. Stutter => [Handshake!Next]_Handshake!hvars
  BY DEF Handshake!hvars, HStrobe, HTurn
<1>1. ASSUME NEW r \in BOOLEAN, Reset(r) PROVE [Handshake!Next]_Handshake!hvars
  <2>1. pc = 0 /\ pc' \in {61, 62} /\ tmp1' = tmp1
    BY <1>1 DEF Reset
  <2>2. outValid1 = FALSE /\ outValid2 = FALSE /\ outValid3 = FALSE /\ outValue1 = 0
    BY <2>1 DEF IInv, StrobeLines, Valid1Lines, Valid2Lines, Valid3Lines, Reset0
  <2>3. outValid1' = FALSE /\ outValid2' = FALSE /\ outValid3' = FALSE /\ outValue1' = 0
    <3>1. CASE r
      BY <1>1, <3>1 DEF Reset
    <3>2. CASE ~r
      BY <1>1, <2>2, <3>2 DEF Reset, outs
    <3>3. QED
      BY <3>1, <3>2
  <2>4. Stutter
    BY <2>1, <2>2, <2>3 DEF HStrobe, HTurn
  <2>5. QED
    BY <2>4, <1>0
<1>2. CASE PlainWait
  <2>1. /\ HStrobe' = HStrobe /\ HTurn' = HTurn
        /\ tmp1' = tmp1 /\ outValue1' = outValue1
    BY <1>2 DEF PlainWait, outs, locals, HStrobe, HTurn
  <2>2. QED
    BY <2>1, <1>0
<1>3. ASSUME NEW in1 \in InValues, Branch1Start(in1)
      PROVE [Handshake!Next]_Handshake!hvars
  <2>1. /\ pc = 68 /\ pc' \in {78, 87, 93, 98}
        /\ outValid1' = TRUE /\ UNCHANGED <<outValid2, outValid3>>
    BY <1>3 DEF Branch1Start
  <2>2. outValid1 = FALSE /\ outValid2 = FALSE /\ outValid3 = FALSE
    BY <2>1 DEF IInv, StrobeLines, Valid1Lines, Valid2Lines, Valid3Lines
  <2>3. HStrobe = 0 /\ HStrobe' = 1 /\ HTurn = 1 /\ HTurn' = 1
    BY <2>1, <2>2 DEF HStrobe, HTurn
  <2>4. tmp1' \in 0..15 /\ outValue1' \in 0..15
    BY <2>1 DEF IInv, ValuesOK
  <2>5. Handshake!Raise(tmp1')
    BY <2>1, <2>3, <2>4 DEF Handshake!Raise, Handshake!Values, HStrobe, HTurn
  <2>6. QED
    BY <2>4, <2>5 DEF Handshake!Next, Handshake!Values
<1>4. CASE Branch1Write
  <2>1. /\ pc \in {81, 83, 89, 94} /\ pc' \in {83, 87, 93, 98}
        /\ UNCHANGED <<tmp1, outValid1, outValid2, outValid3>>
    BY <1>4 DEF Branch1Write, locals
  <2>2. outValid1 = TRUE
    BY <2>1 DEF IInv, StrobeLines, Valid1Lines, Valid2Lines, Valid3Lines
  <2>3. HStrobe = 1 /\ HStrobe' = 1 /\ HTurn = 1 /\ HTurn' = 1
    BY <2>1, <2>2 DEF HStrobe, HTurn
  <2>4. outValue1' \in 0..15
    BY DEF IInv, ValuesOK
  <2>5. Handshake!Work
    BY <2>1, <2>3, <2>4 DEF Handshake!Work, Handshake!Values, HStrobe, HTurn
  <2>6. QED
    BY <2>5 DEF Handshake!Next
<1>5. CASE Branch1End
  <2>1. /\ pc = 98 /\ pc' = 101 /\ outValid1' = FALSE
        /\ UNCHANGED <<tmp1, outValue1, outValid2, outValid3>>
    BY <1>5 DEF Branch1End, locals
  <2>2. outValid1 = TRUE /\ outValid2 = FALSE /\ outValid3 = FALSE
        /\ outValue1 = tmp1
    BY <2>1 DEF IInv, StrobeLines, Valid1Lines, Valid2Lines, Valid3Lines,
       Value1Held
  <2>3. HStrobe = 1 /\ HStrobe' = 0 /\ HTurn = 1 /\ HTurn' = 2
    BY <2>1, <2>2 DEF HStrobe, HTurn
  <2>4. Handshake!Drop
    BY <2>1, <2>2, <2>3 DEF Handshake!Drop, HStrobe, HTurn
  <2>5. QED
    BY <2>4 DEF Handshake!Next
<1>6. ASSUME NEW in2 \in InValues, Branch2Read(in2)
      PROVE [Handshake!Next]_Handshake!hvars
  <2>1. /\ pc = 101 /\ pc' = 107 /\ outValid2' = TRUE
        /\ UNCHANGED <<outValue1, outValid1, outValid3>>
    BY <1>6 DEF Branch2Read
  <2>2. outValid1 = FALSE /\ outValid2 = FALSE /\ outValid3 = FALSE
    BY <2>1 DEF IInv, StrobeLines, Valid1Lines, Valid2Lines, Valid3Lines
  <2>3. HStrobe = 0 /\ HStrobe' = 2 /\ HTurn = 2 /\ HTurn' = 2
    BY <2>1, <2>2 DEF HStrobe, HTurn
  <2>4. tmp1' \in 0..15 /\ outValue1' \in 0..15
    BY <2>1 DEF IInv, ValuesOK
  <2>5. Handshake!Raise(tmp1')
    BY <2>1, <2>3, <2>4 DEF Handshake!Raise, Handshake!Values, HStrobe, HTurn
  <2>6. QED
    BY <2>4, <2>5 DEF Handshake!Next, Handshake!Values
<1>7. CASE Branch2Switch
  <2>1. /\ HStrobe' = HStrobe /\ HTurn' = HTurn
        /\ tmp1' = tmp1 /\ outValue1' = outValue1
    BY <1>7 DEF Branch2Switch, outs, locals, HStrobe, HTurn
  <2>2. QED
    BY <2>1, <1>0
<1>8. CASE Branch2Fall
  <2>1. /\ HStrobe' = HStrobe /\ HTurn' = HTurn
        /\ tmp1' = tmp1 /\ outValue1' = outValue1
    BY <1>8 DEF Branch2Fall, outs, locals, HStrobe, HTurn
  <2>2. QED
    BY <2>1, <1>0
<1>9. CASE Branch2End
  <2>1. /\ pc = 133 /\ pc' = 137 /\ outValid2' = FALSE
        /\ UNCHANGED <<tmp1, outValue1, outValid1, outValid3>>
    BY <1>9 DEF Branch2End, locals
  <2>2. outValid1 = FALSE /\ outValid2 = TRUE /\ outValid3 = FALSE
    BY <2>1 DEF IInv, StrobeLines, Valid1Lines, Valid2Lines, Valid3Lines
  <2>3. HStrobe = 2 /\ HStrobe' = 0 /\ HTurn = 2 /\ HTurn' = 3
    BY <2>1, <2>2 DEF HStrobe, HTurn
  <2>4. Handshake!Drop
    BY <2>1, <2>3 DEF Handshake!Drop, HStrobe, HTurn
  <2>5. QED
    BY <2>4 DEF Handshake!Next
<1>10. ASSUME NEW in3 \in InValues, Branch3Read(in3)
      PROVE [Handshake!Next]_Handshake!hvars
  <2>1. /\ pc = 137 /\ pc' = 142 /\ outValid3' = TRUE
        /\ UNCHANGED <<tmp1, outValue1, outValid1, outValid2>>
    BY <1>10 DEF Branch3Read
  <2>2. outValid1 = FALSE /\ outValid2 = FALSE /\ outValid3 = FALSE
    BY <2>1 DEF IInv, StrobeLines, Valid1Lines, Valid2Lines, Valid3Lines
  <2>3. HStrobe = 0 /\ HStrobe' = 3 /\ HTurn = 3 /\ HTurn' = 3
    BY <2>1, <2>2 DEF HStrobe, HTurn
  <2>4. tmp1' \in 0..15 /\ outValue1' \in 0..15
    BY <2>1 DEF IInv, ValuesOK
  <2>5. Handshake!Raise(tmp1')
    BY <2>1, <2>3, <2>4 DEF Handshake!Raise, Handshake!Values, HStrobe, HTurn
  <2>6. QED
    BY <2>4, <2>5 DEF Handshake!Next, Handshake!Values
<1>11. CASE Branch3Switch
  <2>1. /\ HStrobe' = HStrobe /\ HTurn' = HTurn
        /\ tmp1' = tmp1 /\ outValue1' = outValue1
    BY <1>11 DEF Branch3Switch, outs, locals, HStrobe, HTurn
  <2>2. QED
    BY <2>1, <1>0
<1>12. CASE Branch3Fall
  <2>1. /\ HStrobe' = HStrobe /\ HTurn' = HTurn
        /\ tmp1' = tmp1 /\ outValue1' = outValue1
    BY <1>12 DEF Branch3Fall, outs, locals, HStrobe, HTurn
  <2>2. QED
    BY <2>1, <1>0
<1>13. CASE Branch3Write
  <2>1. /\ HStrobe' = HStrobe /\ HTurn' = HTurn
        /\ tmp1' = tmp1 /\ outValue1' = outValue1
    BY <1>13 DEF Branch3Write, outs, locals, HStrobe, HTurn
  <2>2. QED
    BY <2>1, <1>0
<1>14. CASE Branch3End
  <2>1. /\ pc = 172 /\ pc' = 68 /\ outValid3' = FALSE
        /\ UNCHANGED <<tmp1, outValue1, outValid1, outValid2>>
    BY <1>14 DEF Branch3End, locals
  <2>2. outValid1 = FALSE /\ outValid2 = FALSE /\ outValid3 = TRUE
    BY <2>1 DEF IInv, StrobeLines, Valid1Lines, Valid2Lines, Valid3Lines
  <2>3. HStrobe = 3 /\ HStrobe' = 0 /\ HTurn = 3 /\ HTurn' = 1
    BY <2>1, <2>2 DEF HStrobe, HTurn
  <2>4. Handshake!Drop
    BY <2>1, <2>3 DEF Handshake!Drop, HStrobe, HTurn
  <2>5. QED
    BY <2>4 DEF Handshake!Next
<1>15. CASE UNCHANGED vars
  <2>1. /\ HStrobe' = HStrobe /\ HTurn' = HTurn
        /\ tmp1' = tmp1 /\ outValue1' = outValue1
    BY <1>15 DEF vars, outs, locals, HStrobe, HTurn
  <2>2. QED
    BY <2>1, <1>0
<1>16. QED
  BY <1>1, <1>2, <1>3, <1>4, <1>5, <1>6, <1>7, <1>8, <1>9, <1>10, <1>11,
     <1>12, <1>13, <1>14, <1>15 DEF Next, Clocked

\* balancing::entry implements the handshake of BalancingHandshake: the
\* strobes rise one at a time in the order 1, 2, 3, and out_value1 moves
\* only under out_valid1 and holds the latched input when it drops.
THEOREM Refinement == Spec => HandshakeSpec
<1>1. Init => Handshake!Init
  BY DEF Init, Handshake!Init
<1>2. Init => Reset0
  BY DEF Init, Reset0
<1>3. QED
  BY <1>1, <1>2, InitIInv, NextIInv, NextReset0, StepMap, PTL
     DEF Spec, HandshakeSpec, Handshake!Spec
=============================================================================
