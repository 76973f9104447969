------------------------- MODULE BsmTraceFileProofs -------------------------
(***************************************************************************)
(* Proofs about the trace file of BsmTraceFile, for every value of the     *)
(* constants that satisfies the module's assumptions.                      *)
(***************************************************************************)
EXTENDS BsmTraceFile, TLAPS

USE KindAssumption, BoundsAssumption

-----------------------------------------------------------------------------
(* Lemmas on the operators of one trace.                                   *)

(* Every operator that rewrites a trace record on a change keeps it a      *)
(* Trace, given the object values are Values.                              *)
LEMMA TraceOps ==
  ASSUME NEW t \in Trace, val \in [Objs -> Values]
  PROVE  /\ Unfired(t) \in Trace
         /\ Printed(t) \in Trace
         /\ Flushed(t) \in Trace
BY DEF Trace, Unfired, Printed, Flushed, Values, NoValue

(* The time stamps are pairs of naturals.                                   *)
LEMMA StampType ==
  ASSUME now \in 0 .. MaxTime, dcount \in 0 .. MaxDelta
  PROVE  /\ Stamp \in Nat \X Nat
         /\ PrintedStamp \in Nat \X Nat
BY DEF Stamp, PrintedStamp

(* Replacing one element of a sequence by an element of the same set keeps *)
(* it a sequence of that set, of the same length.                          *)
LEMMA ExceptSeq ==
  ASSUME NEW S, NEW s \in Seq(S), NEW i \in 1 .. Len(s), NEW x \in S
  PROVE  /\ [s EXCEPT ![i] = x] \in Seq(S)
         /\ Len([s EXCEPT ![i] = x]) = Len(s)
OBVIOUS

-----------------------------------------------------------------------------
(* The type invariant.                                                       *)

(* Every step keeps the type invariant: one step per action of Next.     *)
LEMMA NextTypeOK == TypeOK /\ [Next]_vars => TypeOK'
<1> SUFFICES ASSUME TypeOK, [Next]_vars PROVE TypeOK'
  OBVIOUS
<1>1. ASSUME NEW o \in Objs, AddTrace(o) PROVE TypeOK'
  <2>1. [obj |-> o, ttype |-> "ORIG", trig |-> "BOTH",
         old |-> val[o], shown |-> NoValue] \in Trace
    BY DEF TypeOK, Trace, TraceTypes, Triggers, NoValue, Values
  <2>2. QED
    BY <1>1, <2>1 DEF AddTrace, TypeOK, Idle
<1>2. ASSUME NEW i \in -1 .. MaxTraces, NEW g \in Triggers,
             NEW y \in TraceTypes, SetBsmTraceType(i, g, y)
      PROVE  TypeOK'
  <2> DEFINE k == IF i = -1 THEN Len(traces) ELSE i
  <2>1. CASE k \in 1 .. Len(traces)
    <3>1. traces[k] \in Trace
      BY <2>1 DEF TypeOK
    <3>2. [traces[k] EXCEPT !.ttype = y, !.trig = g] \in Trace
      BY <3>1 DEF Trace
    <3>3. traces' = [traces EXCEPT ![k] = [traces[k] EXCEPT !.ttype = y, !.trig = g]]
      BY <1>2, <2>1 DEF SetBsmTraceType
    <3>4. traces' \in Seq(Trace) /\ Len(traces') = Len(traces)
      BY <2>1, <3>2, <3>3, ExceptSeq DEF TypeOK
    <3>5. QED
      BY <1>2, <2>1, <3>4 DEF SetBsmTraceType, TypeOK
  <2>2. CASE k \notin 1 .. Len(traces)
    BY <1>2, <2>2 DEF SetBsmTraceType, TypeOK, Faults
  <2>3. QED
    BY <2>1, <2>2
<1>3. ASSUME NEW p \in PrintTypes, SetBsmPrintType(p) PROVE TypeOK'
  BY <1>3 DEF SetBsmPrintType, TypeOK
<1>4. ASSUME NEW b \in BOOLEAN, EnableBsmTrace(b) PROVE TypeOK'
  BY <1>4 DEF EnableBsmTrace, TypeOK
<1>5. CASE CycleStep
  <2> DEFINE i == pos
             t == traces[pos]
  <2>1. pos \in 1 .. Len(traces) /\ t \in Trace
    BY <1>5 DEF CycleStep, TypeOK
  <2>2. /\ Unfired(t) \in Trace
        /\ Printed(t) \in Trace
        /\ Flushed(t) \in Trace
    BY <2>1, TraceOps DEF TypeOK
  <2>3. pos + 1 <= Len(traces) => traces[pos + 1] \in Trace
                                 /\ Printed(traces[pos + 1]) \in Trace
    BY <2>1, TraceOps DEF TypeOK
  <2>4. PrintedStamp \in Nat \X Nat
    BY StampType DEF TypeOK
  <2>5. PrintTimeStamp => /\ lastPrinted' \in (Nat \cup {-1}) \X (Nat \cup {-1})
                          /\ timePrinted' \in BOOLEAN
    BY <2>4 DEF PrintTimeStamp, TypeOK
  <2>6. UNCHANGED <<val, initialized, enabled, printType, prevStamp, closed,
                    now, dcount, kphase>>
    BY <1>5 DEF CycleStep
  <2>7. ASSUME NEW u \in Trace,
               traces' = [traces EXCEPT ![pos] = u], pos' = pos + 1,
               fault' \in Faults,
               lastPrinted' \in (Nat \cup {-1}) \X (Nat \cup {-1}),
               timePrinted' \in BOOLEAN
        PROVE  TypeOK'
    <3>1. traces' \in Seq(Trace) /\ Len(traces') = Len(traces)
      BY <2>1, <2>7, ExceptSeq DEF TypeOK
    <3>2. QED
      BY <2>1, <2>6, <2>7, <3>1 DEF TypeOK
  <2>8. ASSUME fault' \in Faults, UNCHANGED <<traces, pos>>,
               lastPrinted' \in (Nat \cup {-1}) \X (Nat \cup {-1}),
               timePrinted' \in BOOLEAN
        PROVE  TypeOK'
    BY <2>6, <2>8 DEF TypeOK
  <2>9. PrintTimeStamp => /\ lastPrinted' \in (Nat \cup {-1}) \X (Nat \cup {-1})
                          /\ timePrinted' \in BOOLEAN
    BY <2>5
  <2>10. CASE /\ Fires(t) /\ enabled /\ t.ttype = "VAL"
              /\ ~FlushFaults(t) /\ pos + 1 <= Len(traces)
              /\ PrintTimeStamp
              /\ traces' = [traces EXCEPT ![pos] = Flushed(t),
                                          ![pos + 1] = Printed(traces[pos + 1])]
              /\ pos' = pos + 2
              /\ UNCHANGED fault
    <3> DEFINE w == [traces EXCEPT ![pos] = Flushed(t)]
    <3>1. traces' = [w EXCEPT ![pos + 1] = Printed(traces[pos + 1])]
      BY <2>10
    <3>2. w \in Seq(Trace) /\ Len(w) = Len(traces)
      BY <2>1, <2>2, ExceptSeq DEF TypeOK
    <3>3. traces' \in Seq(Trace) /\ Len(traces') = Len(traces)
      BY <2>1, <2>3, <2>10, <3>1, <3>2, ExceptSeq
    <3>4. QED
      BY <2>1, <2>6, <2>9, <2>10, <3>3 DEF TypeOK
  <2>11. QED
    BY <1>5, <2>2, <2>7, <2>8, <2>9, <2>10 DEF CycleStep, TypeOK, Faults
<1>6. CASE CycleEnd
  BY <1>6 DEF CycleEnd, TypeOK
<1>7. ASSUME NEW o \in Objs, NEW v \in Values, Update(o, v) PROVE TypeOK'
  BY <1>7 DEF Update, TypeOK, Values, fileVars
<1>8. ASSUME NEW isDelta \in BOOLEAN, CycleBegin(isDelta),
             kphase' \in {"update", "delta", "timed"},
             UNCHANGED <<val, now, dcount>>
      PROVE  TypeOK'
  <2>1. Stamp \in Nat \X Nat
    BY StampType DEF TypeOK
  <2>2. CASE UNCHANGED fileVars
    BY <1>8, <2>2 DEF TypeOK, fileVars
  <2>3. CASE DoInitialize
    <3>1. ASSUME NEW j \in 1 .. Len(traces) PROVE InitialDump(traces[j]) \in Trace
      <4>1. traces[j] \in Trace
        BY DEF TypeOK
      <4>2. Printed(traces[j]) \in Trace /\ Flushed(traces[j]) \in Trace
        BY <4>1, TraceOps DEF TypeOK
      <4>3. VcdDump(traces[j]) \in Trace /\ SimpleDump(traces[j]) \in Trace
        BY <4>1, <4>2 DEF VcdDump, SimpleDump
      <4>4. QED
        BY <4>3 DEF InitialDump
    <3>2. traces' = [j \in 1 .. Len(traces) |-> InitialDump(traces[j])]
      BY <2>3 DEF DoInitialize, TypeOK
    <3>3. traces' \in Seq(Trace) /\ Len(traces') = Len(traces)
      BY <3>1, <3>2 DEF TypeOK
    <3>4. fault' \in Faults
      BY <2>3 DEF DoInitialize, Faults
    <3>5. QED
      BY <1>8, <2>1, <2>3, <3>3, <3>4 DEF DoInitialize, TypeOK
  <2>4. CASE /\ prevStamp' = IF Later(Stamp, prevStamp) THEN Stamp ELSE prevStamp
             /\ UNCHANGED <<traces, initialized, enabled, printType, pos,
                            timePrinted, lastPrinted, fault, closed>>
    BY <1>8, <2>1, <2>4 DEF TypeOK
  <2>5. CASE /\ pos' = 1 /\ timePrinted' = FALSE
             /\ UNCHANGED <<traces, initialized, enabled, printType, prevStamp,
                            lastPrinted, fault, closed>>
    <3>1. pos' \in 0 .. MaxTraces + 2
      BY <2>5
    <3>2. QED
      BY <1>8, <2>5, <3>1 DEF TypeOK
  <2>6. \/ UNCHANGED fileVars
        \/ DoInitialize
        \/ /\ prevStamp' = IF Later(Stamp, prevStamp) THEN Stamp ELSE prevStamp
           /\ UNCHANGED <<traces, initialized, enabled, printType, pos,
                          timePrinted, lastPrinted, fault, closed>>
        \/ /\ pos' = 1 /\ timePrinted' = FALSE
           /\ UNCHANGED <<traces, initialized, enabled, printType, prevStamp,
                          lastPrinted, fault, closed>>
    BY <1>8, Zenon DEF CycleBegin
  <2>7. QED
    BY <2>2, <2>3, <2>4, <2>5, <2>6
<1>9. CASE DeltaCycleEnd
  BY <1>9, <1>8 DEF DeltaCycleEnd
<1>10. CASE NextDelta
  BY <1>10 DEF NextDelta, TypeOK, fileVars
<1>11. CASE TimeStepEnd
  BY <1>11, <1>8 DEF TimeStepEnd
<1>12. ASSUME NEW d \in 1 .. 2, AdvanceTime(d) PROVE TypeOK'
  BY <1>12 DEF AdvanceTime, TypeOK, fileVars
<1>13. CASE Close
  <2>1. PrintedStamp \in Nat \X Nat
    BY StampType DEF TypeOK
  <2>2. QED
    BY <1>13, <2>1 DEF Close, TypeOK
<1>15. CASE UNCHANGED vars
  BY <1>15 DEF TypeOK, vars, fileVars, kernelVars
<1>16. QED
  BY <1>1, <1>2, <1>3, <1>4, <1>5, <1>6, <1>7, <1>9, <1>10, <1>11,
     <1>12, <1>13, <1>15 DEF Next

(* TypeOK holds in every reachable state: the trace list stays a bounded   *)
(* list of well-formed trace records, the loop cursor of cycle() stays     *)
(* within two past the last trace, and the time stamps stay pairs of       *)
(* naturals.                                                                *)
THEOREM TypeCorrect == Spec => []TypeOK
<1>1. Init => TypeOK
  <2> SUFFICES ASSUME Init PROVE TypeOK
    OBVIOUS
  <2>1. traces \in Seq(Trace) /\ Len(traces) <= MaxTraces
    BY DEF Init
  <2>2. lastPrinted \in (Nat \cup {-1}) \X (Nat \cup {-1})
    BY DEF Init
  <2>3. printType \in PrintTypes /\ fault \in Faults /\ val \in [Objs -> Values]
    BY DEF Init, PrintTypes, Faults
  <2>4. prevStamp \in Nat \X Nat /\ pos \in 0 .. MaxTraces + 2
        /\ now \in 0 .. MaxTime /\ dcount \in 0 .. MaxDelta
    BY DEF Init
  <2>5. /\ initialized \in BOOLEAN /\ enabled \in BOOLEAN
        /\ timePrinted \in BOOLEAN /\ closed \in BOOLEAN
    BY DEF Init
  <2>6. kphase \in {"update", "delta", "timed"}
    BY DEF Init
  <2>7. QED
    BY <2>1, <2>2, <2>3, <2>4, <2>5, <2>6 DEF TypeOK
<1>2. TypeOK /\ [Next]_vars => TypeOK'
  BY NextTypeOK
<1>3. QED
  BY <1>1, <1>2, PTL DEF Spec

-----------------------------------------------------------------------------
(* The file shows every tracked trace's current value after a cycle().     *)

(* Trace i, if tracked, shows its old_value, and its old_value is the     *)
(* current value once the loop of cycle() has passed it.                   *)
Current(i) ==
  Tracked(traces[i]) =>
    /\ traces[i].shown = traces[i].old
    /\ i < pos => traces[i].old = val[traces[i].obj]

(* The strengthening of PrintedCycleCurrent: the loop runs only after      *)
(* initialization, and while tracing is enabled and nothing failed every   *)
(* trace satisfies Current.                                                 *)
PrintedInv ==
  /\ pos # 0 => initialized
  /\ initialized /\ enabled /\ fault = "none" =>
       \A i \in DOMAIN traces : Current(i)

(* The trace operators keep the traced object, the trace type and the     *)
(* trigger of a record.                                                    *)
LEMMA TraceOpsKeep ==
  ASSUME NEW t \in Trace
  PROVE  /\ Unfired(t).obj = t.obj /\ Unfired(t).ttype = t.ttype
         /\ Unfired(t).trig = t.trig
         /\ Printed(t).obj = t.obj /\ Printed(t).ttype = t.ttype
         /\ Printed(t).trig = t.trig
         /\ Flushed(t).obj = t.obj /\ Flushed(t).ttype = t.ttype
         /\ Flushed(t).trig = t.trig
BY DEF Trace, Unfired, Printed, Flushed

(* write(fp) on a tracked trace shows the current value and records it.   *)
LEMMA PrintedTracked ==
  ASSUME NEW t \in Trace, Tracked(t)
  PROVE  Printed(t).shown = val[t.obj] /\ Printed(t).old = val[t.obj]
BY DEF Trace, Tracked, Printed

(* A tracked trace whose changed() is false already records the current   *)
(* value, and the write(NULL) of Unfired keeps shown = old.                *)
LEMMA UnfiredTracked ==
  ASSUME NEW t \in Trace, Tracked(t), ~Fires(t), t.shown = t.old
  PROVE  Unfired(t).shown = Unfired(t).old /\ Unfired(t).old = val[t.obj]
<1>1. val[t.obj] = t.old
  BY KindAssumption DEF Trace, Tracked, Fires, EdgeChanged, LogicChanged, Kinds
<1>2. QED
  BY <1>1 DEF Trace, Unfired

(* Every step keeps PrintedInv when the setters are not called after      *)
(* initialization: one step per action of Next.                             *)
LEMMA NextPrintedInv ==
  ASSUME AllowLateConfig = FALSE
  PROVE  TypeOK /\ PrintedInv /\ [Next]_vars => PrintedInv'
<1> SUFFICES ASSUME TypeOK, PrintedInv, [Next]_vars PROVE PrintedInv'
  OBVIOUS
<1>1. ASSUME NEW o \in Objs, AddTrace(o) PROVE PrintedInv'
  BY <1>1 DEF AddTrace, Idle, PrintedInv
<1>2. ASSUME NEW i \in -1 .. MaxTraces, NEW g \in Triggers,
             NEW y \in TraceTypes, SetBsmTraceType(i, g, y)
      PROVE  PrintedInv'
  BY <1>2 DEF SetBsmTraceType, ConfigAllowed, Idle, PrintedInv
<1>3. ASSUME NEW p \in PrintTypes, SetBsmPrintType(p) PROVE PrintedInv'
  BY <1>3 DEF SetBsmPrintType, ConfigAllowed, Idle, PrintedInv
<1>4. ASSUME NEW b \in BOOLEAN, EnableBsmTrace(b) PROVE PrintedInv'
  BY <1>4 DEF EnableBsmTrace, ConfigAllowed, Idle, PrintedInv
<1>5. CASE CycleStep
  <2> DEFINE t == traces[pos]
  <2>1. /\ pos \in 1 .. Len(traces) /\ fault = "none"
        /\ UNCHANGED <<val, initialized, enabled>>
    BY <1>5 DEF CycleStep
  <2>2. initialized
    BY <2>1 DEF PrintedInv
  <2>3. SUFFICES ASSUME enabled, fault' = "none"
                 PROVE  \A j \in DOMAIN traces' : Current(j)'
    BY <2>1, <2>2 DEF PrintedInv
  <2>4. \A j \in DOMAIN traces : Current(j)
    BY <2>1, <2>2, <2>3 DEF PrintedInv
  <2>5. t \in Trace /\ traces \in Seq(Trace)
    BY <2>1 DEF TypeOK
  <2>6. CASE /\ ~Fires(t)
             /\ traces' = [traces EXCEPT ![pos] = Unfired(t)]
             /\ pos' = pos + 1
    <3> SUFFICES ASSUME NEW j \in DOMAIN traces' PROVE Current(j)'
      OBVIOUS
    <3>1. j \in 1 .. Len(traces)
      BY <2>1, <2>6
    <3>2. CASE j = pos
      <4>1. SUFFICES ASSUME Tracked(Unfired(t))
                     PROVE  /\ Unfired(t).shown = Unfired(t).old
                            /\ Unfired(t).old = val[Unfired(t).obj]
        BY <2>1, <2>6, <3>2 DEF Current
      <4>2. Tracked(t)
        BY <2>5, <4>1, TraceOpsKeep DEF Tracked
      <4>3. t.shown = t.old
        BY <2>1, <2>4, <4>2 DEF Current
      <4>4. QED
        BY <2>5, <2>6, <4>2, <4>3, UnfiredTracked, TraceOpsKeep
    <3>3. CASE j # pos
      <4>1. traces'[j] = traces[j] /\ (j < pos' => j < pos \/ j = pos)
        BY <2>1, <2>6, <3>1, <3>3
      <4>2. QED
        BY <2>1, <2>4, <3>1, <3>3, <4>1 DEF Current
    <3>4. QED
      BY <3>2, <3>3
  <2>7. CASE /\ Fires(t) /\ t.ttype = "ORIG"
             /\ traces' = [traces EXCEPT ![pos] = Printed(t)]
             /\ pos' = pos + 1
    <3> SUFFICES ASSUME NEW j \in DOMAIN traces' PROVE Current(j)'
      OBVIOUS
    <3>1. j \in 1 .. Len(traces)
      BY <2>1, <2>7
    <3>2. CASE j = pos
      <4>1. SUFFICES ASSUME Tracked(Printed(t))
                     PROVE  /\ Printed(t).shown = Printed(t).old
                            /\ Printed(t).old = val[Printed(t).obj]
        BY <2>1, <2>7, <3>2 DEF Current
      <4>2. Tracked(t)
        BY <2>5, <4>1, TraceOpsKeep DEF Tracked
      <4>3. QED
        BY <2>1, <2>5, <4>2, PrintedTracked, TraceOpsKeep
    <3>3. CASE j # pos
      <4>1. traces'[j] = traces[j] /\ (j < pos' => j < pos \/ j = pos)
        BY <2>1, <2>7, <3>1, <3>3
      <4>2. QED
        BY <2>1, <2>4, <3>1, <3>3, <4>1 DEF Current
    <3>4. QED
      BY <3>2, <3>3
  <2>8. CASE /\ t.ttype = "VAL" /\ pos + 1 <= Len(traces)
             /\ traces' = [traces EXCEPT ![pos] = Flushed(t),
                                         ![pos + 1] = Printed(traces[pos + 1])]
             /\ pos' = pos + 2
    <3> DEFINE u == traces[pos + 1]
    <3> SUFFICES ASSUME NEW j \in DOMAIN traces' PROVE Current(j)'
      OBVIOUS
    <3>0. u \in Trace
      BY <2>1, <2>5, <2>8
    <3>1. j \in 1 .. Len(traces)
      BY <2>1, <2>8
    <3>2. CASE j = pos
      <4>1. ~Tracked(Flushed(t))
        BY <2>5, <2>8, TraceOpsKeep DEF Tracked
      <4>2. QED
        BY <2>1, <2>8, <3>2, <4>1 DEF Current
    <3>3. CASE j = pos + 1
      <4>1. SUFFICES ASSUME Tracked(Printed(u))
                     PROVE  /\ Printed(u).shown = Printed(u).old
                            /\ Printed(u).old = val[Printed(u).obj]
        BY <2>1, <2>8, <3>3 DEF Current
      <4>2. Tracked(u)
        BY <3>0, <4>1, TraceOpsKeep DEF Tracked
      <4>3. QED
        BY <2>1, <3>0, <4>2, PrintedTracked, TraceOpsKeep
    <3>4. CASE j # pos /\ j # pos + 1
      <4>1. traces'[j] = traces[j] /\ (j < pos' => j < pos \/ j = pos \/ j = pos + 1)
        BY <2>1, <2>8, <3>1, <3>4
      <4>2. QED
        BY <2>1, <2>4, <3>1, <3>4, <4>1 DEF Current
    <3>5. QED
      BY <3>2, <3>3, <3>4
  <2>9. QED
    BY <1>5, <2>3, <2>6, <2>7, <2>8 DEF CycleStep
<1>6. CASE CycleEnd
  <2>1. pos' = 0 /\ UNCHANGED <<traces, val, initialized, enabled, fault>>
    BY <1>6 DEF CycleEnd
  <2>2. ASSUME initialized, enabled, fault = "none",
               NEW j \in DOMAIN traces
        PROVE  Current(j)'
    <3>1. j < pos /\ Current(j)
      BY <1>6, <2>2 DEF CycleEnd, PrintedInv, TypeOK
    <3>2. QED
      BY <2>1, <3>1 DEF Current
  <2>3. QED
    BY <2>1, <2>2 DEF PrintedInv
<1>7. ASSUME NEW o \in Objs, NEW v \in Values, Update(o, v) PROVE PrintedInv'
  <2>1. pos = 0 /\ UNCHANGED <<traces, initialized, enabled, fault, pos>>
    BY <1>7 DEF Update, Idle, fileVars
  <2>2. QED
    BY <2>1 DEF PrintedInv, Current, TypeOK
<1>8. ASSUME NEW isDelta \in BOOLEAN, CycleBegin(isDelta), Idle,
             UNCHANGED val
      PROVE  PrintedInv'
  <2>1. CASE UNCHANGED fileVars
    BY <1>8, <2>1 DEF PrintedInv, Current, fileVars
  <2>2. CASE DoInitialize
    <3>1. pos = 0 /\ pos' = 0 /\ initialized' = TRUE
      BY <1>8, <2>2 DEF DoInitialize, Idle
    <3>2. traces' = [j \in 1 .. Len(traces) |-> InitialDump(traces[j])]
      BY <2>2 DEF DoInitialize, TypeOK
    <3>3. ASSUME NEW j \in 1 .. Len(traces), Tracked(InitialDump(traces[j]))
          PROVE  /\ InitialDump(traces[j]).shown = InitialDump(traces[j]).old
                 /\ InitialDump(traces[j]).old = val[InitialDump(traces[j]).obj]
      <4> DEFINE u == traces[j]
      <4>1. u \in Trace
        BY DEF TypeOK
      <4>2. InitialDump(u) \in {u, Printed(u), Flushed(u)}
        BY DEF InitialDump, VcdDump, SimpleDump
      <4>3. Tracked(u)
        BY <3>3, <4>1, <4>2, TraceOpsKeep DEF Tracked
      <4>4. InitialDump(u) = Printed(u)
        BY <4>3 DEF Tracked, InitialDump, VcdDump, SimpleDump
      <4>5. QED
        BY <4>1, <4>3, <4>4, PrintedTracked, TraceOpsKeep
    <3>4. QED
      BY <1>8, <3>1, <3>2, <3>3 DEF PrintedInv, Current
  <2>3. CASE UNCHANGED <<traces, initialized, enabled, pos, fault>>
    <3>1. \A j \in DOMAIN traces : Current(j)' = Current(j)
      BY <1>8, <2>3 DEF Current
    <3>2. QED
      BY <2>3, <3>1 DEF PrintedInv
  <2>4. CASE /\ initialized /\ pos' = 1
             /\ UNCHANGED <<traces, initialized, enabled, fault>>
    <3>1. ASSUME enabled, NEW j \in DOMAIN traces PROVE Current(j)'
      <4>1. Current(j) /\ j \in Nat \ {0}
        BY <1>8, <2>4, <3>1 DEF PrintedInv, Idle, TypeOK
      <4>2. QED
        BY <1>8, <2>4, <4>1 DEF Current
    <3>2. QED
      BY <2>4, <3>1 DEF PrintedInv
  <2>5. QED
    BY <1>8, <2>1, <2>2, <2>3, <2>4 DEF CycleBegin
<1>9. CASE DeltaCycleEnd
  BY <1>9, <1>8 DEF DeltaCycleEnd
<1>10. CASE NextDelta
  BY <1>10 DEF NextDelta, PrintedInv, Current, fileVars
<1>11. CASE TimeStepEnd
  BY <1>11, <1>8 DEF TimeStepEnd
<1>12. ASSUME NEW d \in 1 .. 2, AdvanceTime(d) PROVE PrintedInv'
  BY <1>12 DEF AdvanceTime, PrintedInv, Current, fileVars
<1>13. CASE Close
  BY <1>13 DEF Close, PrintedInv, Current
<1>14. CASE UNCHANGED vars
  BY <1>14 DEF PrintedInv, Current, vars, fileVars, kernelVars
<1>15. QED
  BY <1>1, <1>2, <1>3, <1>4, <1>5, <1>6, <1>7, <1>9, <1>10, <1>11,
     <1>12, <1>13, <1>14 DEF Next

(* The initial state satisfies the strengthening: no cycle is under way.   *)
LEMMA InitPrintedInv == Init => PrintedInv
  BY DEF Init, PrintedInv

(* A step that ends a cycle call (pos back to 0) with tracing enabled and  *)
(* no fault can only be CycleEnd, reached after the loop passed every       *)
(* trace, so by PrintedInv every tracked trace shows its current value.     *)
LEMMA CycleEndCurrent ==
  ASSUME AllowLateConfig = FALSE
  PROVE  TypeOK /\ PrintedInv /\ [Next]_vars =>
           [ (pos # 0 /\ pos' = 0 /\ enabled /\ fault = "none") =>
               \A i \in DOMAIN traces :
                 Tracked(traces[i]) => traces[i].shown = val[traces[i].obj] ]_vars
<1> SUFFICES ASSUME TypeOK, PrintedInv, [Next]_vars,
                    pos # 0, pos' = 0, enabled, fault = "none",
                    NEW i \in DOMAIN traces, Tracked(traces[i])
             PROVE  traces[i].shown = val[traces[i].obj]
  OBVIOUS
<1>1. pos \in Nat
  BY DEF TypeOK
<1>2. CycleEnd
  <2>1. ~Idle
    BY DEF Idle
  <2>2. initialized
    BY DEF PrintedInv
  <2>3. ~UNCHANGED vars
    BY DEF vars, fileVars
  <2>4. ~CycleStep
    <3>1. CycleStep => pos' \in {pos + 1, pos, pos + 2}
      BY DEF CycleStep
    <3>2. QED
      BY <1>1, <3>1
  <2>5. ~\E o \in Objs : AddTrace(o)
    BY <2>1 DEF AddTrace
  <2>6. ~\E j \in -1 .. MaxTraces, g \in Triggers, y \in TraceTypes :
            SetBsmTraceType(j, g, y)
    BY <2>2 DEF SetBsmTraceType, ConfigAllowed
  <2>7. ~\E p \in PrintTypes : SetBsmPrintType(p)
    BY <2>2 DEF SetBsmPrintType, ConfigAllowed
  <2>8. ~\E b \in BOOLEAN : EnableBsmTrace(b)
    BY <2>2 DEF EnableBsmTrace, ConfigAllowed
  <2>9. ~\E o \in Objs, v \in Values : Update(o, v)
    BY <2>1 DEF Update
  <2>10. ~DeltaCycleEnd /\ ~NextDelta /\ ~TimeStepEnd /\ ~Close
    BY <2>1 DEF DeltaCycleEnd, NextDelta, TimeStepEnd, Close
  <2>11. ~\E d \in 1 .. 2 : AdvanceTime(d)
    BY <2>1 DEF AdvanceTime
  <2>12. QED
    BY <2>3, <2>4, <2>5, <2>6, <2>7, <2>8, <2>9, <2>10, <2>11 DEF Next
<1>3. pos > Len(traces) /\ initialized /\ Current(i)
  BY <1>2 DEF CycleEnd, PrintedInv
<1>4. i < pos
  BY <1>3 DEF TypeOK
<1>5. QED
  BY <1>3, <1>4 DEF Current

(* The action property of cycle(): when a call that entered the loop       *)
(* returns with tracing enabled, every tracked ORIG trace of a non-event    *)
(* object shows the object's current value.  It holds when the setters are  *)
(* refused after initialization (AllowLateConfig = FALSE, as in the code's  *)
(* default configuration checked by every run); TLC finds it violated      *)
(* otherwise, since a trace turned into an ORIG trace after initialization  *)
(* was never dumped.                                                        *)
THEOREM CycleShowsCurrent ==
  ASSUME AllowLateConfig = FALSE
  PROVE  Spec => PrintedCycleCurrent
<1>1. TypeOK /\ PrintedInv /\ [Next]_vars => PrintedInv'
  BY NextPrintedInv
<1>2. Spec => []PrintedInv
  BY <1>1, InitPrintedInv, TypeCorrect, PTL DEF Spec
<1>3. TypeOK /\ PrintedInv /\ [Next]_vars =>
        [ (pos # 0 /\ pos' = 0 /\ enabled /\ fault = "none") =>
            \A i \in DOMAIN traces :
              Tracked(traces[i]) => traces[i].shown = val[traces[i].obj] ]_vars
  BY CycleEndCurrent
<1>4. QED
  BY <1>2, <1>3, TypeCorrect, PTL DEF Spec, PrintedCycleCurrent
-----------------------------------------------------------------------------
(* The time stamps printed without delta-cycle tracing never go back.     *)

(* Without delta cycles the stamp printed is <<now \div Res, 0>>; the last *)
(* stamp printed is unset or such a stamp for a time not after now.        *)
StampInv ==
  \/ lastPrinted = <<-1, -1>>
  \/ lastPrinted[2] = 0 /\ lastPrinted[1] \in 0 .. now \div Res

(* Kernel time never goes back, and a step that prints a stamp prints the  *)
(* stamp of the current time (print_time_stamp, ~bsm_trace_file).          *)
LEMMA StampStep ==
  TypeOK /\ [Next]_vars =>
    /\ now <= now'
    /\ \/ lastPrinted' = lastPrinted
       \/ lastPrinted' = PrintedStamp /\ now' = now
<1> SUFFICES ASSUME TypeOK, [Next]_vars
             PROVE  /\ now <= now'
                    /\ \/ lastPrinted' = lastPrinted
                       \/ lastPrinted' = PrintedStamp /\ now' = now
  OBVIOUS
<1>1. now \in Nat
  BY DEF TypeOK
<1>2. CASE \E o \in Objs : AddTrace(o)
  BY <1>1, <1>2 DEF AddTrace
<1>3. CASE \E i \in -1 .. MaxTraces, g \in Triggers, y \in TraceTypes :
             SetBsmTraceType(i, g, y)
  BY <1>1, <1>3 DEF SetBsmTraceType
<1>4. CASE \E p \in PrintTypes : SetBsmPrintType(p)
  BY <1>1, <1>4 DEF SetBsmPrintType
<1>5. CASE \E b \in BOOLEAN : EnableBsmTrace(b)
  BY <1>1, <1>5 DEF EnableBsmTrace
<1>6. CASE CycleStep
  BY <1>1, <1>6 DEF CycleStep, PrintTimeStamp
<1>7. CASE CycleEnd
  BY <1>1, <1>7 DEF CycleEnd
<1>8. CASE \E o \in Objs, v \in Values : Update(o, v)
  BY <1>1, <1>8 DEF Update, fileVars
<1>9. ASSUME NEW isDelta \in BOOLEAN, CycleBegin(isDelta)
      PROVE  lastPrinted' = lastPrinted
  BY <1>9 DEF CycleBegin, DoInitialize, fileVars
<1>10. CASE DeltaCycleEnd
  <2>1. CycleBegin(TRUE) /\ now' = now
    BY <1>10 DEF DeltaCycleEnd
  <2>2. lastPrinted' = lastPrinted
    BY <2>1, <1>9, Zenon
  <2>3. QED
    BY <1>1, <2>1, <2>2
<1>11. CASE TimeStepEnd
  <2>1. CycleBegin(FALSE) /\ now' = now
    BY <1>11 DEF TimeStepEnd
  <2>2. lastPrinted' = lastPrinted
    BY <2>1, <1>9, Zenon
  <2>3. QED
    BY <1>1, <2>1, <2>2
<1>12. CASE NextDelta
  BY <1>1, <1>12 DEF NextDelta, fileVars
<1>13. CASE \E d \in 1 .. 2 : AdvanceTime(d)
  BY <1>1, <1>13 DEF AdvanceTime, fileVars
<1>14. CASE Close
  BY <1>1, <1>14 DEF Close
<1>15. CASE UNCHANGED vars
  BY <1>1, <1>15 DEF vars, fileVars, kernelVars
<1>16. QED
  BY <1>2, <1>3, <1>4, <1>5, <1>6, <1>7, <1>8, <1>10, <1>11, <1>12,
     <1>13, <1>14, <1>15 DEF Next

(* Integer division by the trace unit is monotone.                         *)
LEMMA DivMonotone ==
  ASSUME NEW a \in Nat, NEW b \in Nat, a <= b
  PROVE  a \div Res <= b \div Res
  BY DEF BoundsAssumption

(* StampInv holds initially and every step keeps it.                       *)
LEMMA NextStampInv ==
  ASSUME DeltaMode = FALSE
  PROVE  TypeOK /\ StampInv /\ [Next]_vars => StampInv'
<1> SUFFICES ASSUME TypeOK, StampInv, [Next]_vars PROVE StampInv'
  OBVIOUS
<1>1. now \in Nat /\ now' \in Nat /\ now <= now'
  BY StampStep, NextTypeOK DEF TypeOK
<1>2. now \div Res <= now' \div Res
  BY <1>1, DivMonotone
<1>3. CASE lastPrinted' = lastPrinted
  <2>1. now \div Res \in Int /\ now' \div Res \in Int
    BY <1>1
  <2>2. 0 .. now \div Res \subseteq 0 .. now' \div Res
    BY <1>2, <2>1
  <2>3. QED
    BY <1>3, <2>2 DEF StampInv
<1>4. CASE lastPrinted' = PrintedStamp /\ now' = now
  <2>1. now \div Res \in Nat
    BY <1>1
  <2>2. QED
    BY <1>4, <2>1 DEF StampInv, PrintedStamp
<1>5. QED
  BY <1>3, <1>4, StampStep

(* The stamps get_time_stamp and ~bsm_trace_file print without delta-cycle *)
(* tracing never go back: each stamp printed is not earlier than the one   *)
(* printed before it, for every trace unit Res and every time bound.       *)
THEOREM StampsMonotone ==
  ASSUME DeltaMode = FALSE
  PROVE  Spec => StampsNonDecreasing
<1>1. Init => StampInv
  BY DEF Init, StampInv
<1>2. TypeOK /\ StampInv /\ [Next]_vars => StampInv'
  BY NextStampInv
<1>3. Spec => []StampInv
  BY <1>1, <1>2, TypeCorrect, PTL DEF Spec
<1>4. TypeOK /\ StampInv /\ [Next]_vars =>
        [ lastPrinted' # lastPrinted => ~Later(lastPrinted, lastPrinted') ]_vars
  <2> SUFFICES ASSUME TypeOK, StampInv, [Next]_vars, lastPrinted' # lastPrinted
               PROVE  ~Later(lastPrinted, lastPrinted')
    OBVIOUS
  <2>1. lastPrinted' = PrintedStamp
    BY StampStep
  <2>2. PrintedStamp = <<now \div Res, 0>>
    BY DEF PrintedStamp
  <2>3. now \div Res \in Nat
    BY DEF TypeOK
  <2>4. QED
    BY <2>1, <2>2, <2>3 DEF StampInv, Later
<1>5. QED
  BY <1>3, <1>4, TypeCorrect, PTL DEF Spec, StampsNonDecreasing

(* With delta-cycle tracing the stamp is <<now \div Res, dcount>>, and the *)
(* first delta cycle of a time point is skipped when its stamp is not      *)
(* later than prevStamp.  The last stamp printed is at most the current    *)
(* time; in the timed phase it is covered by prevStamp, and at delta 0 it  *)
(* is covered by prevStamp or is the current stamp; a cycle under way runs *)
(* in the delta phase and has not printed anything later than now.         *)
DeltaStampInv ==
  /\ lastPrinted # <<-1, -1>> =>
       /\ lastPrinted[1] \in 0 .. now \div Res
       /\ lastPrinted[2] \in 0 .. MaxDelta
       /\ kphase = "timed" => lastPrinted[1] <= prevStamp[1]
       /\ dcount = 0 => lastPrinted[1] <= prevStamp[1] \/ lastPrinted = Stamp
       /\ pos # 0 => ~Later(lastPrinted, Stamp)
  /\ pos # 0 => kphase = "delta"
  /\ kphase = "timed" /\ initialized => ~Later(Stamp, prevStamp)

(* A step that leaves the stamps, the clock, the phase and the cursor     *)
(* alone keeps DeltaStampInv.                                              *)
LEMMA DeltaStampInvUnchanged ==
  ASSUME DeltaStampInv,
         UNCHANGED <<lastPrinted, prevStamp, now, dcount, kphase, pos,
                     initialized>>
  PROVE  DeltaStampInv'
  BY DEF DeltaStampInv, Stamp

(* The stamp of the current time point and delta count.                    *)
LEMMA StampValue ==
  ASSUME TypeOK, DeltaMode = TRUE
  PROVE  /\ Stamp = <<now \div Res, dcount>>
         /\ now \div Res \in Nat /\ dcount \in 0 .. MaxDelta
         /\ PrintedStamp = Stamp
  BY DEF TypeOK, Stamp, PrintedStamp

(* A cycle() call that has not entered its loop prints no stamp.           *)
LEMMA CycleBeginKeepsStamp ==
  ASSUME NEW isDelta \in BOOLEAN, CycleBegin(isDelta)
  PROVE  lastPrinted' = lastPrinted
  BY DEF CycleBegin, DoInitialize, fileVars

(* A stamp that passes the reversed-time check, or that of a later delta  *)
(* cycle, is not earlier than the last stamp printed.                      *)
LEMMA DeltaNotLater ==
  ASSUME DeltaMode = TRUE, MaxDelta <= 1, TypeOK, DeltaStampInv,
         dcount # 0 \/ Later(Stamp, prevStamp)
  PROVE  ~Later(lastPrinted, Stamp)
<1>1. /\ Stamp = <<now \div Res, dcount>>
      /\ now \div Res \in Nat /\ dcount \in 0 .. MaxDelta
      /\ prevStamp \in Nat \X Nat
  BY StampValue DEF TypeOK
<1>2. CASE lastPrinted = <<-1, -1>>
  BY <1>1, <1>2 DEF Later
<1>3. CASE lastPrinted # <<-1, -1>>
  <2>1. lastPrinted[1] \in 0 .. now \div Res /\ lastPrinted[2] \in 0 .. MaxDelta
    BY <1>3 DEF DeltaStampInv
  <2>2. CASE dcount # 0
    BY <1>1, <2>1, <2>2 DEF Later
  <2>3. CASE dcount = 0
    <3>1. prevStamp[1] < now \div Res
      BY <1>1, <2>3 DEF Later
    <3>2. lastPrinted[1] <= prevStamp[1] \/ lastPrinted = Stamp
      BY <1>3, <2>3 DEF DeltaStampInv
    <3>3. QED
      BY <1>1, <2>1, <3>1, <3>2 DEF Later
  <2>4. QED
    BY <2>2, <2>3
<1>4. QED
  BY <1>2, <1>3

(* With at most one delta cycle after the first at every time point, every *)
(* step keeps DeltaStampInv: one step per action of Next.                  *)
LEMMA NextDeltaStampInv ==
  ASSUME DeltaMode = TRUE, MaxDelta <= 1
  PROVE  TypeOK /\ DeltaStampInv /\ [Next]_vars => DeltaStampInv'
<1> SUFFICES ASSUME TypeOK, DeltaStampInv, [Next]_vars PROVE DeltaStampInv'
  OBVIOUS
<1>1. /\ Stamp = <<now \div Res, dcount>>
      /\ now \div Res \in Nat /\ dcount \in 0 .. MaxDelta
      /\ PrintedStamp = Stamp
      /\ prevStamp \in Nat \X Nat /\ now \in Nat /\ pos \in Nat
  BY StampValue DEF TypeOK
<1>2. CASE \E o \in Objs : AddTrace(o)
  BY <1>2, DeltaStampInvUnchanged DEF AddTrace
<1>3. CASE \E i \in -1 .. MaxTraces, g \in Triggers, y \in TraceTypes :
             SetBsmTraceType(i, g, y)
  BY <1>3, DeltaStampInvUnchanged DEF SetBsmTraceType
<1>4. CASE \E p \in PrintTypes : SetBsmPrintType(p)
  BY <1>4, DeltaStampInvUnchanged DEF SetBsmPrintType
<1>5. CASE \E b \in BOOLEAN : EnableBsmTrace(b)
  BY <1>5, DeltaStampInvUnchanged DEF EnableBsmTrace
<1>6. CASE CycleStep
  <2>1. /\ pos # 0 /\ kphase = "delta"
        /\ UNCHANGED <<prevStamp, now, dcount, kphase, initialized>>
        /\ lastPrinted' \in {lastPrinted, PrintedStamp}
    BY <1>1, <1>6 DEF CycleStep, PrintTimeStamp, DeltaStampInv
  <2>2. Stamp' = Stamp
    BY <2>1 DEF Stamp
  <2>3. CASE lastPrinted' = lastPrinted
    BY <2>1, <2>2, <2>3 DEF DeltaStampInv
  <2>4. CASE lastPrinted' = Stamp
    <3>1. ~Later(Stamp, Stamp)
      BY <1>1 DEF Later
    <3>2. QED
      BY <1>1, <2>1, <2>2, <2>4, <3>1 DEF DeltaStampInv
  <2>5. QED
    BY <1>1, <2>1, <2>3, <2>4
<1>7. CASE CycleEnd
  BY <1>7 DEF CycleEnd, DeltaStampInv, Stamp
<1>8. CASE \E o \in Objs, v \in Values : Update(o, v)
  BY <1>8, DeltaStampInvUnchanged DEF Update, fileVars
<1>9. CASE DeltaCycleEnd
  <2>1. /\ pos = 0 /\ kphase = "update" /\ kphase' = "delta"
        /\ UNCHANGED <<lastPrinted, now, dcount>> /\ CycleBegin(TRUE)
    <3>1. /\ pos = 0 /\ kphase = "update" /\ kphase' = "delta"
          /\ UNCHANGED <<now, dcount>> /\ CycleBegin(TRUE)
      BY <1>9 DEF DeltaCycleEnd, Idle
    <3>2. QED
      BY <3>1, CycleBeginKeepsStamp
  <2>2. Stamp' = Stamp
    BY <2>1 DEF Stamp
  <2>6. prevStamp' = prevStamp \/ prevStamp' = Stamp
    BY <2>1 DEF CycleBegin, DoInitialize, fileVars
  <2>3. CASE pos' = 0 /\ initialized' = TRUE
    <3>1. lastPrinted # <<-1, -1>> =>
            \/ lastPrinted[1] <= prevStamp'[1]
            \/ lastPrinted' = Stamp'
            \/ dcount' # 0
      BY <1>1, <2>1, <2>2, <2>6 DEF DeltaStampInv
    <3>2. QED
      BY <2>1, <2>2, <2>3, <3>1 DEF DeltaStampInv
  <2>4. CASE /\ initialized /\ ~ReversedTime /\ pos' = 1
             /\ UNCHANGED <<initialized, prevStamp>>
    <3>1. dcount # 0 \/ Later(Stamp, prevStamp)
      BY <2>4 DEF ReversedTime
    <3>2. ~Later(lastPrinted, Stamp)
      BY <3>1, DeltaNotLater
    <3>3. QED
      BY <2>1, <2>2, <2>4, <3>2 DEF DeltaStampInv
  <2>5. QED
    <3>1. \/ pos' = 0 /\ initialized' = TRUE
          \/ /\ initialized /\ ~ReversedTime /\ pos' = 1
             /\ UNCHANGED <<initialized, prevStamp>>
      <4>1. CASE DoInitialize
        BY <2>1, <4>1 DEF DoInitialize
      <4>2. CASE initialized /\ UNCHANGED fileVars
        BY <2>1, <4>2 DEF fileVars
      <4>3. CASE /\ initialized /\ ~ReversedTime /\ pos' = 1
                 /\ UNCHANGED <<initialized, prevStamp>>
        BY <4>3
      <4>4. QED
        BY <2>1, <4>1, <4>2, <4>3 DEF CycleBegin
    <3>2. QED
      BY <2>3, <2>4, <3>1
<1>10. CASE NextDelta
  <2>1. /\ pos = 0 /\ kphase' = "update" /\ dcount' = dcount + 1
        /\ UNCHANGED <<lastPrinted, prevStamp, now, pos, initialized>>
    BY <1>10 DEF NextDelta, Idle, fileVars
  <2>2. dcount' \in 0 .. MaxDelta
    BY <1>10, NextTypeOK DEF TypeOK
  <2>3. QED
    BY <1>1, <2>1, <2>2 DEF DeltaStampInv
<1>11. CASE TimeStepEnd
  <2>1. /\ pos = 0 /\ kphase' = "timed"
        /\ UNCHANGED <<lastPrinted, now, dcount, pos>> /\ CycleBegin(FALSE)
    <3>1. /\ pos = 0 /\ kphase' = "timed"
          /\ UNCHANGED <<now, dcount>> /\ CycleBegin(FALSE)
      BY <1>11 DEF TimeStepEnd, Idle
    <3>2. pos' = pos
      BY <3>1 DEF CycleBegin, DoInitialize, fileVars
    <3>3. QED
      BY <3>1, <3>2, CycleBeginKeepsStamp
  <2>2. Stamp' = Stamp
    BY <2>1 DEF Stamp
  <2>3. \/ prevStamp' = Stamp
        \/ prevStamp' = prevStamp /\ ~Later(Stamp, prevStamp)
    BY <2>1 DEF CycleBegin, DoInitialize
  <2>4. lastPrinted # <<-1, -1>> => lastPrinted[1] <= prevStamp'[1]
    BY <1>1, <2>3 DEF DeltaStampInv, Later
  <2>5. ~Later(Stamp, prevStamp')
    BY <1>1, <2>3 DEF Later
  <2>6. QED
    BY <2>1, <2>2, <2>4, <2>5 DEF DeltaStampInv
<1>12. CASE \E d \in 1 .. 2 : AdvanceTime(d)
  <2>1. /\ pos = 0 /\ kphase = "timed" /\ kphase' = "update" /\ dcount' = 0
        /\ now <= now' /\ now' \in Nat
        /\ UNCHANGED <<lastPrinted, prevStamp, pos, initialized>>
    BY <1>1, <1>12 DEF AdvanceTime, Idle, fileVars
  <2>2. now \div Res <= now' \div Res
    BY <1>1, <2>1, DivMonotone
  <2>3. QED
    BY <1>1, <2>1, <2>2 DEF DeltaStampInv
<1>13. CASE Close
  <2>1. pos = 0 /\ UNCHANGED <<prevStamp, now, dcount, kphase, pos,
                               initialized>>
    BY <1>13 DEF Close, Idle
  <2>2. Stamp' = Stamp
    BY <2>1 DEF Stamp
  <2>3. CASE lastPrinted' = lastPrinted
    BY <2>1, <2>3, DeltaStampInvUnchanged
  <2>4. CASE lastPrinted' # lastPrinted
    <3>1. initialized /\ Later(Stamp, prevStamp) /\ lastPrinted' = Stamp
      BY <1>1, <1>13, <2>4 DEF Close
    <3>2. kphase # "timed"
      BY <3>1 DEF DeltaStampInv
    <3>3. QED
      BY <1>1, <2>1, <2>2, <3>1, <3>2 DEF DeltaStampInv
  <2>5. QED
    BY <2>3, <2>4
<1>14. CASE UNCHANGED vars
  BY <1>14, DeltaStampInvUnchanged DEF vars, fileVars, kernelVars
<1>15. QED
  BY <1>2, <1>3, <1>4, <1>5, <1>6, <1>7, <1>8, <1>9, <1>10, <1>11,
     <1>12, <1>13, <1>14 DEF Next

(* Only the loop of cycle() and ~bsm_trace_file write a time stamp.        *)
LEMMA StampWriters ==
  ASSUME [Next]_vars, lastPrinted' # lastPrinted
  PROVE  CycleStep \/ Close
<1>1. ~UNCHANGED vars
  BY DEF vars, fileVars
<1>2. ~\E o \in Objs : AddTrace(o)
  BY DEF AddTrace
<1>3. ~\E i \in -1 .. MaxTraces, g \in Triggers, y \in TraceTypes :
          SetBsmTraceType(i, g, y)
  BY DEF SetBsmTraceType
<1>4. ~\E p \in PrintTypes : SetBsmPrintType(p)
  BY DEF SetBsmPrintType
<1>5. ~\E b \in BOOLEAN : EnableBsmTrace(b)
  BY DEF EnableBsmTrace
<1>6. ~CycleEnd /\ ~NextDelta
  BY DEF CycleEnd, NextDelta, fileVars
<1>7. ~\E o \in Objs, v \in Values : Update(o, v)
  BY DEF Update, fileVars
<1>8. ~DeltaCycleEnd /\ ~TimeStepEnd
  BY CycleBeginKeepsStamp DEF DeltaCycleEnd, TimeStepEnd
<1>9. ~\E d \in 1 .. 2 : AdvanceTime(d)
  BY DEF AdvanceTime, fileVars
<1>10. QED
  BY <1>1, <1>2, <1>3, <1>4, <1>5, <1>6, <1>7, <1>8, <1>9 DEF Next

(* The time stamps written with delta-cycle tracing never go back when a   *)
(* time point has at most one delta cycle after the first: the reversed-   *)
(* time check of cycle() (SC_ID_TRACING_REVERSED_TIME_), which skips only  *)
(* the first delta cycle of a time point, suffices then, for every trace   *)
(* unit Res.  With two delta cycles after the first it does not           *)
(* (trace_reversed).                                                        *)
THEOREM StampsMonotoneDelta ==
  ASSUME DeltaMode = TRUE, MaxDelta <= 1
  PROVE  Spec => StampsNonDecreasing
<1>1. Init => DeltaStampInv
  BY DEF Init, DeltaStampInv
<1>2. TypeOK /\ DeltaStampInv /\ [Next]_vars => DeltaStampInv'
  BY NextDeltaStampInv
<1>3. Spec => []DeltaStampInv
  BY <1>1, <1>2, TypeCorrect, PTL DEF Spec
<1>4. TypeOK /\ DeltaStampInv /\ [Next]_vars =>
        [ lastPrinted' # lastPrinted => ~Later(lastPrinted, lastPrinted') ]_vars
  <2> SUFFICES ASSUME TypeOK, DeltaStampInv, [Next]_vars,
                      lastPrinted' # lastPrinted
               PROVE  ~Later(lastPrinted, lastPrinted')
    OBVIOUS
  <2>1. Stamp = <<now \div Res, dcount>> /\ now \div Res \in Nat
        /\ dcount \in Nat /\ PrintedStamp = Stamp
    BY StampValue
  <2>2. CASE Close
    <3>1. Later(Stamp, prevStamp) /\ lastPrinted' = Stamp
      BY <2>1, <2>2 DEF Close
    <3>2. QED
      BY <3>1, DeltaNotLater
  <2>3. CASE CycleStep
    <3>1. pos # 0 /\ lastPrinted' = PrintedStamp
      BY <2>3 DEF CycleStep, PrintTimeStamp
    <3>2. CASE lastPrinted = <<-1, -1>>
      BY <2>1, <3>1, <3>2 DEF Later
    <3>3. CASE lastPrinted # <<-1, -1>>
      <4>1. ~Later(lastPrinted, Stamp)
        BY <3>1, <3>3 DEF DeltaStampInv
      <4>2. QED
        BY <2>1, <3>1, <4>1
    <3>4. QED
      BY <3>2, <3>3
  <2>4. QED
    BY <2>2, <2>3, StampWriters
<1>5. QED
  BY <1>3, <1>4, TypeCorrect, PTL DEF Spec, StampsNonDecreasing

(* The printed time stamps never go back unless delta cycles are traced    *)
(* and a time point has two or more delta cycles after the first.          *)
THEOREM StampsNeverReversed ==
  ASSUME ~DeltaMode \/ MaxDelta <= 1
  PROVE  Spec => StampsNonDecreasing
<1>1. CASE DeltaMode = FALSE
  BY <1>1, StampsMonotone
<1>2. CASE DeltaMode = TRUE
  BY <1>2, StampsMonotoneDelta
<1>3. QED
  BY <1>1, <1>2, Zenon DEF BoundsAssumption

=====
