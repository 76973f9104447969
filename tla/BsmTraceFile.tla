---------------------------- MODULE BsmTraceFile ----------------------------
(***************************************************************************)
(* The BSM/VCD trace file of src/sysc/bsm/sc_bsm_trace.h: the list of      *)
(* traces registered on a bsm_trace_file, their per-trace change detection *)
(* (changed(), write(NULL), write(fp)) under the four trigger kinds, the   *)
(* valid/data pairing of BSM_TRACE_VAL traces, initialization, and the     *)
(* cycle() routine the kernel calls at the end of every delta cycle and of *)
(* every time step.                                                        *)
(*                                                                         *)
(* A traced object is a model value of Objs; its current value (or, for an *)
(* sc_event, its trigger stamp) is val[o].  What the file shows for a      *)
(* trace is the last value written to it through write(fp), kept in the    *)
(* trace record as the field shown; formatting of the line is abstracted.  *)
(*                                                                         *)
(* The loop of cycle() over the trace list is taken one trace per step,    *)
(* with the cursor pos; no other action is enabled while pos # 0, so the   *)
(* steps of one call are never interleaved with anything else.             *)
(*                                                                         *)
(* The kernel around the trace file (spec section 4.1 and 6: updates,      *)
(* end of delta cycle, end of time step, time advance) is reduced to the   *)
(* calls it makes on the trace file, in the order the spec gives them.     *)
(***************************************************************************)
EXTENDS Integers, Sequences

CONSTANTS
  Objs,             \* the objects that can be traced (signals, ports, events)
  ObjKind,          \* ObjKind[o]: how the trace class of o detects a change
  MaxVal,           \* values (and event trigger stamps) range over 0..MaxVal
  MaxTraces,        \* bound on the number of trace() calls
  MaxTime,          \* bound on simulated time
  MaxDelta,         \* bound on delta cycles at one time point
  Res,              \* trace time unit, in kernel time units
  DeltaMode,        \* delta_cycles(): delta cycles are traced
  AllowLateConfig   \* the user may call the setters after recording began

(* The change-detection families of the trace classes.                     *)
(*   "Edge":   TRACE_CHANGED_IMPLEMENT (bool, sc_bit, integers, fixed      *)
(*             point, sc_time) and the interface/port traces.              *)
(*   "Logic":  bsm_sc_logic_trace: edges only between 0 and 1.             *)
(*   "Vector": bsm_T_trace (sc_bv, sc_lv): any change, trigger ignored.    *)
(*   "Event":  bsm_sc_event_trace: trigger stamp changed, trigger ignored. *)
Kinds == {"Edge", "Logic", "Vector", "Event"}

Values == 0 .. MaxVal
NoValue == -1

ASSUME KindAssumption == ObjKind \in [Objs -> Kinds]
ASSUME BoundsAssumption ==
  /\ MaxVal \in Nat \ {0}
  /\ MaxTraces \in Nat
  /\ MaxTime \in Nat
  /\ MaxDelta \in Nat
  /\ Res \in Nat \ {0}
  /\ DeltaMode \in BOOLEAN
  /\ AllowLateConfig \in BOOLEAN

TraceTypes == {"ORIG", "VAL"}              \* BSM_TRACE_ORIG, BSM_TRACE_VAL
Triggers == {"POS", "NEG", "BOTH", "NONE"}  \* BSM_TRIGGER_VAL_*
PrintTypes == {"VCD", "SIMPLE"}             \* BT_VCD, BT_SIMPLE
Faults == {"none", "nullfile", "badindex", "nodata"}

Trace == [obj : Objs, ttype : TraceTypes, trig : Triggers,
          old : Values, shown : Values \cup {NoValue}]

VARIABLES
  traces,       \* bsm_trace_file::traces, with what the file shows
  val,          \* the current value of every traced object
  initialized,  \* sc_trace_file_base: recording has started
  enabled,      \* bsm_trace_enable
  printType,    \* bsm_print_type
  prevStamp,    \* previous_time_units_high/low
  pos,          \* cursor of the loop of cycle(); 0 when no call is running
  timePrinted,  \* time_printed of the running call
  lastPrinted,  \* the last time stamp printed to the file
  fault,        \* how the program stopped, if it did
  closed,       \* the file was closed (destructor ran)
  now,          \* kernel: current simulated time
  dcount,       \* kernel: sc_delta_count_at_current_time()
  kphase        \* kernel: where it is in the cycle of section 4.1

fileVars == <<traces, initialized, enabled, printType, prevStamp, pos,
              timePrinted, lastPrinted, fault, closed>>
kernelVars == <<val, now, dcount, kphase>>
vars == <<fileVars, kernelVars>>

-----------------------------------------------------------------------------
(* Time stamps.                                                             *)

(* Seeded faults for the mutation runs: the stamp taken one kernel unit    *)
(* early, a cycle() without the reversed-time check, and a change test     *)
(* that lost the BOTH clause.                                               *)
StampOffByOne == <<(now - 1) \div Res, IF DeltaMode THEN dcount ELSE now % Res>>
ReversedTimeNever == FALSE
EdgeChangedNoBoth(t) ==
  LET v == val[t.obj]
  IN  /\ v # t.old
      /\ \/ t.trig = "POS" /\ v > t.old
         \/ t.trig = "NEG" /\ v < t.old

(* timestamp_in_trace_units: the kernel time in trace units; the low part  *)
(* is the delta count when delta cycles are traced, else the remainder of  *)
(* the kernel time below one trace unit.                                   *)
Stamp == <<now \div Res, IF DeltaMode THEN dcount ELSE now % Res>>

(* print_time_stamp: the low part is printed only when there are low units. *)
PrintedStamp == IF DeltaMode THEN Stamp ELSE <<now \div Res, 0>>

(* get_time_stamp: the current stamp is later than the previous one.       *)
Later(a, b) == (a[2] > b[2] /\ a[1] = b[1]) \/ a[1] > b[1]

-----------------------------------------------------------------------------
(* Change detection of one trace.                                           *)

(* TRACE_CHANGED_IMPLEMENT: the value differs from old_value and the      *)
(* trigger accepts the direction of the change.                             *)
EdgeChanged(t) ==
  LET v == val[t.obj]
  IN  /\ v # t.old
      /\ \/ t.trig = "BOTH"
         \/ t.trig = "POS" /\ v > t.old
         \/ t.trig = "NEG" /\ v < t.old

(* bsm_sc_logic_trace::changed: only 0 to 1 is a positive and only 1 to 0 *)
(* a negative edge.                                                         *)
LogicChanged(t) ==
  LET v == val[t.obj]
  IN  /\ v # t.old
      /\ \/ t.trig = "BOTH"
         \/ t.trig = "POS" /\ v = 1 /\ t.old = 0
         \/ t.trig = "NEG" /\ v = 0 /\ t.old = 1

(* changed() of the trace class of the object: vector and event traces    *)
(* report any change and ignore the trigger.                                *)
Fires(t) ==
  \/ ObjKind[t.obj] = "Edge" /\ EdgeChanged(t)
  \/ ObjKind[t.obj] = "Logic" /\ LogicChanged(t)
  \/ ObjKind[t.obj] \in {"Vector", "Event"} /\ val[t.obj] # t.old

(* The trace after a changed() call that returned false: an Edge or Logic  *)
(* trace whose edge the trigger rejects calls write(NULL) and so forgets   *)
(* the edge.                                                                *)
Unfired(t) ==
  IF ObjKind[t.obj] \in {"Edge", "Logic"}
  THEN [t EXCEPT !.old = val[t.obj]]
  ELSE t

(* write(fp): the value is printed and becomes old_value.  An event trace  *)
(* prints only when its stamp changed since the last write.                 *)
Printed(t) ==
  IF ObjKind[t.obj] = "Event" /\ val[t.obj] = t.old
  THEN t
  ELSE [t EXCEPT !.old = val[t.obj], !.shown = val[t.obj]]

(* write(NULL) on a changed event trace passes the null FILE* to fprintf.  *)
FlushFaults(t) == ObjKind[t.obj] = "Event" /\ val[t.obj] # t.old

(* write(NULL): the value becomes old_value, nothing is printed.            *)
Flushed(t) == [t EXCEPT !.old = val[t.obj]]

-----------------------------------------------------------------------------
(* bsm_trace_file(name, type): the constructor with its default BT_SIMPLE; *)
(* a file built as BT_VCD is in the state set_bsm_print_type(BT_VCD)       *)
(* reaches before the first trace, so no reachable state is lost.           *)
Init ==
  /\ traces = << >>
  /\ val \in [Objs -> Values]
  /\ initialized = FALSE
  /\ enabled = TRUE
  /\ printType = "SIMPLE"
  /\ prevStamp = <<0, 0>>
  /\ pos = 0
  /\ timePrinted = FALSE
  /\ lastPrinted = <<-1, -1>>
  /\ fault = "none"
  /\ closed = FALSE
  /\ now = 0
  /\ dcount = 0
  /\ kphase = "update"

(* The program runs and the trace file is idle.                            *)
Idle == fault = "none" /\ ~closed /\ pos = 0

(* The setters are called before recording starts, or at any time.          *)
ConfigAllowed == AllowLateConfig \/ ~initialized

(* trace()/traceT(): add_trace_check refuses once recording has started;   *)
(* the new trace starts with trigger BOTH, type ORIG and the current value *)
(* as old_value.                                                            *)
AddTrace(o) ==
  /\ Idle
  /\ ~initialized
  /\ Len(traces) < MaxTraces
  /\ traces' = Append(traces, [obj |-> o, ttype |-> "ORIG", trig |-> "BOTH",
                               old |-> val[o], shown |-> NoValue])
  /\ UNCHANGED <<val, initialized, enabled, printType, prevStamp, pos,
                 timePrinted, lastPrinted, fault, closed, now, dcount, kphase>>

(* set_bsm_trace_type(index, nTrigger, nTrace): index -1 is the last trace; *)
(* an index out of range fails the assertion.                              *)
SetBsmTraceType(index, trig, ttype) ==
  /\ Idle
  /\ ConfigAllowed
  /\ LET i == IF index = -1 THEN Len(traces) ELSE index
     IN  IF i \in 1 .. Len(traces)
         THEN /\ traces' = [traces EXCEPT ![i].ttype = ttype, ![i].trig = trig]
              /\ UNCHANGED fault
         ELSE /\ fault' = "badindex"
              /\ UNCHANGED traces
  /\ UNCHANGED <<val, initialized, enabled, printType, prevStamp, pos,
                 timePrinted, lastPrinted, closed, now, dcount, kphase>>

(* set_bsm_print_type: the file's and every trace's print type.           *)
SetBsmPrintType(p) ==
  /\ Idle
  /\ ConfigAllowed
  /\ printType' = p
  /\ UNCHANGED <<traces, val, initialized, enabled, prevStamp, pos,
                 timePrinted, lastPrinted, fault, closed, now, dcount, kphase>>

(* enable_bsm_trace(bEnable).                                               *)
EnableBsmTrace(b) ==
  /\ Idle
  /\ ConfigAllowed
  /\ enabled' = b
  /\ UNCHANGED <<traces, val, initialized, printType, prevStamp, pos,
                 timePrinted, lastPrinted, fault, closed, now, dcount, kphase>>

(* initialize() of sc_trace_file_base with do_initialize(): the initial    *)
(* values are dumped.  VCD: every trace but the valid ones is written to   *)
(* the file, the valid ones are left alone.  Simple: ORIG traces are       *)
(* written, valid traces are written to NULL.                              *)
VcdDump(t) == IF t.ttype = "VAL" THEN t ELSE Printed(t)
SimpleDump(t) == IF t.ttype = "ORIG" THEN Printed(t) ELSE Flushed(t)
InitialDump(t) == IF printType = "VCD" THEN VcdDump(t) ELSE SimpleDump(t)

DoInitialize ==
  /\ initialized' = TRUE
  /\ prevStamp' = Stamp
  /\ traces' = [i \in DOMAIN traces |-> InitialDump(traces[i])]
  /\ fault' = IF printType = "SIMPLE" /\
                 \E i \in DOMAIN traces : traces[i].ttype = "VAL" /\
                                          FlushFaults(traces[i])
              THEN "nullfile" ELSE "none"
  /\ UNCHANGED <<enabled, printType, pos, timePrinted, lastPrinted, closed>>

(* The first delta cycle at a time point whose stamp is not later than    *)
(* the previous one is not shown (SC_ID_TRACING_REVERSED_TIME_).            *)
ReversedTime == dcount = 0 /\ ~Later(Stamp, prevStamp)

(* cycle(this_is_a_delta_cycle), up to the loop over the traces.  Each     *)
(* early return of the code is one disjunct.                               *)
CycleBegin(isDelta) ==
  \/ /\ ~DeltaMode /\ isDelta                          \* delta cycles not traced
     /\ UNCHANGED fileVars
  \/ /\ DeltaMode \/ ~isDelta
     /\ ~initialized                                   \* initialize() returned true
     /\ DoInitialize
  \/ /\ initialized
     /\ DeltaMode /\ isDelta /\ ReversedTime            \* reversed time: skip
     /\ UNCHANGED fileVars
  \/ /\ initialized
     /\ DeltaMode /\ ~isDelta                          \* timed cycle: no printing
     /\ prevStamp' = IF Later(Stamp, prevStamp) THEN Stamp ELSE prevStamp
     /\ UNCHANGED <<traces, initialized, enabled, printType, pos,
                    timePrinted, lastPrinted, fault, closed>>
  \/ /\ initialized
     /\ \/ ~DeltaMode /\ ~isDelta
        \/ DeltaMode /\ isDelta /\ ~ReversedTime
     /\ pos' = 1                                       \* enter the loop
     /\ timePrinted' = FALSE
     /\ UNCHANGED <<traces, initialized, enabled, printType, prevStamp,
                    lastPrinted, fault, closed>>

(* The time stamp is printed before the first value of the call (VCD).     *)
PrintTimeStamp ==
  IF printType = "VCD" /\ ~timePrinted
  THEN /\ lastPrinted' = PrintedStamp
       /\ timePrinted' = TRUE
  ELSE UNCHANGED <<lastPrinted, timePrinted>>

(* One iteration of the loop of cycle(), on trace pos.                     *)
CycleStep ==
  /\ fault = "none" /\ pos \in 1 .. Len(traces)
  /\ LET i == pos
         t == traces[i]
     IN
     \/ /\ ~Fires(t)                                   \* not changed
        /\ traces' = [traces EXCEPT ![i] = Unfired(t)]
        /\ pos' = i + 1
        /\ UNCHANGED <<fault, lastPrinted, timePrinted>>
     \/ /\ Fires(t) /\ ~enabled /\ FlushFaults(t)     \* disabled: write(NULL)
        /\ fault' = "nullfile"
        /\ UNCHANGED <<traces, pos, lastPrinted, timePrinted>>
     \/ /\ Fires(t) /\ ~enabled /\ ~FlushFaults(t)
        /\ traces' = [traces EXCEPT ![i] = Flushed(t)]
        /\ pos' = i + 1
        /\ UNCHANGED <<fault, lastPrinted, timePrinted>>
     \/ /\ Fires(t) /\ enabled /\ t.ttype = "ORIG"     \* write the variable
        /\ traces' = [traces EXCEPT ![i] = Printed(t)]
        /\ PrintTimeStamp
        /\ pos' = i + 1
        /\ UNCHANGED fault
     \/ /\ Fires(t) /\ enabled /\ t.ttype = "VAL"      \* valid: write(NULL)
        /\ FlushFaults(t)
        /\ PrintTimeStamp
        /\ fault' = "nullfile"
        /\ UNCHANGED <<traces, pos>>
     \/ /\ Fires(t) /\ enabled /\ t.ttype = "VAL"      \* no data trace follows
        /\ ~FlushFaults(t) /\ i + 1 > Len(traces)
        /\ PrintTimeStamp
        /\ fault' = "nodata"
        /\ UNCHANGED <<traces, pos>>
     \/ /\ Fires(t) /\ enabled /\ t.ttype = "VAL"      \* write the data trace
        /\ ~FlushFaults(t) /\ i + 1 <= Len(traces)
        /\ PrintTimeStamp
        /\ traces' = [traces EXCEPT ![i] = Flushed(t),
                                    ![i + 1] = Printed(traces[i + 1])]
        /\ pos' = i + 2
        /\ UNCHANGED fault
  /\ UNCHANGED <<val, initialized, enabled, printType, prevStamp, closed,
                 now, dcount, kphase>>

(* The loop of cycle() is over.                                              *)
CycleEnd ==
  /\ fault = "none" /\ pos > Len(traces)
  /\ pos' = 0
  /\ UNCHANGED <<traces, val, initialized, enabled, printType, prevStamp,
                 timePrinted, lastPrinted, fault, closed, now, dcount, kphase>>

-----------------------------------------------------------------------------
(* The kernel's calls (spec 4.1, 6), reduced to what reaches the file.      *)

(* Update phase: a primitive channel commits a new value; an event that    *)
(* fires gets a new trigger stamp.                                         *)
Update(o, v) ==
  /\ Idle /\ kphase = "update"
  /\ IF ObjKind[o] = "Event" THEN v = val[o] + 1 ELSE v # val[o]
  /\ val' = [val EXCEPT ![o] = v]
  /\ UNCHANGED <<fileVars, now, dcount, kphase>>

(* End of a delta cycle: trace_cycle(true).                                 *)
DeltaCycleEnd ==
  /\ Idle /\ kphase = "update"
  /\ CycleBegin(TRUE)
  /\ kphase' = "delta"
  /\ UNCHANGED <<val, now, dcount>>

(* Another delta cycle at the same time.                                    *)
NextDelta ==
  /\ Idle /\ kphase = "delta"
  /\ dcount < MaxDelta
  /\ dcount' = dcount + 1
  /\ kphase' = "update"
  /\ UNCHANGED <<fileVars, val, now>>

(* No more delta work: trace_cycle(false) at the end of the time step.      *)
TimeStepEnd ==
  /\ Idle /\ kphase = "delta"
  /\ CycleBegin(FALSE)
  /\ kphase' = "timed"
  /\ UNCHANGED <<val, now, dcount>>

(* Time advance to the next pending notification.                            *)
AdvanceTime(d) ==
  /\ Idle /\ kphase = "timed"
  /\ now + d <= MaxTime
  /\ now' = now + d
  /\ dcount' = 0
  /\ kphase' = "update"
  /\ UNCHANGED <<fileVars, val>>

(* ~bsm_trace_file, whenever the program deletes the file outside a call   *)
(* of cycle(): the current time stamp is printed, whatever the print type,  *)
(* when the file was initialized and the stamp is later than the previous  *)
(* one.                                                                     *)
Close ==
  /\ Idle
  /\ closed' = TRUE
  /\ lastPrinted' = IF initialized /\ Later(Stamp, prevStamp)
                    THEN PrintedStamp ELSE lastPrinted
  /\ UNCHANGED <<traces, val, initialized, enabled, printType, prevStamp, pos,
                 timePrinted, fault, now, dcount, kphase>>

Next ==
  \/ \E o \in Objs : AddTrace(o)
  \/ \E i \in -1 .. MaxTraces, g \in Triggers, y \in TraceTypes :
        SetBsmTraceType(i, g, y)
  \/ \E p \in PrintTypes : SetBsmPrintType(p)
  \/ \E b \in BOOLEAN : EnableBsmTrace(b)
  \/ CycleStep
  \/ CycleEnd
  \/ \E o \in Objs, v \in Values : Update(o, v)
  \/ DeltaCycleEnd
  \/ NextDelta
  \/ TimeStepEnd
  \/ \E d \in 1 .. 2 : AdvanceTime(d)
  \/ Close

Spec == Init /\ [][Next]_vars

-----------------------------------------------------------------------------
(* Properties.                                                             *)

TypeOK ==
  /\ traces \in Seq(Trace)
  /\ Len(traces) <= MaxTraces
  /\ val \in [Objs -> Values]
  /\ initialized \in BOOLEAN
  /\ enabled \in BOOLEAN
  /\ printType \in PrintTypes
  /\ prevStamp \in Nat \X Nat
  /\ pos \in 0 .. MaxTraces + 2
  /\ timePrinted \in BOOLEAN
  /\ lastPrinted \in (Nat \cup {-1}) \X (Nat \cup {-1})
  /\ fault \in Faults
  /\ closed \in BOOLEAN
  /\ now \in 0 .. MaxTime
  /\ dcount \in 0 .. MaxDelta
  /\ kphase \in {"update", "delta", "timed"}

(* A trace whose file line must follow every change of its object: an      *)
(* ORIG trace with trigger BOTH of anything but an event.                   *)
Tracked(t) == t.ttype = "ORIG" /\ t.trig = "BOTH" /\ ObjKind[t.obj] # "Event"

(* When a cycle() call that printed finishes with tracing enabled, the     *)
(* file shows the current value of every tracked trace: no change of a     *)
(* traced signal is left out of the waveform by the change detection, by   *)
(* the valid/data pairing that skips the data trace, or by initialization. *)
PrintedCycleCurrent ==
  [][ (pos # 0 /\ pos' = 0 /\ enabled /\ fault = "none") =>
        \A i \in DOMAIN traces :
          Tracked(traces[i]) => traces[i].shown = val[traces[i].obj] ]_vars

(* cycle() and do_initialize() never hand the null FILE* to fprintf: the    *)
(* write(NULL) of an event trace, called when tracing is disabled or when  *)
(* the event trace is a valid trace, never finds the event fired.          *)
NoNullFileWrite == fault # "nullfile"

(* The valid/data pairing of cycle() always finds the data trace after a   *)
(* valid trace: assert(i < traces.size()) holds.                           *)
ValidTraceHasData == fault # "nodata"

(* The time stamps printed to the file never go back: every stamp printed  *)
(* is at least the one printed before it (the reversed-time check of       *)
(* cycle() and the comparison of get_time_stamp are what guard this).      *)
StampsNonDecreasing ==
  [][ lastPrinted' # lastPrinted =>
        ~Later(lastPrinted, lastPrinted') ]_vars

=============================================================================
