# TLA+ models of the BSM trace file, its encoders, and the balancing test

This directory holds TLA+ models of the code under `src/`, TLC
configurations that check them on small instances, and TLAPS proofs of
some of their properties for every value of the constants.

## 1. The system and its parts

The repository holds a fragment of a SystemC-style simulation kernel.

| Part | Source | What it is |
|---|---|---|
| BSM/VCD trace file | `src/src/sysc/bsm/sc_bsm_trace.h` (2946 lines) | `bsm_trace_file` and about thirty `bsm_*_trace` classes, one per traceable type |
| buffer interface | `src/src/sysc/bsm/bsm_buffer_intf.h` | two abstract interfaces, no code |
| `bsm_sysc.h` | `src/unnamed/part_001` | one declaration |
| `sc_spawn.h` | `src/unnamed/part_000` | templates that wrap a callable and register it as a thread or method process |
| balancing test | `src/tests/.../balancing/balancing.cpp` | an `SC_CTHREAD` with three latency-balanced branches |
| kernel (scheduler, processes, events) | not in `src/` | described by `spec.md` |

How they interact: the kernel runs its phases. At the end of every delta
cycle it calls `cycle(true)` on each trace file, and at the end of every time
step it calls `cycle(false)`. The trace file asks each trace `changed()` and
prints the ones that changed. Traces are registered with `trace()` before
recording starts. They can be configured with `set_bsm_trace_type` (the
trigger edge, and the BSM_TRACE_VAL "valid" type that gates the next trace),
`set_bsm_print_type` (VCD or simple) and `enable_bsm_trace`.

### Inventory of the trace file (state, operations, hard behaviours)

* **State**:
  * `traces`, the trace list; each trace holds its `old_value`, its
    trace type, its trigger type and its print type.
  * `bsm_print_type` and `bsm_trace_enable`.
  * `previous_time_units_high/low`.
  * the `initialized` flag of `sc_trace_file_base`.
  * the file itself.
* **Operations**:
  * `trace()` (per type), `set_bsm_trace_type`, `set_bsm_print_type`, `enable_bsm_trace`.
  * `initialize()`/`do_initialize()`.
  * `cycle(bool)`.
  * the destructor.
  * per trace: `changed()`, and `write(FILE*)` with `write(NULL)`, which records the value without printing it.
* **Hard behaviours**:
  * a rejected edge is consumed by `write(NULL)` inside `changed()`;
  * a valid trace that fires writes the *next* trace and skips it (`i++`);
  * the reversed-time check is made only at delta count 0;
  * the previous stamp is refreshed only by timed cycles;
  * the setters have no guard once recording has started;
  * `bsm_sc_event_trace::write` does not test its `FILE*`.

## 2. Modules

### `BsmTraceFile` (the trace file with the kernel calls that drive it)

**State.** The variables correspond to the code as follows.

| Variable | Code |
|---|---|
| `traces` | `bsm_trace_file::traces`. Each record holds the traced object, `bsm_trace_type` (ORIG/VAL), `bsm_trigger_type` (POS/NEG/BOTH/NONE), `old_value`, and `shown`: the last value written to the file for that trace. `shown` stands for the file's content; the line formatting is abstracted. |
| `val` | the current value of every traced object (an event's trigger stamp) |
| `initialized` | `sc_trace_file_base`'s flag |
| `enabled` | `bsm_trace_enable` |
| `printType` | `bsm_print_type` |
| `prevStamp` | `previous_time_units_high/low` |
| `pos`, `timePrinted` | the loop variable `i` and `time_printed` of a running `cycle()` |
| `lastPrinted` | the last time stamp printed |
| `fault` | records a program stop: `nullfile` (`fprintf(NULL, ...)`), `nodata` (`assert(i < traces.size())`) or `badindex` (the assertion of `set_bsm_trace_type`) |
| `closed` | the destructor ran |

Three more variables stand for the kernel: `now`, `dcount` (delta count at the current time) and `kphase`.

**Kinds of trace.** The trace classes fall into four change-detection
families, given per object by the constant `ObjKind`:

| Kind | Classes | Change test |
|---|---|---|
| `Edge` | classes using `TRACE_CHANGED_IMPLEMENT`, plus interface and port traces | `EdgeChanged` |
| `Logic` | `bsm_sc_logic_trace` | `LogicChanged` |
| `Vector` | `bsm_T_trace` (sc_bv, sc_lv) | any change; the trigger is ignored |
| `Event` | `bsm_sc_event_trace` | stamp changed; the trigger is ignored. Its `write` prints only when the stamp changed and does not test the file pointer. |

**Actions.** Each action is one call of the code.
* `AddTrace` is `trace()`: refused once recording started, new trace ORIG/BOTH with `old_value` = the current value.
* `SetBsmTraceType`, `SetBsmPrintType` and `EnableBsmTrace` are the three setters.
* `CycleBegin(isDelta)` is `cycle()` up to its loop, one disjunct per early return:
  * delta cycles not traced;
  * `initialize()` ran, which is `DoInitialize`, the whole of `do_initialize()` for both print types;
  * reversed time;
  * a timed cycle in delta mode;
  * otherwise the loop is entered.
* `CycleStep` is one iteration of the loop, one disjunct per path through its body (not changed; disabled; ORIG; VAL with the three outcomes of the data write).
* `CycleEnd` ends the loop.
* `Close` is the destructor. It may run whenever the program is outside a call of `cycle()`, in any kernel phase. It prints the current stamp, in either print type, when the file was initialized and the stamp is later than the previous one (`is_initialized() && get_time_stamp(...)`).

The loop of `cycle()` runs one trace per step. No other action is enabled
while `pos # 0`, so a call is never interleaved with anything. This matches the
code, which is single-threaded.

**The kernel (modelled from the spec).** The kernel is not in `src/`; its actions come from spec sections 4.1 and 6.
* `Update` is a channel committing a new value; an event fired gets a new trigger stamp.
* `DeltaCycleEnd` is `cycle(true)`.
* `NextDelta` is another delta cycle at the same time.
* `TimeStepEnd` is `cycle(false)`.
* `AdvanceTime` moves to a later time point.

The kernel's time stamp in trace units (`timestamp_in_trace_units`, in
`sc_trace_file_base`, also outside `src/`) is the operator `Stamp`:
`<<now \div Res, dcount>>` with delta tracing, `<<now \div Res, now % Res>>`
without.

**Constants.** `Objs`, `ObjKind`, `MaxVal`, `MaxTraces`, `MaxTime`,
`MaxDelta`, `Res` (trace unit in kernel units), `DeltaMode`
(`delta_cycles()`) and `AllowLateConfig`. `AllowLateConfig` says whether the
setters may be called after recording began; the code allows it, and the
header's usage comments call them before.

**Initial state.** The constructor's default `BT_SIMPLE`. A file constructed
as `BT_VCD` is in the state that `set_bsm_print_type(BT_VCD)` reaches before
the first trace, so no reachable state is lost.

### `MC_BsmTraceFile`

Three model values: an `Edge` signal `sigA`, a `Logic` signal `sigB` (a
`Vector` one in the delta configuration), and an event `ev`. No symmetry is
used, because the three objects have different kinds.

### `BsmTraceFileProofs`

The TLAPS proofs about `BsmTraceFile` (section 4).

### `BsmIntTrace` (the value encoding of the integer, enum and vector traces)

One trace of one class followed through the cycles of a simulation. The
class (`cls`) is one of the `bsm_*_trace` classes for `char`, `short`,
`int`, `long`, `int64`, `uint64`, enums, `sc_unsigned`/`sc_signed`
(and `sc_uint_base`/`sc_int_base`) and `sc_lv_base`. The state is the
trace's `width`, VCD or simple mode (`vcd`), its trigger type, its
`old_value`, the last data line written (`line`) and the value that line
was written for (`shown`, an observer).

* `Fire(v)` is a cycle in which `changed()` answers true: `old_value`
  takes the new value and `write(fp)` prints `Data(cls, v, width, vcd)`.
* `Unfired(v)` is a cycle in which the value changed but the trigger
  rejected it: `write(NULL)` records it in `old_value` without printing.
* `SetTriggerType(t)` is `set_bsm_trace_type` on this trace.

`Data` is the code of `write()`: the overflow test against
`bit_mask` (`Overflow`, with the mask of `MaskLimit` and the shift width of
`ShiftBits`), the bit string `rawdata` (`RawData`), and in VCD mode
`compose_data_line` with `strip_leading_bits`. The C++ widths are
constants (`CharBits`, `ShortBits`, `IntBits`, `LongBits`, `Int64Bits`)
so that TLC enumerates every value of a type. An enum's width is
`EnumWidth`, the bits needed for its largest literal.

The property `LineDecodes` compares the line with a reference: a VCD
reader extends a stripped value back to the declared width (`VcdExtend`),
and the value it reads must be the traced value, cut to the width
(`Expected`), or all `x` exactly when the value does not fit (`Fits`).

### `MC_BsmIntTrace`

The sets of classes the three runs follow: the unsigned classes with the
arbitrary-width and vector ones, `ulong` alone, and the signed classes.

### `BsmNames` (`obtain_name`)

`bsm_name_index` and the list of identifier codes given to the traces.
`AddTrace` is the naming part of `add_trace`: it appends
`ObtainName(bsm_name_index)` and increments the index. `ObtainName` takes
the five letters of the code as the code computes them, by the same
remainders and quotients (`Quot` is `result / used_types_count`), with
the base `Letters` (26 in the code) as a constant.

### `BsmNamesProofs`

The TLAPS proofs about `obtain_name` (section 4).

### `Balancing` (the clocked thread of the balancing test)

`balancing::entry` is an `SC_CTHREAD`. It runs from one `wait()` to the
next at each clock edge. One step of the module is the code between two
`wait()` calls, and `pc` is the line of the `wait()` the thread waits in.
The variables are the locals `tmp1..3` and `out_tmp2/3`, and the output
signals `out_value1..3` and `out_valid1..3`.

* The conversions keep their widths: `Signed4` is `sc_bigint<4>`,
  `Unsigned4` is `sc_biguint<4>` and `to_uint()`, and `Unsigned12` is
  `sc_unsigned(12)`.
* `Reset(r)` is the reset branch.
* `PlainWait` covers the `wait()` calls that follow each other directly.
* `Branch1Start` reads `in_value1` when `in_valid` is high. A cycle that
  sees `in_valid` low changes nothing, so it is a stuttering step.
* `Branch1Write`, `Branch2Switch`, `Branch2Fall`, `Branch3Switch` and
  `Branch3Fall` follow the fallthrough chains of the three switches.
* `Branch1End`, `Branch2Read`, `Branch2End`, `Branch3Read`,
  `Branch3Write` and `Branch3End` raise and drop the strobes.

`balancing.h` is not in the repository. The ports are taken to carry
4-bit values, as the variables that read them are 4 bits wide; the inputs
range over `0..15` (`InValues`).

`Next` is `Clocked \/ Branch1Start`. `Clocked` is every step the thread
takes at the next clock edge whatever its inputs. `Branch1Start` is the
step out of the do-while of line 68, and it waits for `in_valid`.
`FairSpec` is `Spec /\ WF_vars(Clocked)`. The clock never stops and an
`SC_CTHREAD` is resumed at every edge, so a clocked step that can be taken
is taken. No fairness is assumed for `Branch1Start`, because `in_valid`
comes from the testbench.

### `BalancingHandshake` (what the balancing thread promises its consumer)

An abstract specification of the output handshake. It has four variables:

* `strobe`: the `out_valid` that is high, or 0;
* `turn`: the branch whose strobe rises next;
* `latched`: the input latched by the last raise;
* `outValue1`: the `out_value1` port.

It has three actions:

* `Raise(v)` raises the strobe of the current turn.
* `Work` writes `out_value1`, which is allowed only under strobe 1.
* `Drop` drops the strobe, with `out_value1 = latched` if the strobe was 1, and passes the turn on modulo 3.

`Balancing` instantiates it as `Handshake`, with this mapping:

* `strobe` is the `out_valid` that is high;
* `turn` follows from the branch whose `wait()` lines hold `pc`;
* `latched` is `tmp1`.

The property `HandshakeSpec == Handshake!Spec` states the refinement.

### `BalancingProofs`

The TLAPS proofs about `Balancing` (section 4).

## 3. Properties and runs

| Property | Kind | What it says |
|---|---|---|
| `TypeOK` | invariant | the type invariant |
| `PrintedCycleCurrent` | action property | When a `cycle()` call that ran its loop ends with tracing enabled and no fault, every *tracked* trace (ORIG, trigger BOTH, not an event) shows the current value of its object. Getting this wrong takes several steps of several actors: a change rejected earlier, a valid trace skipping its data trace, the initial dump, a reconfiguration. |
| `NoNullFileWrite` | invariant | `fprintf` is never handed the null `FILE*`. |
| `ValidTraceHasData` | invariant | the assertion of `cycle()` that a data trace follows a valid one holds |
| `StampsNonDecreasing` | action property | no printed time stamp is earlier than the one printed before it |
| `LineDecodes` (`BsmIntTrace`) | invariant | a VCD or simple reader reads back the traced value from the last line, or all `x` exactly when the value does not fit the width |
| `NamesUnique` (`BsmNames`) | invariant | no two traces get the same identifier code |
| `OneValidAtATime` (`Balancing`) | invariant | no two of `out_valid1..3` are high at one clock edge |
| `Branch1Output` (`Balancing`) | invariant | when `out_valid1` drops, `out_value1` is the value the first branch read, on every fallthrough path |
| `TransactionCompletes` (`Balancing`) | liveness, under `FairSpec` | `pc # 68 ~> pc = 68`: after every transaction, whatever the inputs, the thread gets back to the do-while on `in_valid` |
| `HandshakeSpec` (`Balancing`) | refinement | `balancing::entry` implements `BalancingHandshake` under the mapping above |
| `Branch2Output`, `Branch3Output` (`Balancing`) | invariant | the second and third branches end with output 1 for the inputs of their case groups, as the comments of the switches say |

The runs, with the bounds they use:

| Run (cfg) | Expect | Bounds | What it shows |
|---|---|---|---|
| `trace_nondelta` (`BsmTraceFile.cfg`) | pass | 2 traces, values 0..1, times 0..1, 1 extra delta, `Res`=1 | `TypeOK`, `PrintedCycleCurrent` (1.3M states) |
| `trace_delta` (`BsmTraceFile_delta.cfg`) | pass | as above with delta tracing, `Res`=2 | `PrintedCycleCurrent`, `StampsNonDecreasing` |
| `trace_nullfile` | violation | as `trace_nondelta` | an event trace used as a valid trace in simple mode fires, and `do_initialize` calls `write(NULL)` on it |
| `trace_nodata` | violation | as `trace_nondelta` | `set_bsm_trace_type` makes the last trace a valid trace; when it fires the assertion fails |
| `trace_reversed` | violation | 1 trace, times 0..2, 2 extra deltas, `Res`=2 | stamp `#0:2` printed at time 0, then `#0:1` at time 1 |
| `int_trace_llp64` (`BsmIntTrace.cfg`) | pass | char 2, short 3, int 4, long 4, int64 6 bits; vectors up to 3 bits; enums up to 5 literals; all unsigned, arbitrary-width and vector classes | `TypeOK`, `LineDecodes` (456K states) |
| `int_trace_lp64_ulong` (`BsmIntTrace_lp64.cfg`) | violation | as above with long 6 bits, `ulong` only | 17 at width 5 is written `xxxxx` |
| `int_trace_signed` (`BsmIntTrace_signed.cfg`) | violation | as `int_trace_llp64`, signed classes | `schar` -1 at width 1 is written `x` |
| `names_wrap` (`BsmNames_wrap.cfg`) | violation | `Letters` = 3, 30 traces | trace 28 gets the code of trace 1 |
| `balancing` (`Balancing.cfg`) | pass | reset either way, every input in `0..15` at every read | `TypeOK`, `OneValidAtATime`, `Branch1Output`, `TransactionCompletes`, `HandshakeSpec`, under `FairSpec` (120K states) |
| `balancing_case` (`Balancing_case.cfg`) | violation | as `balancing` | input 8 to the second branch matches no label and writes the stale `out_tmp2` |
| `balancing_branch3` (`Balancing_branch3.cfg`) | violation | as `balancing` | the third branch writes `out_tmp3`, which is always 0 |

Why these bounds are enough:
* Two traces are the smallest list in which a valid trace has a data trace, and in which a valid trace can also be the last one.
* Values 0..1 give both edge directions, for `Logic` exactly its 0/1 edges.
* With `Res`=2 and one extra delta the reversed-time skip happens, at time 1, delta 0. This is also why `StampsNonDecreasing` is checked in delta mode.
* A decreasing stamp needs a second delta at the earlier time point. That takes `MaxDelta` = 2, which is what `trace_reversed` adds.

* The integer widths are scaled down (2/3/4/4 or 6/6 bits for
  char/short/int/long/int64). Each width is still the threshold of its
  mask, so every case of the code happens: a width below, at and above
  the mask, the 32-bit mask of `long` below a wider `long`, and a trace
  width above the bit width of the type. The encoding is the same
  function of the widths at every size.
* `Letters` = 3 makes the wrap of `obtain_name` happen at 3^3 + 1 = 28
  names instead of 17577. The arithmetic is the same for any base.
* `Balancing` needs no bound: its state is finite, and every input value
  of the 4-bit ports is enumerated.

`CHECK_DEADLOCK FALSE`: the program does stop, after the destructor or after
an assertion or crash (`fault # "none"`). `BsmIntTrace` follows one trace
whose width and class are fixed, and `BsmNames` stops at `MaxTraces`.
`Balancing` checks deadlock: the thread never stops.

Between them the passing runs reach every action and every disjunct.

Mutants (each breaks its property under the run's own cfg):
* `Stamp` taken one kernel unit early breaks `TypeOK`.
* `EdgeChanged` without the BOTH clause breaks `PrintedCycleCurrent`.
* `ReversedTime` never true breaks `StampsNonDecreasing`.
* `RawData` writing one character too many breaks `TypeOK` of `BsmIntTrace`.
* `strip_leading_bits` dropping the whole leading run breaks `LineDecodes`.
* `Signed4` without the sign breaks `TypeOK` of `Balancing`.
* `Branch1End` writing `out_valid2` true in place of `out_valid1` false breaks `OneValidAtATime`.
* The last `wait()` of the second switch jumping back to line 129 breaks `TransactionCompletes`.
* `Branch3End` leaving `out_valid3` high breaks `HandshakeSpec`: the next transaction's raise of `out_valid1` is not a step of the handshake.
* A `break` before the default label of the first switch breaks `Branch1Output`.

### Findings

The code-level findings are listed in `PROJECT.json`.
* `bsm_sc_event_trace::write` does not test its `FILE*`.
* A valid trace at the end of the list crashes `cycle()`.
* The setters are not guarded after initialization, and the header says nothing on when they may be called. The model has `AllowLateConfig` for this, and no run sets it. With it set, TLC finds `PrintedCycleCurrent` violated. A trace is left out of the initial dump as a valid trace, then turned into an ORIG trace with trigger BOTH. The file does not show it until its object changes. This is recorded as a hazard, not a finding, because nothing in the repository says which calls are meant to come late.
* With delta tracing, printed stamps can go back. This last finding depends on the stamp arithmetic of `timestamp_in_trace_units`, which is modelled from the spec.
* The `long` traces use the 32-bit mask whatever the width of `long`.
* The signed traces test overflow on the unsigned cast, so negative values below the type's width print as `x`.
* `obtain_name` repeats its codes after 26^3 traces.
* `case 8 | 9 | 10 | 11:` in `balancing.cpp` is the single label 11.
* The third branch of `balancing.cpp` always writes 0.

## 4. What is proved

`BsmTraceFileProofs` proves with TLAPS:

* `TypeCorrect`: `Spec => []TypeOK` for every value of the constants
  satisfying `KindAssumption` and `BoundsAssumption`.
  * `TypeOK` is inductive as it stands. The proof has one step per action and, inside `CycleStep`, one step per path of the loop body.
  * It rests on the lemmas `TraceOps` (the per-trace operators keep a trace record well-formed), `StampType` (stamps are pairs of naturals) and `ExceptSeq` (replacing an element keeps a sequence's type and length).
  * No induction over data is needed, because the loop of `cycle()` is a sequence of steps, not a recursive operator.
* `CycleShowsCurrent`: `Spec => PrintedCycleCurrent`, under the hypothesis
  `AllowLateConfig = FALSE`. This hypothesis says the setters are refused after
  initialization, as in every run. Without it the property is false. TLC finds
  the counterexample: a trace left out of the initial dump as a valid trace is
  later turned into a tracked ORIG trace (§3).
  * The property is not inductive. The strengthening `PrintedInv` says:
    * a cycle under way (`pos # 0`) has been initialized;
    * with tracing enabled and no fault, every tracked trace shows its
      `old_value` (`Current`);
    * for the traces before `pos`, that `old_value` is the current value of the
      object.
  * The loop of `cycle()` keeps `PrintedInv` one trace at a time:
    * an unchanged trace keeps its old value (`UnfiredTracked`);
    * a printed trace takes the current value (`PrintedTracked`);
    * the valid/data pair flushes the valid trace and prints the data trace,
      and a valid trace is never tracked.
  * `do_initialize` dumps every tracked trace with `Printed`.
  * A step that takes `pos` back to 0 can only be `CycleEnd`. That step has
    `pos > Len(traces)`, so every trace has been passed (`CycleEndCurrent`).
  * TLC checked `PrintedInv` as an invariant of both passing trace runs before
    it was proved: 1.3M and 1.8M states.
* `StampsMonotone`: `Spec => StampsNonDecreasing` without delta-cycle tracing
  (`DeltaMode = FALSE`), for every trace unit and time bound.
  * The strengthening `StampInv` says that the last stamp printed is unset, or
    is `<<k, 0>>` with `k <= now \div Res`.
  * `StampStep`: time never goes back, and a step that prints, prints the stamp
    of the current time.
  * `DivMonotone`: division by `Res` is monotone.
  * TLC checked `StampInv` with `Res` = 2 and 3 time units (3.4M states).
* `StampsMonotoneDelta`: `Spec => StampsNonDecreasing` with delta tracing,
  for every trace unit, under the hypothesis `MaxDelta <= 1`: a time point
  has at most one delta cycle after the first. This is the bound of the
  `trace_delta` run. With two, the `trace_reversed` run finds the property
  violated.
  * The strengthening `DeltaStampInv` says:
    * the last stamp printed is at most `<<now \div Res, MaxDelta>>`;
    * in the timed phase `prevStamp` covers that stamp's high part;
    * at delta count 0, `prevStamp` covers it, or it is the current stamp;
    * a cycle under way runs in the delta phase and has printed nothing later
      than the current stamp;
    * in the timed phase the current stamp is not later than `prevStamp`.
      So `~bsm_trace_file` prints nothing there.
  * The destructor can run in any phase. When it prints, its stamp passed the
    same comparison with `prevStamp` as the first delta cycle, so the lemma
    `DeltaNotLater` covers both.
  * Why the check suffices, in two cases:
    * The first delta cycle of a time point runs only when its stamp is later
      than `prevStamp`, and so later than the last stamp printed.
    * Any later delta cycle has a delta count of at least 1, and no stamp
      printed has a larger one.
  * `StampWriters`: only the loop and `Close` write a stamp.
  * `CycleBeginKeepsStamp`: the start of a cycle writes none.
  * TLC checked `DeltaStampInv` on the `trace_delta` bounds with 3 time units
    (9.0M states), and with `Res` = 3 and `Res` = 1. With `MaxDelta = 2` it
    finds the invariant violated.
* `StampsNeverReversed` combines the two: stamps never go back unless delta
  cycles are traced and a time point has two or more delta cycles after the
  first.

`BalancingProofs` proves, for every behaviour of `balancing::entry`:

* `TypeCorrect`: `Spec => []TypeOK`.
* `ValidsExclusive`: `Spec => []OneValidAtATime`.
* `FirstBranchOutput`: `Spec => []Branch1Output`.
* `Refinement`: `Spec => HandshakeSpec`, that is, the thread implements `BalancingHandshake`.

None of the three is inductive as it stands. `OneValidAtATime` says
nothing of where the thread is, and `Branch1Output` nothing of the lines
before 101. The inductive invariant `IInv` says:

* each `out_valid` is high exactly while `pc` is a `wait()` of its branch
  (`StrobeLines`);
* `out_value1 = tmp1` from the last write of the first switch (line 98)
  to the read of the second branch (`Value1Held`);
* the type invariant, split into an integer part and a Boolean part.

The proof of `IInv /\ [Next]_vars => IInv'` has one step per action. Each
step proves the integer part with the strobe lines, and then the Boolean
part. The two switches with several labels are split by the case of
their selector. The lemma `ConversionTypes` gives the ranges of the
4-bit and 12-bit conversions. TLC checked `IInv` as an invariant of the
`balancing` run before it was proved.

The refinement proof has two parts.

* The initial state maps to `Handshake!Init`.
* The lemma `StepMap` shows that under `IInv` every step of `Next` is a step of `Handshake!Next` or a stutter of the mapped variables. It has one step per action:
  * `Branch1Start`, `Branch2Read` and `Branch3Read` are `Raise`;
  * `Branch1Write` is `Work`;
  * `Branch1End`, `Branch2End` and `Branch3End` are `Drop`;
  * every other step is a stutter.
* `StrobeLines` gives the mapped strobe from `pc`, and `Value1Held` gives the `out_value1 = latched` of `Drop`.
* The reset step writes 0 to `out_value1`, and it must be a stutter. So the proof adds `Reset0` (`pc = 0 => outValue1 = 0`), which holds because no step returns to `pc = 0` (`NextReset0`).

`BsmNamesProofs` proves, for every alphabet size `Letters` > 0:

* `NameWrap`: `ObtainName(n + Letters^3) = ObtainName(n)` for every index
  `n`. This is the finding of the `names_wrap` run, for the 26 letters of
  the code as for the 3 of the run.
* `NamesUniqueBeforeWrap`: `Spec => [](bsmNameIndex <= Letters^3 =>
  NamesUnique)`. Below the wrap no two traces share a code.
  * The inductive invariant `NamesInv` says that trace `i` holds the code
    of index `i - 1`.
  * The core is `NamesDistinct`: below `Letters^3` an index is the number
    its three digits spell (`Digits`), so equal codes mean equal indices.
  * It rests on lemmas about integer division by a positive divisor:
    `DivMod`, `DivUnique`, `DivShift`, `DivBound` and `ModSmall`.

Only model-checked so far:

* `TransactionCompletes`. Liveness is out of the prover's reach.
* `StampsNonDecreasing` with delta tracing and `MaxDelta > 1`. It is false
  there (`trace_reversed`).
* `BsmIntTrace`'s `TypeOK` and `LineDecodes`, for three reasons:
  * The widths and masks are powers of two. The provers prove `2^k \in Int`
    but neither `2^k > 0` nor `2^(k+1) = 2 * 2^k`, so no fact about a mask
    can be proved.
  * The encoders are defined with CHOOSE over bit strings.
  * What the encoders compute for every width needs induction over data.

  TLC checks both properties for every value of the scaled widths.
* The properties of the violation runs.

Fairness is assumed only for `balancing::entry`, as `WF_vars(Clocked)`:
the clock resumes the thread at every edge. The step out of the do-while
waits for `in_valid`, which comes from the testbench, and that is not in
the repository, so it has no fairness. `TransactionCompletes` therefore
says that every transaction that has started completes. It does not say
that a new one starts. The trace file has no obligation to make progress
of its own, since every step is a call by the kernel, so no fairness is
assumed for it.

## 5. Not modelled, and why

* The text written to the file beyond the data lines: the VCD header, the
  time stamps' formatting, `remove_bsm_name_problems`. This is layout; no
  property is about it.
* The traces of `bool`, `sc_bit`, `sc_logic`, `float`/`double`,
  `sc_fxval`/`sc_fxnum`, `sc_time` and the port and interface traces.
  Their `changed()` follows the same pattern as `BsmIntTrace`. The port and
  interface traces compare strings, so their POS/NEG triggers are
  lexicographic. `bsm_string()`, which makes those strings, is defined
  nowhere in the repository. The order in which it puts values is unknown,
  so no property about the triggers' order can be stated faithfully. The
  hazard is listed in `PROJECT.json` without a property.
* The `bsm_trace_signal/in/out/object` dispatch, which picks the `trace()`
  overload by `dynamic_cast`.
* `bsm_buffer_intf.h` and `bsm_sysc.h`, which are declarations only.
* `sc_spawn.h`, which is template glue; what it registers belongs to the
  kernel.
* The kernel beyond the calls the trace file sees.

## 6. Plan

1. Model `map_sc_logic_state_to_bsm_state` and the `bool`/`sc_logic` encoders.
2. Add a kernel scheduler module, modelled from the spec, that drives
   `Balancing` and the trace file.
3. An abstract specification of the trace file (at each printed cycle the
   file shows the current values of the tracked objects), with `BsmTraceFile`
   shown to refine it.
