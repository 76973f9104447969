------------------------------ MODULE BsmNames ------------------------------
(***************************************************************************)
(* The identifier codes of bsm_trace_file: every trace call that passes    *)
(* add_trace_check takes obtain_name(), a five-letter code built from      *)
(* bsm_name_index, which is then incremented.  The code becomes bsm_name,  *)
(* the identifier of the variable in "$var ... $end" and in every value    *)
(* line.  The alphabet 'a'..'z' has Letters letters (26 in the code).      *)
(***************************************************************************)
EXTENDS Naturals, Sequences

CONSTANTS
    Letters,    \* used_types_count = 'z' - 'a' + 1
    MaxTraces   \* bound on the number of trace calls

\* result / used_types_count
Quot(n) == n \div Letters

\* obtain_name(): char6, char5 and char4 are the remainders of
\* bsm_name_index and of its first and second quotients; char3 and char2
\* start again from bsm_name_index / used_types_count, so they repeat
\* char5 and char4.  The code is char2 char3 char4 char5 char6.
ObtainName(idx) ==
    LET char6 == idx % Letters
        char5 == Quot(idx) % Letters
        char4 == Quot(Quot(idx)) % Letters
        char3 == Quot(idx) % Letters
        char2 == Quot(Quot(idx)) % Letters
    IN  <<char2, char3, char4, char5, char6>>

VARIABLES
    bsmNameIndex,  \* bsm_name_index
    names          \* bsm_name of the traces, in the order of the trace calls

vars == <<bsmNameIndex, names>>

\* The constructor: bsm_name_index(0), no traces.
Init ==
    /\ bsmNameIndex = 0
    /\ names = << >>

\* A trace call of any type (DEFN_TRACE_METHOD and its variants, traceT,
\* the enumeration trace) that passes add_trace_check.
AddTrace ==
    /\ bsmNameIndex < MaxTraces
    /\ names' = Append(names, ObtainName(bsmNameIndex))
    /\ bsmNameIndex' = bsmNameIndex + 1

Spec == Init /\ [][AddTrace]_vars

\* Every traced variable has an identifier code of its own: two traces
\* that share a bsm_name are one variable to a VCD reader, which then
\* shows the value changes of both under both names.
NamesUnique ==
    \A i, j \in 1..Len(names) : i # j => names[i] # names[j]
=============================================================================
