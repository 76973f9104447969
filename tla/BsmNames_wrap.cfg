\* Three letters instead of 26: the codes wrap after Letters^3 traces.
CONSTANTS
    Letters = 3
    MaxTraces = 30
SPECIFICATION Spec
INVARIANT NamesUnique
CHECK_DEADLOCK FALSE
