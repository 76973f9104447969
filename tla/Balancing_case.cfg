\* Inputs 8, 9 and 10 of the second switch match no case label.
SPECIFICATION Spec
INVARIANT Branch2Output
