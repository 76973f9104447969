\* The third branch computes into out_tmp2 and writes out_tmp3.
SPECIFICATION Spec
INVARIANT Branch3Output
