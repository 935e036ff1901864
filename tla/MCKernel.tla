------------------------------- MODULE MCKernel -------------------------------
EXTENDS Kernel

\* A .cfg cannot write a set of negative numbers.
NiceArgs == {-1, 1}
=============================================================================
