--------------------------- MODULE MCAddressSpaces ---------------------------
EXTENDS AddressSpaces, TLC

Symmetry == Permutations(Pid)
=============================================================================
