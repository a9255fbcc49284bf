---------------------------- MODULE MCAdmission -----------------------------
EXTENDS Admission, TLC

Symmetry == Permutations(Reader) \cup Permutations(Source)
=============================================================================
