------------------------------ MODULE MCBridge ------------------------------
EXTENDS Bridge, TLC

Symmetry == Permutations(Content) \cup Permutations(Run)
====
