------------------------------ MODULE MCLanding ------------------------------
\* Landing for TLC: blocks, contents and requests are interchangeable.
EXTENDS Landing, TLC

Symmetry ==
    Permutations(Blocks) \cup Permutations(Contents) \cup Permutations(Seos)
        \cup Permutations(Publishers) \cup Permutations(Editors)
=============================================================================
