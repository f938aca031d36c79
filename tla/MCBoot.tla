------------------------------- MODULE MCBoot --------------------------------
\* Two tabs of one device, with or without an older version's data.
EXTENDS Boot, TLC

Symmetry == Permutations(Tab)
Either == BOOLEAN
FreshInstall == {FALSE}
=============================================================================
