------------------------------ MODULE MCInode -------------------------------
EXTENDS Inode, TLC

\* Paths from the root, one and two names deep.
Absolute == {<<"/", "x">>, <<"/", "y">>, <<"/", "x", "y">>}

Symmetry == Permutations(Proc)
=============================================================================
