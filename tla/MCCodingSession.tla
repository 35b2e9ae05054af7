-------------------------- MODULE MCCodingSession --------------------------
(* Sessions over two files, beside another process.                        *)
EXTENDS CodingSession, TLC

Symmetry == Permutations(Paths)
=============================================================================
