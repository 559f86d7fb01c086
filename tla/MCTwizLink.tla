------------------------------ MODULE MCTwizLink ------------------------------
(***************************************************************************)
(* Small instances of TwizLink for TLC.                                    *)
(***************************************************************************)
EXTENDS TwizLink, TLC

\* The handles are interchangeable.
HandleSymmetry == Permutations(Handles)
===============================================================================
