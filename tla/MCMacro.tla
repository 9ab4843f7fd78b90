------------------------------ MODULE MCMacro ------------------------------
(* Small instances of Macro for TLC: see the .cfg files.                   *)
EXTENDS MacroProperties, TLC

\* Workers are interchangeable: no property names one.
Symmetry == Permutations(Workers)
=============================================================================
