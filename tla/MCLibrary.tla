----------------------------- MODULE MCLibrary -----------------------------
(* Small instances of Library for TLC: see the .cfg files.                 *)
EXTENDS Library, TLC

\* Macros and blocks of memory are only compared.
Alike == Permutations(Wrapped) \union Permutations(Blocks)

\* A letter of the shift key; an application gives a character no signals or a
\* stroke without pauses. There is no second character at first.
MCKeyVals == << 1 >>
MCLists == {<< >>, << Stroke("set", 1), Stroke("unset", 1) >>}
MCTypedTexts == {<< 1, 0 >>}
=============================================================================
