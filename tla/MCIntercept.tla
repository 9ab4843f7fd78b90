---------------------------- MODULE MCIntercept ----------------------------
(* Small instances of Intercept for TLC: see the .cfg files.               *)
EXTENDS InterceptProperties, TLC

\* No property names a thread, an address or a device.
Symmetry ==
  Permutations(Enablers) \cup Permutations(Threads) \cup Permutations(Contexts)
    \cup Permutations(Paths)
=============================================================================
