----------------------------- MODULE MCRecovery -----------------------------
(***************************************************************************)
(* Instances of Recovery for TLC.                                          *)
(***************************************************************************)
EXTENDS Recovery

StringVals == {IntString(1), Text(2)}
SmallAndHuge == {Text(2), Text(4), Text(6)}
NoSeqs == {}
KeySymmetry == Permutations(Keys)
OneArg == {<<x>> : x \in Elems}

\* last is not read by guards or invariants
StateView == <<config, data, sizes, used, access, expiry, now, aof>>
=============================================================================
