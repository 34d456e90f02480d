----------------------------- MODULE MCKeyspace -----------------------------
(***************************************************************************)
(* Instances of Keyspace for TLC.                                          *)
(***************************************************************************)
EXTENDS Keyspace

SmallVals == {Text(1), Text(3)}
StringVals == {IntString(1), Text(2)}
NoSeqs == {}
OneArg == {<<x>> : x \in Elems}
OneOrTwoArgs == OneArg \cup {<<x, y>> : x, y \in Elems}
PlusMinusOne == {1, -1}

\* last is a record of the step just taken: no guard and no invariant reads
\* it, and action properties read last' only
StateView == <<config, data, sizes, used, access, expiry, now, aof>>

KeySymmetry == Permutations(Keys)
=============================================================================
