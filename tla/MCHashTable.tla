---------------------------- MODULE MCHashTable -----------------------------
(***************************************************************************)
(* Instances of HashTable for TLC.                                         *)
(***************************************************************************)
EXTENDS HashTable

CONSTANTS f1, f2, f3, f4, f5, f6

\* f1, f2, f3 share an index in 4 slots, f1 and f3 also in 8 and 16; f3 has
\* another step than f1 in 8; f4 is alone
Codes == [f \in Fields |->
             CASE f = f1 -> 1 [] f = f2 -> 5 [] f = f3 -> 1 + 65536 * 4
               [] f = f4 -> 2 [] f = f5 -> 4 [] OTHER -> 0]
\* no guard and no invariant reads the last call and its reply
StateView == <<kind, table>>
=============================================================================
