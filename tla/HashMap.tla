------------------------------ MODULE HashMap -------------------------------
(***************************************************************************)
(* What a hash promises its callers: a map from fields to values that      *)
(* answers the calls one after the other.  HashTable implements it in each *)
(* of its forms.                                                           *)
(***************************************************************************)
EXTENDS Integers, Sequences, FiniteSets

CONSTANTS Fields, Values, BadFields, Missing

VARIABLES
    map,   \* the value of each field
    call,  \* the last call
    reply  \* and what it returned

mapVars == <<map, call, reply>>

Raised == -1   \* the reply of a call that raised

\* the reply tells whether the field is new; a field that is not valid UTF-8
\* is refused
MapSet(f, v) ==
    LET before == map
    IN  /\ call' = [op |-> "set", fields |-> <<f>>, value |-> v]
        /\ reply' = IF f \in BadFields THEN Raised ELSE IF before[f] = Missing THEN 1 ELSE 0
        /\ map' = IF f \in BadFields THEN before ELSE [before EXCEPT ![f] = v]

\* the fields go one by one; a bad field may stop the deletion where it stands
MapDelete(fs) ==
    LET before == map
        Removed(n) == {f \in {fs[i] : i \in 1..n} : before[f] # Missing}
    IN  /\ call' = [op |-> "delete", fields |-> fs, value |-> Missing]
        /\ \E n \in 0..Len(fs) :
              /\ IF n < Len(fs) THEN fs[n + 1] \in BadFields /\ reply' = Raised
                 ELSE reply' = Cardinality(Removed(n))
              /\ map' = [f \in Fields |-> IF f \in Removed(n) THEN Missing ELSE before[f]]

FieldLists == [1..1 -> Fields] \cup [1..2 -> Fields]

MapInit == map = [f \in Fields |-> Missing] /\ reply = 0

MapNext == (\E f \in Fields, v \in Values : MapSet(f, v)) \/ (\E fs \in FieldLists : MapDelete(fs))

MapSpec == MapInit /\ [][MapNext]_mapVars
=============================================================================
