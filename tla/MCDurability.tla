---------------------------- MODULE MCDurability ----------------------------
(***************************************************************************)
(* Instances of Durability for TLC.                                        *)
(***************************************************************************)
EXTENDS Durability

Aof(policy, snapshots) == [aof |-> TRUE, fsync |-> policy, rdb |-> snapshots, interval |-> snapshots]
RdbOnly == [aof |-> FALSE, fsync |-> "no", rdb |-> TRUE, interval |-> TRUE]

SomeSettings == {Aof(f, FALSE) : f \in {"always", "everysec"}} \cup {Aof("always", TRUE), RdbOnly}
\* commands write scores of many digits, a snapshot gives them back with six
Scores == {"long", "six digits"}
LongScores == {"long"}
SixDigits == [x \in Scores |-> "six digits"]
=============================================================================
