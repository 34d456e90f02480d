------------------------------ MODULE MCServer ------------------------------
(***************************************************************************)
(* Instances of Server for TLC.                                            *)
(***************************************************************************)
EXTENDS Server, TLC

Request(kind, pieces, reply) == [kind |-> kind, pieces |-> pieces, reply |-> reply]

CONSTANTS c1, c2

\* a pipeline with a request in two pieces and a long reply beside a single
\* write, and a malformed request beside input that is no request
Pipeline == <<Request("write", 2, 1), Request("read", 1, 2), Request("write", 1, 1)>>
Single == <<Request("write", 1, 1)>>
MalformedRequest == <<Request("write", 1, 2), Request("bad", 1, 1)>>
NoRequest == <<Request("junk", 1, 1), Request("write", 1, 1)>>
ScriptSet == {(c1 :> Pipeline) @@ (c2 :> Single), (c1 :> MalformedRequest) @@ (c2 :> NoRequest)}

Before312 == [yields |-> TRUE, waits |-> FALSE]
Since312 == [yields |-> FALSE, waits |-> TRUE]
BothRuntimes == {Before312, Since312}
OldRuntime == {Before312}
=============================================================================
