------------------------------- MODULE Server -------------------------------
(***************************************************************************)
(* Connections and shutdown (server.py).  Every client has a task that     *)
(* runs handle_client; the tasks share one event loop, so a task keeps     *)
(* the turn until it suspends at an await.  A request travels as pieces    *)
(* that arrive in chunks; its reply waits in the transport until the       *)
(* client takes it.                                                        *)
(***************************************************************************)
EXTENDS Integers, Sequences, FiniteSets, SequencesExt, Functions

CONSTANTS
    Clients,
    NoClient,
    Scripts,            \* what the clients may send: sequences of requests
    ReadChunk,          \* MINI_REDIS_READ_CHUNK, in pieces
    MaxInput,           \* MINI_REDIS_MAX_INPUT_BUFFER_BYTES, in pieces
    MaxOutput,          \* MINI_REDIS_MAX_OUTPUT_BUFFER_BYTES, in units of replies
    MaxCommandsPerTick, \* MINI_REDIS_MAX_COMMANDS_PER_TICK
    Runtimes            \* interpreters and event loops the server may run on

\* yields: asyncio.wait_for always suspends its caller (before Python 3.12);
\* waits: wait_closed of the listening server waits for the connections
\* (asyncio since Python 3.12, uvloop never)
Loops == [yields : BOOLEAN, waits : BOOLEAN]

\* "junk" does not start an array, "bad" has a length that is no number
Requests == [kind : {"write", "read", "junk", "bad"}, pieces : Nat \ {0}, reply : Nat \ {0}]

ASSUME ServerAssumption ==
    /\ NoClient \notin Clients
    /\ Scripts \subseteq [Clients -> Seq(Requests)]
    /\ ReadChunk \in Nat \ {0} /\ MaxInput \in Nat /\ MaxOutput \in Nat
    /\ MaxCommandsPerTick \in Nat \ {0}
    /\ Runtimes \subseteq Loops

VARIABLES
    runtime,   \* the one this process has
    script,    \* the requests of each client
    unsent,    \* pieces it has not sent
    arrived,   \* pieces in its StreamReader
    eof,       \* no more input comes from it
    lost,      \* its connection is gone
    pc,        \* where its task is
    buffer,    \* pieces read and not parsed
    tick,      \* commands_in_tick
    out,       \* replies in the transport
    got,       \* replies the client has received
    executed,  \* requests dispatched for it
    logged,    \* writes recorded in the log
    turn,      \* the client whose task runs, if any
    ran,       \* commands it has executed in this turn
    phase      \* "serving", "stopping", "closed" (the log is), "cancelled" (tasks are)

clientVars == <<runtime, script, unsent, arrived, eof, lost, pc, buffer, tick, out, got, executed>>
vars == <<clientVars, logged, turn, ran, phase>>

-----------------------------------------------------------------------------
PiecesOf(s) == FlattenSeq([r \in DOMAIN s |-> [i \in 1..s[r].pieces |-> <<r, i>>]])

\* a reply names the request it answers and whether it is an error
Reply(r, status) == <<r, status>>
ReplySize(c, reply) == IF reply[2] = "error" THEN 1 ELSE script[c][reply[1]].reply
OutSize(c, replies) == FoldLeft(LAMBDA n, reply : n + ReplySize(c, reply), 0, replies)

\* writer.write: nothing is kept for a connection that is gone
Written(c, reply) == IF lost[c] THEN <<>> ELSE Append(out[c], reply)

Suspend == turn' = NoClient /\ ran' = 0
GoOn(c) == turn' = c /\ UNCHANGED ran

Running(c) == turn = c /\ pc[c] = "parsing"
Ready(c, where) == turn = NoClient /\ pc[c] = where

\* _append_command: after close there is no handle and nothing is written
LogOpen == phase \in {"serving", "stopping"}

Goto(c, where) == pc' = [pc EXCEPT ![c] = where]

\* break, or an exception: on to the finally block; what was not parsed, and
\* what comes from now on, is dropped
Drop(c) ==
    /\ buffer' = [buffer EXCEPT ![c] = <<>>]
    /\ arrived' = [arrived EXCEPT ![c] = <<>>]
    /\ unsent' = [unsent EXCEPT ![c] = <<>>]
    /\ tick' = [tick EXCEPT ![c] = 0]
    /\ eof' = [eof EXCEPT ![c] = TRUE]
Leave(c) == Goto(c, "closing") /\ Drop(c) /\ Suspend

-----------------------------------------------------------------------------
\* Outside the tasks: the loop feeds the reader, the client takes replies.

Open(c) == pc[c] \notin {"closing", "closed"} /\ ~lost[c]

Arrive(c) ==
    /\ turn = NoClient /\ Open(c) /\ ~eof[c]
    /\ unsent[c] # <<>>
    /\ arrived' = [arrived EXCEPT ![c] = Append(@, Head(unsent[c]))]
    /\ unsent' = [unsent EXCEPT ![c] = Tail(@)]
    /\ UNCHANGED <<runtime, script, eof, lost, pc, buffer, tick, out, got, executed, logged, turn, ran, phase>>

SendEof(c) ==
    /\ turn = NoClient /\ Open(c) /\ ~eof[c]
    /\ eof' = [eof EXCEPT ![c] = TRUE]
    /\ unsent' = [unsent EXCEPT ![c] = <<>>]
    /\ UNCHANGED <<runtime, script, arrived, lost, pc, buffer, tick, out, got, executed, logged, turn, ran, phase>>

\* the peer resets the connection, or a write on it fails
Lose(c) ==
    /\ turn = NoClient /\ pc[c] # "closed" /\ ~lost[c]
    /\ lost' = [lost EXCEPT ![c] = TRUE]
    /\ eof' = [eof EXCEPT ![c] = TRUE]
    /\ unsent' = [unsent EXCEPT ![c] = <<>>]
    /\ out' = [out EXCEPT ![c] = <<>>]
    /\ UNCHANGED <<runtime, script, arrived, pc, buffer, tick, got, executed, logged, turn, ran, phase>>

\* the transport sends between turns, or at once when nothing waits in it
Deliver(c) ==
    /\ turn = NoClient \/ (turn = c /\ Len(out[c]) = 1)
    /\ out[c] # <<>>
    /\ got' = [got EXCEPT ![c] = Append(@, Head(out[c]))]
    /\ out' = [out EXCEPT ![c] = Tail(@)]
    /\ UNCHANGED <<runtime, script, unsent, arrived, eof, lost, pc, buffer, tick, executed, logged, turn, ran, phase>>

-----------------------------------------------------------------------------
\* The task of one client (handle_client).

\* _read_chunk, and the limit on what was read
Read(c) ==
    /\ turn \in {NoClient, c} /\ pc[c] = "reading"
    /\ arrived[c] # <<>>
    /\ LET n == IF Len(arrived[c]) < ReadChunk THEN Len(arrived[c]) ELSE ReadChunk
       IN  /\ arrived' = [arrived EXCEPT ![c] = SubSeq(@, n + 1, Len(@))]
           /\ buffer' = [buffer EXCEPT ![c] = @ \o SubSeq(arrived[c], 1, n)]
    /\ IF Len(buffer'[c]) > MaxInput
       THEN Goto(c, "failing") /\ Suspend /\ out' = [out EXCEPT ![c] = Written(c, Reply(0, "error"))]
       ELSE Goto(c, "parsing") /\ GoOn(c) /\ UNCHANGED out
    /\ UNCHANGED <<runtime, script, unsent, eof, lost, tick, got, executed, logged, phase>>

\* faulty: no idle timeout
LeaveReadingOnEofOnly(c) ==
    /\ turn \in {NoClient, c} /\ pc[c] = "reading"
    /\ lost[c] \/ (eof[c] /\ arrived[c] = <<>>)
    /\ Leave(c)
    /\ UNCHANGED <<runtime, script, lost, out, got, executed, logged, phase>>

\* the end of the input, a lost connection, or nothing for too long
LeaveReading(c) ==
    /\ turn \in {NoClient, c} /\ pc[c] = "reading"
    /\ lost[c] \/ arrived[c] = <<>>
    /\ Leave(c)
    /\ UNCHANGED <<runtime, script, lost, out, got, executed, logged, phase>>

\* parse: the request at the front of the buffer, if it is complete
FrontRequest(c) == script[c][buffer[c][1][1]]
Complete(c) ==
    /\ buffer[c] # <<>>
    /\ FrontRequest(c).kind \in {"write", "read"}
    /\ Len(buffer[c]) >= FrontRequest(c).pieces
Malformed(c) == buffer[c] # <<>> /\ FrontRequest(c).kind = "bad"

\* faulty: the output limit is not looked at
AfterReplyUnlimited(c, count) ==
    IF count < MaxCommandsPerTick
    THEN Goto(c, "parsing") /\ turn' = c /\ ran' = ran + 1 /\ tick' = [tick EXCEPT ![c] = count]
    ELSE Goto(c, "yielded") /\ Suspend /\ tick' = [tick EXCEPT ![c] = 0]

\* faulty: the budget is one command too large
AfterReplyOneMore(c, count) ==
    IF OutSize(c, out'[c]) > MaxOutput
    THEN Goto(c, "flushing") /\ Suspend /\ tick' = [tick EXCEPT ![c] = count]
    ELSE IF count <= MaxCommandsPerTick
    THEN Goto(c, "parsing") /\ turn' = c /\ ran' = ran + 1 /\ tick' = [tick EXCEPT ![c] = count]
    ELSE Goto(c, "yielded") /\ Suspend /\ tick' = [tick EXCEPT ![c] = 0]

\* faulty: one request per chunk
AfterReplyReadsOn(c, count) ==
    IF OutSize(c, out'[c]) > MaxOutput
    THEN Goto(c, "flushing") /\ Suspend /\ tick' = [tick EXCEPT ![c] = count]
    ELSE Goto(c, "reading") /\ Suspend /\ tick' = [tick EXCEPT ![c] = 0]

\* the checks after a reply was written: output limit, then command budget
AfterReply(c, count) ==
    IF OutSize(c, out'[c]) > MaxOutput
    THEN Goto(c, "flushing") /\ Suspend /\ tick' = [tick EXCEPT ![c] = count]
    ELSE IF count < MaxCommandsPerTick
    THEN Goto(c, "parsing") /\ turn' = c /\ ran' = ran + 1 /\ tick' = [tick EXCEPT ![c] = count]
    ELSE Goto(c, "yielded") /\ Suspend /\ tick' = [tick EXCEPT ![c] = 0]

\* faulty: the rest of the chunk goes with the request
ExecuteDropsRest(c) ==
    /\ Running(c) /\ Complete(c)
    /\ LET r == buffer[c][1][1]
       IN  /\ buffer' = [buffer EXCEPT ![c] = <<>>]
           /\ executed' = [executed EXCEPT ![c] = Append(@, r)]
           /\ logged' = IF FrontRequest(c).kind = "write" /\ LogOpen
                        THEN logged \cup {<<c, r>>} ELSE logged
           /\ out' = [out EXCEPT ![c] = Written(c, Reply(r, "ok"))]
    /\ AfterReply(c, tick[c] + 1)
    /\ UNCHANGED <<runtime, script, unsent, arrived, eof, lost, got, phase>>

\* dispatch, record_command, write
Execute(c) ==
    /\ Running(c) /\ Complete(c)
    /\ LET r == buffer[c][1][1]
       IN  /\ buffer' = [buffer EXCEPT ![c] = SubSeq(@, FrontRequest(c).pieces + 1, Len(@))]
           /\ executed' = [executed EXCEPT ![c] = Append(@, r)]
           /\ logged' = IF FrontRequest(c).kind = "write" /\ LogOpen
                        THEN logged \cup {<<c, r>>} ELSE logged
           /\ out' = [out EXCEPT ![c] = Written(c, Reply(r, "ok"))]
    /\ AfterReply(c, tick[c] + 1)
    /\ UNCHANGED <<runtime, script, unsent, arrived, eof, lost, got, phase>>

\* faulty: a failing write of the log is swallowed
ExecuteUnloggedSilently(c) ==
    /\ LogOpen
    /\ Running(c) /\ Complete(c) /\ FrontRequest(c).kind = "write"
    /\ LET r == buffer[c][1][1]
       IN  /\ buffer' = [buffer EXCEPT ![c] = SubSeq(@, FrontRequest(c).pieces + 1, Len(@))]
           /\ executed' = [executed EXCEPT ![c] = Append(@, r)]
           /\ out' = [out EXCEPT ![c] = Written(c, Reply(r, "ok"))]
    /\ AfterReply(c, tick[c] + 1)
    /\ UNCHANGED <<runtime, script, unsent, arrived, eof, lost, got, logged, phase>>

\* the log cannot be written or synced: the command is done, the reply is an
\* error
ExecuteUnlogged(c) ==
    /\ LogOpen
    /\ Running(c) /\ Complete(c) /\ FrontRequest(c).kind = "write"
    /\ LET r == buffer[c][1][1]
       IN  /\ buffer' = [buffer EXCEPT ![c] = SubSeq(@, FrontRequest(c).pieces + 1, Len(@))]
           /\ executed' = [executed EXCEPT ![c] = Append(@, r)]
           /\ out' = [out EXCEPT ![c] = Written(c, Reply(r, "error"))]
           /\ logged' \in {logged, logged \cup {<<c, r>>}}
    /\ Goto(c, "failing") /\ Suspend
    /\ UNCHANGED <<runtime, script, unsent, arrived, eof, lost, tick, got, phase>>

\* parse raises
Reject(c) ==
    /\ Running(c) /\ Malformed(c)
    /\ out' = [out EXCEPT ![c] = Written(c, Reply(0, "error"))]
    /\ Goto(c, "failing") /\ Suspend
    /\ UNCHANGED <<runtime, script, unsent, arrived, eof, lost, buffer, tick, got, executed, logged, phase>>

\* faulty: the count is kept for the next chunk
EndOfChunkKeepsCount(c) ==
    /\ Running(c) /\ ~Complete(c) /\ ~Malformed(c)
    /\ IF tick[c] > 0 /\ lost[c]
       THEN Leave(c)
       ELSE /\ Goto(c, "reading")
            /\ IF runtime.yields \/ arrived[c] = <<>> THEN Suspend ELSE GoOn(c)
            /\ UNCHANGED <<unsent, arrived, eof, buffer, tick>>
    /\ UNCHANGED <<runtime, script, lost, out, got, executed, logged, phase>>

\* no complete request: drain if something was written, and read on, in the
\* same turn if neither await suspends
EndOfChunk(c) ==
    /\ Running(c) /\ ~Complete(c) /\ ~Malformed(c)
    /\ IF tick[c] > 0 /\ lost[c]
       THEN Leave(c)
       ELSE /\ Goto(c, "reading")
            /\ IF runtime.yields \/ arrived[c] = <<>> THEN Suspend ELSE GoOn(c)
            /\ tick' = [tick EXCEPT ![c] = 0]
            /\ UNCHANGED <<unsent, arrived, eof, buffer>>
    /\ UNCHANGED <<runtime, script, lost, out, got, executed, logged, phase>>

\* the transport is at its low mark again
FlushDone(c) ==
    /\ Ready(c, "flushing") /\ ~lost[c]
    /\ OutSize(c, out[c]) <= MaxOutput \div 2 \/ out[c] = <<>>
    /\ IF tick[c] < MaxCommandsPerTick
       THEN Goto(c, "parsing") /\ GoOn(c) /\ UNCHANGED tick
       ELSE Goto(c, "yielded") /\ Suspend /\ tick' = [tick EXCEPT ![c] = 0]
    /\ UNCHANGED <<runtime, script, unsent, arrived, eof, lost, buffer, out, got, executed, logged, phase>>

\* faulty: drain without a timeout
FlushFailsOnLossOnly(c) ==
    /\ Ready(c, "flushing") /\ lost[c]
    /\ Leave(c)
    /\ UNCHANGED <<runtime, script, lost, out, got, executed, logged, phase>>

\* write drain timeout, or the connection is lost
FlushFails(c) ==
    /\ Ready(c, "flushing")
    /\ Leave(c)
    /\ UNCHANGED <<runtime, script, lost, out, got, executed, logged, phase>>

\* drain and asyncio.sleep(0) return; drain raises on a lost connection
Resume(c) ==
    /\ Ready(c, "yielded")
    /\ \/ Goto(c, "parsing") /\ GoOn(c) /\ UNCHANGED <<unsent, arrived, eof, buffer, tick>>
       \/ lost[c] /\ Leave(c)
    /\ UNCHANGED <<runtime, script, lost, out, got, executed, logged, phase>>

\* _send_protocol_error has drained, or not in time
LeaveFailing(c) ==
    /\ Ready(c, "failing")
    /\ Leave(c)
    /\ UNCHANGED <<runtime, script, lost, out, got, executed, logged, phase>>

\* writer.close() and wait_closed(): what is in the transport is still sent,
\* for as long as the client takes
Closed(c) ==
    /\ Ready(c, "closing")
    /\ out[c] = <<>>
    /\ Goto(c, "closed")
    /\ UNCHANGED <<runtime, script, unsent, arrived, eof, lost, buffer, tick, out, got, executed, logged, turn, ran, phase>>

-----------------------------------------------------------------------------
\* Shutdown (start): a signal, or a worker task that raised.

Stop ==
    /\ phase = "serving" /\ turn = NoClient
    /\ phase' = "stopping"
    /\ UNCHANGED <<clientVars, logged, turn, ran>>

\* the finally block: save_rdb, then the log is synced and closed
CloseLog ==
    /\ phase = "stopping" /\ turn = NoClient
    /\ runtime.waits => \A c \in Clients : pc[c] = "closed"
    /\ phase' = "closed"
    /\ UNCHANGED <<clientVars, logged, turn, ran>>

\* a second signal cancels that wait
StopAgain ==
    /\ phase = "stopping" /\ turn = NoClient
    /\ phase' = "closed"
    /\ UNCHANGED <<clientVars, logged, turn, ran>>

\* asyncio.run cancels every task once, at the await where it is suspended:
\* a handler goes to its finally block, one that was there ends.  wait_for of
\* Python 3.11 returns what is there already, and the cancellation is lost.
Cancel ==
    /\ phase = "closed" /\ turn = NoClient
    /\ phase' = "cancelled"
    /\ \E missed \in SUBSET {c \in Clients : runtime.yields /\ pc[c] = "reading" /\ arrived[c] # <<>>} :
          LET Kept(f, empty) == [c \in Clients |-> IF c \in missed THEN f[c] ELSE empty]
          IN  /\ pc' = [c \in Clients |-> IF c \in missed THEN pc[c]
                                       ELSE IF pc[c] \in {"closing", "closed"} THEN "closed"
                                       ELSE "closing"]
              /\ buffer' = Kept(buffer, <<>>) /\ arrived' = Kept(arrived, <<>>)
              /\ unsent' = Kept(unsent, <<>>) /\ tick' = Kept(tick, 0) /\ eof' = Kept(eof, TRUE)
    /\ UNCHANGED <<runtime, script, lost, out, got, executed, logged, turn, ran>>

Ended ==
    /\ phase = "cancelled" /\ \A c \in Clients : pc[c] = "closed"
    /\ UNCHANGED vars

-----------------------------------------------------------------------------
Init ==
    /\ runtime \in Runtimes
    /\ script \in Scripts
    /\ unsent = [c \in Clients |-> PiecesOf(script[c])]
    /\ arrived = [c \in Clients |-> <<>>]
    /\ eof = [c \in Clients |-> FALSE]
    /\ lost = [c \in Clients |-> FALSE]
    /\ pc = [c \in Clients |-> "reading"]
    /\ buffer = [c \in Clients |-> <<>>]
    /\ tick = [c \in Clients |-> 0]
    /\ out = [c \in Clients |-> <<>>]
    /\ got = [c \in Clients |-> <<>>]
    /\ executed = [c \in Clients |-> <<>>]
    /\ logged = {}
    /\ turn = NoClient
    /\ ran = 0
    /\ phase = "serving"

Task(c) ==
    \/ Read(c) \/ LeaveReading(c)
    \/ Execute(c) \/ ExecuteUnlogged(c) \/ Reject(c) \/ EndOfChunk(c)
    \/ FlushDone(c) \/ FlushFails(c) \/ Resume(c) \/ LeaveFailing(c) \/ Closed(c)

Environment(c) == Arrive(c) \/ SendEof(c) \/ Lose(c) \/ Deliver(c)

Next ==
    \/ \E c \in Clients : Task(c) \/ Environment(c)
    \/ Stop \/ CloseLog \/ StopAgain \/ Cancel \/ Ended

Spec == Init /\ [][Next]_vars

\* The tasks: the event loop runs every task that is ready, and timers fire; nothing is
\* assumed of the clients
FairSpec == Spec /\ \A c \in Clients : WF_vars(Task(c)) /\ WF_vars(CloseLog)

-----------------------------------------------------------------------------
Replies(c) == got[c] \o out[c]
Answered(c) == {i \in DOMAIN Replies(c) : Replies(c)[i][1] # 0}
Acked(c) == {Replies(c)[i][1] : i \in {j \in Answered(c) : Replies(c)[j][2] = "ok"}}

\* Types, and what holds of the counts between turns: a task that waits for
\* input begins the next chunk with a whole command budget.
TypeOK ==
    /\ runtime \in Runtimes
    /\ script \in Scripts
    /\ \A p \in {unsent, arrived, buffer} : p \in [Clients -> Seq(Nat \X Nat)]
    /\ eof \in [Clients -> BOOLEAN] /\ lost \in [Clients -> BOOLEAN]
    /\ pc \in [Clients -> {"reading", "parsing", "flushing", "yielded", "failing", "closing", "closed"}]
    /\ tick \in [Clients -> 0..MaxCommandsPerTick]
    /\ \A c \in Clients : pc[c] = "reading" => tick[c] = 0
    /\ \A p \in {out, got} : p \in [Clients -> Seq(Nat \X {"ok", "error"})]
    /\ executed \in [Clients -> Seq(Nat \ {0})]
    /\ logged \subseteq Clients \X (Nat \ {0})
    /\ turn \in Clients \cup {NoClient}
    /\ ran \in Nat /\ (turn = NoClient => ran = 0)
    /\ phase \in {"serving", "stopping", "closed", "cancelled"}

\* However the input is cut into chunks, and wherever the task waits between
\* two commands of a pipeline, a client's requests are executed once each and
\* in the order sent, its replies come in the same order with none missing
\* between, all of them while the connection lasts, and an error of the
\* connection is the last thing it reads (handle_client).
PipelineInOrder ==
    \A c \in Clients :
        /\ executed[c] = [i \in 1..Len(executed[c]) |-> i]
        /\ \A i \in Answered(c) : Replies(c)[i][1] = i
        /\ ~lost[c] => Cardinality(Answered(c)) = Len(executed[c])
        /\ \A i \in DOMAIN Replies(c) : Replies(c)[i][2] = "error" => i = Len(Replies(c))

\* A task that waits for input has answered every complete request it was
\* given: a request never waits in the buffer for bytes it does not need.
NothingCompleteWaits == \A c \in Clients : pc[c] = "reading" => ~Complete(c)

\* What the server holds for one client is bounded, however fast it sends and
\* however slowly it reads: the input that is kept across a wait, and the
\* replies, by the output limit and one reply (_flush_output_if_needed).
BuffersBounded ==
    \A c \in Clients :
        /\ pc[c] \in {"reading", "parsing", "flushing", "yielded"} => Len(buffer[c]) <= MaxInput
        /\ \A i \in DOMAIN out[c] :
              OutSize(c, SubSeq(out[c], 1, i - 1)) <= MaxOutput

\* One client cannot keep the turn: before Python 3.12 it executes at most
\* MINI_REDIS_MAX_COMMANDS_PER_TICK commands before other tasks run:
\* with the last of them it lets go.
TurnIsBounded == runtime.yields => ran < MaxCommandsPerTick

\* "always: fsync of the AOF is complete before a normal reply" (README.md:44):
\* a write that was acknowledged is in the log.
AckedIsLogged ==
    \A c \in Clients : \A r \in Acked(c) : script[c][r].kind = "write" => <<c, r>> \in logged

\* It holds until the log is closed, whatever the disk refuses.
AckedIsLoggedUntilClosed == LogOpen => AckedIsLogged

\* A connection whose client has gone silent or has left ends, whatever is in
\* its buffer, unless it does not read its replies: input that does not start
\* an array is never answered, only the idle timeout ends it.
SlowReader(c) == pc[c] = "closing" /\ out[c] # <<>>
ConnectionsEnd == \A c \in Clients : (unsent[c] = <<>>) ~> (pc[c] = "closed" \/ SlowReader(c))

\* A server that is told to stop closes its log, at once or after the last
\* connection; a client that never reads its replies is what can prevent it,
\* since wait_closed has no timeout.
LogIsClosed == (phase = "stopping") ~> (~LogOpen \/ \E c \in Clients : SlowReader(c))
=============================================================================
