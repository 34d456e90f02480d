---------------------------- MODULE Server_proof ----------------------------
(***************************************************************************)
(* Server for every set of clients, every script and every limit: a task   *)
(* lets go of the turn with the last command of its budget, what was       *)
(* acknowledged while the log is open is in the log, and the pipeline of   *)
(* each client is executed and answered in order within the limits.        *)
(***************************************************************************)
EXTENDS Server, SequenceTheorems, Sums, TLAPS

-----------------------------------------------------------------------------
(***************************************************************************)
(* The turn.  The task that has it is parsing, and the commands it has     *)
(* executed since it got the turn are counted in commands_in_tick, which   *)
(* may be larger: FlushDone goes on with the count it had.                 *)
(***************************************************************************)
TurnInv ==
    /\ runtime \in Loops
    /\ tick \in [Clients -> Nat]
    /\ DOMAIN pc = Clients
    /\ turn \in Clients \cup {NoClient}
    /\ ran \in Nat
    /\ turn = NoClient => ran = 0
    /\ runtime.yields =>
          /\ turn \in Clients => pc[turn] = "parsing" /\ ran <= tick[turn]
          /\ ran < MaxCommandsPerTick

LEMMA TurnInit == Init => TurnInv
BY ServerAssumption DEF Init, TurnInv, Loops

LEMMA LeaveKeepsTurn ==
    ASSUME TurnInv, NEW c \in Clients, Leave(c), runtime' = runtime
    PROVE  TurnInv'
<1>1. tick' \in [Clients -> Nat] /\ DOMAIN pc' = Clients
  BY DEF TurnInv, Leave, Drop, Goto
<1>2. turn' = NoClient /\ ran' = 0
  BY DEF Leave, Suspend
<1> QED
  BY <1>1, <1>2, ServerAssumption DEF TurnInv

\* A task that writes a reply goes on below its budget only.
LEMMA AfterReplyKeepsTurn ==
    ASSUME TurnInv, NEW c \in Clients, Running(c), AfterReply(c, tick[c] + 1), runtime' = runtime
    PROVE  TurnInv'
<1>1. tick[c] \in Nat /\ ran \in Nat /\ MaxCommandsPerTick \in Nat \ {0} /\ NoClient \notin Clients
  BY ServerAssumption DEF TurnInv
<1>2. turn = c
  BY DEF Running
<1>3. CASE Goto(c, "flushing") /\ Suspend /\ tick' = [tick EXCEPT ![c] = tick[c] + 1]
  BY <1>1, <1>3 DEF TurnInv, Goto, Suspend
<1>4. CASE Goto(c, "yielded") /\ Suspend /\ tick' = [tick EXCEPT ![c] = 0]
  BY <1>1, <1>4 DEF TurnInv, Goto, Suspend
<1>5. CASE /\ tick[c] + 1 < MaxCommandsPerTick
           /\ Goto(c, "parsing") /\ turn' = c /\ ran' = ran + 1
           /\ tick' = [tick EXCEPT ![c] = tick[c] + 1]
  <2>1. tick' \in [Clients -> Nat] /\ tick'[c] = tick[c] + 1 /\ DOMAIN pc' = Clients /\ pc'[c] = "parsing"
    BY <1>1, <1>5 DEF TurnInv, Goto
  <2>2. runtime.yields => ran <= tick[c]
    BY <1>2 DEF TurnInv
  <2> QED
    BY <1>1, <1>2, <1>5, <2>1, <2>2 DEF TurnInv
<1> QED
  BY <1>3, <1>4, <1>5 DEF AfterReply

LEMMA TurnStep == TurnInv /\ [Next]_vars => TurnInv'
<1> SUFFICES ASSUME TurnInv, [Next]_vars PROVE TurnInv'
  OBVIOUS
<1>0. MaxCommandsPerTick \in Nat \ {0} /\ NoClient \notin Clients
  BY ServerAssumption
<1>1. ASSUME NEW c \in Clients, Read(c) PROVE TurnInv'
  <2>1. runtime' = runtime /\ tick' = tick /\ DOMAIN pc' = Clients
    BY <1>1 DEF Read, Goto, TurnInv
  <2>2. CASE Suspend
    BY <1>0, <2>1, <2>2 DEF Suspend, TurnInv
  <2>3. CASE Goto(c, "parsing") /\ GoOn(c)
    <3>1. pc'[c] = "parsing" /\ turn' = c /\ ran' = ran /\ turn \in {NoClient, c}
      BY <1>1, <2>3 DEF Read, Goto, GoOn, TurnInv
    <3>2. tick[c] \in Nat /\ (runtime.yields => ran <= tick[c])
      BY <1>0, <3>1 DEF TurnInv
    <3> QED
      BY <1>0, <2>1, <3>1, <3>2 DEF TurnInv
  <2> QED
    BY <1>1, <2>2, <2>3 DEF Read
<1>2. ASSUME NEW c \in Clients, LeaveReading(c) PROVE TurnInv'
  BY <1>2, LeaveKeepsTurn DEF LeaveReading
<1>3. ASSUME NEW c \in Clients, Execute(c) PROVE TurnInv'
  BY <1>3, AfterReplyKeepsTurn DEF Execute
<1>4. ASSUME NEW c \in Clients, ExecuteUnlogged(c) \/ Reject(c) PROVE TurnInv'
  BY <1>0, <1>4 DEF ExecuteUnlogged, Reject, Goto, Suspend, TurnInv
<1>5. ASSUME NEW c \in Clients, EndOfChunk(c) PROVE TurnInv'
  <2>1. runtime' = runtime /\ turn = c
    BY <1>5 DEF EndOfChunk, Running
  <2>2. CASE Leave(c)
    BY <2>1, <2>2, LeaveKeepsTurn
  <2>3. CASE ~Leave(c)
    <3>1. tick' \in [Clients -> Nat] /\ DOMAIN pc' = Clients
      BY <1>5, <2>3 DEF EndOfChunk, Goto, TurnInv
    <3>2. CASE Suspend
      BY <1>0, <2>1, <3>1, <3>2 DEF Suspend, TurnInv
    <3>3. CASE ~runtime.yields /\ GoOn(c)
      BY <1>0, <2>1, <3>1, <3>3 DEF GoOn, TurnInv
    <3> QED
      BY <1>5, <2>3, <3>2, <3>3 DEF EndOfChunk
  <2> QED
    BY <2>2, <2>3
<1>6. ASSUME NEW c \in Clients, FlushDone(c) PROVE TurnInv'
  <2>1. runtime' = runtime /\ turn = NoClient /\ ran = 0 /\ tick[c] \in Nat
    BY <1>6 DEF FlushDone, Ready, TurnInv
  <2>2. CASE Goto(c, "parsing") /\ GoOn(c) /\ UNCHANGED tick
    <3>1. DOMAIN pc' = Clients /\ pc'[c] = "parsing" /\ turn' = c /\ ran' = 0
      BY <2>1, <2>2 DEF Goto, GoOn, TurnInv
    <3> QED
      BY <1>0, <2>1, <2>2, <3>1 DEF TurnInv
  <2>3. CASE Goto(c, "yielded") /\ Suspend /\ tick' = [tick EXCEPT ![c] = 0]
    BY <1>0, <2>1, <2>3 DEF Goto, Suspend, TurnInv
  <2> QED
    BY <1>6, <2>2, <2>3 DEF FlushDone
<1>7. ASSUME NEW c \in Clients, FlushFails(c) \/ LeaveFailing(c) PROVE TurnInv'
  BY <1>7, LeaveKeepsTurn DEF FlushFails, LeaveFailing
<1>8. ASSUME NEW c \in Clients, Resume(c) PROVE TurnInv'
  <2>1. runtime' = runtime /\ turn = NoClient /\ ran = 0 /\ tick[c] \in Nat
    BY <1>8 DEF Resume, Ready, TurnInv
  <2>2. CASE Leave(c)
    BY <2>1, <2>2, LeaveKeepsTurn
  <2>3. CASE Goto(c, "parsing") /\ GoOn(c) /\ UNCHANGED tick
    <3>1. DOMAIN pc' = Clients /\ pc'[c] = "parsing" /\ turn' = c /\ ran' = 0
      BY <2>1, <2>3 DEF Goto, GoOn, TurnInv
    <3> QED
      BY <1>0, <2>1, <2>3, <3>1 DEF TurnInv
  <2> QED
    BY <1>8, <2>2, <2>3 DEF Resume
<1>9. ASSUME NEW c \in Clients, Closed(c) PROVE TurnInv'
  <2>1. turn = NoClient /\ turn' = turn /\ ran' = ran /\ runtime' = runtime /\ tick' = tick /\ DOMAIN pc' = Clients
    BY <1>9 DEF Closed, Ready, Goto, TurnInv
  <2> QED
    BY <1>0, <2>1 DEF TurnInv
<1>10. ASSUME NEW c \in Clients, Environment(c) PROVE TurnInv'
  BY <1>10 DEF Environment, Arrive, SendEof, Lose, Deliver, TurnInv
<1>11. CASE Stop \/ CloseLog \/ StopAgain \/ Ended \/ UNCHANGED vars
  BY <1>11 DEF Stop, CloseLog, StopAgain, Ended, vars, clientVars, TurnInv
<1>12. CASE Cancel
  <2>1. tick' \in [Clients -> Nat] /\ DOMAIN pc' = Clients
    BY <1>12 DEF Cancel, TurnInv
  <2>2. turn = NoClient /\ turn' = turn /\ ran' = ran /\ runtime' = runtime
    BY <1>12 DEF Cancel
  <2> QED
    BY <1>0, <2>1, <2>2 DEF TurnInv
<1> QED
  BY <1>1, <1>2, <1>3, <1>4, <1>5, <1>6, <1>7, <1>8, <1>9, <1>10, <1>11, <1>12 DEF Next, Task

\* A client cannot keep the turn: before Python 3.12 a task executes fewer
\* commands than MINI_REDIS_MAX_COMMANDS_PER_TICK without letting go, and lets
\* go with the last one, whatever the other limits are.
THEOREM TurnBounded == Spec => []TurnIsBounded
<1>1. TurnInv => TurnIsBounded
  BY DEF TurnInv, TurnIsBounded
<1> QED
  BY <1>1, TurnInit, TurnStep, PTL DEF Spec

-----------------------------------------------------------------------------
(***************************************************************************)
(* The log.  A reply vouches for its request if it is not an "ok" to a     *)
(* write that the log lacks.  Replies move from the transport to the       *)
(* client, the log only grows, and a reply is written together with the    *)
(* record of its command.                                                  *)
(***************************************************************************)
Vouches(reply, c, requests, log) ==
    (reply[1] # 0 /\ reply[2] = "ok" /\ requests[reply[1]].kind = "write") => <<c, reply[1]>> \in log

AllVouch(replies, c, requests, log) ==
    /\ \E S : replies \in Seq(S)
    /\ \A i \in DOMAIN replies : Vouches(replies[i], c, requests, log)

LogInv ==
    /\ DOMAIN got = Clients /\ DOMAIN out = Clients
    /\ LogOpen => \A c \in Clients : /\ AllVouch(got[c], c, script[c], logged)
                                     /\ AllVouch(out[c], c, script[c], logged)

LEMMA NoneVouch ==
    ASSUME NEW c, NEW requests, NEW log
    PROVE  AllVouch(<<>>, c, requests, log)
<1>1. <<>> \in Seq({})
  OBVIOUS
<1> QED
  BY <1>1 DEF AllVouch

LEMMA AppendVouches ==
    ASSUME NEW c, NEW requests, NEW log, NEW s, AllVouch(s, c, requests, log),
           NEW e, Vouches(e, c, requests, log)
    PROVE  AllVouch(Append(s, e), c, requests, log)
<1>1. PICK S : s \in Seq(S)
  BY DEF AllVouch
<1>2. s \in Seq(S \cup {e})
  BY <1>1
<1>3. Append(s, e) \in Seq(S \cup {e})
  BY <1>2
<1>4. ASSUME NEW i \in DOMAIN Append(s, e)
      PROVE  (i \in DOMAIN s /\ Append(s, e)[i] = s[i]) \/ Append(s, e)[i] = e
  BY <1>2
<1> QED
  BY <1>3, <1>4 DEF AllVouch

LEMMA HeadTailVouch ==
    ASSUME NEW c, NEW requests, NEW log, NEW s, AllVouch(s, c, requests, log), s # <<>>
    PROVE  Vouches(Head(s), c, requests, log) /\ AllVouch(Tail(s), c, requests, log)
<1>1. PICK S : s \in Seq(S)
  BY DEF AllVouch
<1>2. Head(s) = s[1] /\ 1 \in DOMAIN s
  BY <1>1
<1>3. Tail(s) \in Seq(S)
  BY <1>1
<1>4. ASSUME NEW i \in DOMAIN Tail(s)
      PROVE  i + 1 \in DOMAIN s /\ Tail(s)[i] = s[i + 1]
  BY <1>1
<1> QED
  BY <1>2, <1>3, <1>4 DEF AllVouch

LEMMA ConcatVouches ==
    ASSUME NEW c, NEW requests, NEW log, NEW s, NEW t,
           AllVouch(s, c, requests, log), AllVouch(t, c, requests, log),
           NEW i \in DOMAIN (s \o t)
    PROVE  Vouches((s \o t)[i], c, requests, log)
<1>1. PICK S : s \in Seq(S)
  BY DEF AllVouch
<1>2. PICK T : t \in Seq(T)
  BY DEF AllVouch
<1>3. s \in Seq(S \cup T) /\ t \in Seq(S \cup T)
  BY <1>1, <1>2
<1>4. \/ i \in DOMAIN s /\ (s \o t)[i] = s[i]
      \/ i - Len(s) \in DOMAIN t /\ (s \o t)[i] = t[i - Len(s)]
  BY <1>3
<1> QED
  BY <1>4 DEF AllVouch

\* A larger log vouches for more.
LEMMA LogGrows ==
    ASSUME NEW c, NEW requests, NEW log, NEW larger, log \subseteq larger,
           NEW s, AllVouch(s, c, requests, log)
    PROVE  AllVouch(s, c, requests, larger)
BY DEF AllVouch, Vouches

LEMMA LogInit == Init => LogInv
BY NoneVouch DEF Init, LogInv

\* Steps that write at most one reply, which the log of the next state vouches
\* for, and drop nothing from the log.
LEMMA OneReplyKeepsLog ==
    ASSUME LogInv, NEW c \in Clients, NEW reply,
           got' = got /\ script' = script /\ phase' = phase /\ logged \subseteq logged',
           out' = [out EXCEPT ![c] = Written(c, reply)],
           LogOpen => Vouches(reply, c, script[c], logged')
    PROVE  LogInv'
<1>1. DOMAIN got' = Clients /\ DOMAIN out' = Clients
  BY DEF LogInv
<1>2. LogOpen' <=> LogOpen
  BY DEF LogOpen
<1>3. ASSUME LogOpen, NEW d \in Clients
      PROVE  AllVouch(got[d], d, script[d], logged') /\ AllVouch(out[d], d, script[d], logged')
  BY <1>3, LogGrows DEF LogInv
<1>4. ASSUME LogOpen PROVE AllVouch(Written(c, reply), c, script[c], logged')
  BY <1>3, <1>4, AppendVouches, NoneVouch DEF Written
<1>5. ASSUME LogOpen, NEW d \in Clients
      PROVE  AllVouch(got'[d], d, script'[d], logged') /\ AllVouch(out'[d], d, script'[d], logged')
  <2>1. got'[d] = got[d] /\ script'[d] = script[d] /\ out'[d] = IF d = c THEN Written(c, reply) ELSE out[d]
    BY DEF LogInv
  <2> QED
    BY <1>3, <1>4, <1>5, <2>1
<1> QED
  BY <1>1, <1>2, <1>5 DEF LogInv

LEMMA NoReplyKeepsLog ==
    ASSUME LogInv, UNCHANGED <<got, out, script, logged>>, LogOpen' => LogOpen
    PROVE  LogInv'
BY DEF LogInv

LEMMA LogStep == LogInv /\ [Next]_vars => LogInv'
<1> SUFFICES ASSUME LogInv, [Next]_vars PROVE LogInv'
  OBVIOUS
<1>1. ASSUME NEW c \in Clients, Read(c) PROVE LogInv'
  <2>1. got' = got /\ script' = script /\ phase' = phase /\ logged' = logged
    BY <1>1 DEF Read
  <2>2. CASE UNCHANGED out
    BY <2>1, <2>2, NoReplyKeepsLog DEF LogOpen
  <2>3. CASE out' = [out EXCEPT ![c] = Written(c, Reply(0, "error"))]
    <3>1. Vouches(Reply(0, "error"), c, script[c], logged')
      BY DEF Vouches, Reply
    <3> QED
      BY <2>1, <2>3, <3>1, OneReplyKeepsLog
  <2> QED
    BY <1>1, <2>2, <2>3 DEF Read
<1>2. ASSUME NEW c \in Clients, Execute(c) PROVE LogInv'
  <2> DEFINE r == buffer[c][1][1]
  <2>1. got' = got /\ script' = script /\ phase' = phase
    BY <1>2 DEF Execute
  <2>2. logged' = IF FrontRequest(c).kind = "write" /\ LogOpen THEN logged \cup {<<c, r>>} ELSE logged
    BY <1>2 DEF Execute
  <2>3. out' = [out EXCEPT ![c] = Written(c, Reply(r, "ok"))]
    BY <1>2 DEF Execute
  <2>4. LogOpen => Vouches(Reply(r, "ok"), c, script[c], logged')
    BY <2>2 DEF Vouches, Reply, FrontRequest
  <2>5. logged \subseteq logged'
    BY <2>2
  <2> HIDE DEF r
  <2> QED
    BY <2>1, <2>3, <2>4, <2>5, OneReplyKeepsLog
<1>3. ASSUME NEW c \in Clients, ExecuteUnlogged(c) PROVE LogInv'
  <2> DEFINE r == buffer[c][1][1]
  <2>1. got' = got /\ script' = script /\ phase' = phase /\ logged \subseteq logged'
    BY <1>3 DEF ExecuteUnlogged
  <2>2. out' = [out EXCEPT ![c] = Written(c, Reply(r, "error"))]
    BY <1>3 DEF ExecuteUnlogged
  <2>3. Vouches(Reply(r, "error"), c, script[c], logged')
    BY DEF Vouches, Reply
  <2> HIDE DEF r
  <2> QED
    BY <2>1, <2>2, <2>3, OneReplyKeepsLog
<1>4. ASSUME NEW c \in Clients, Reject(c) PROVE LogInv'
  <2>1. got' = got /\ script' = script /\ phase' = phase /\ logged' = logged
    BY <1>4 DEF Reject
  <2>2. out' = [out EXCEPT ![c] = Written(c, Reply(0, "error"))]
    BY <1>4 DEF Reject
  <2>3. Vouches(Reply(0, "error"), c, script[c], logged')
    BY DEF Vouches, Reply
  <2> QED
    BY <2>1, <2>2, <2>3, OneReplyKeepsLog
<1>5. ASSUME NEW c \in Clients, Deliver(c) PROVE LogInv'
  <2>1. script' = script /\ logged' = logged /\ (LogOpen' <=> LogOpen) /\ out[c] # <<>>
    BY <1>5 DEF Deliver, LogOpen
  <2>2. DOMAIN got' = Clients /\ DOMAIN out' = Clients
    BY <1>5 DEF Deliver, LogInv
  <2>3. ASSUME LogOpen, NEW d \in Clients
        PROVE  AllVouch(got'[d], d, script[d], logged) /\ AllVouch(out'[d], d, script[d], logged)
    <3>1. AllVouch(got[d], d, script[d], logged) /\ AllVouch(out[d], d, script[d], logged)
      BY <2>3 DEF LogInv
    <3>2. CASE d = c
      <4>1. got'[d] = Append(got[d], Head(out[d])) /\ out'[d] = Tail(out[d])
        BY <1>5, <3>2 DEF Deliver, LogInv
      <4> QED
        BY <2>1, <3>1, <3>2, <4>1, HeadTailVouch, AppendVouches
    <3>3. CASE d # c
      BY <1>5, <3>1, <3>3 DEF Deliver, LogInv
    <3> QED
      BY <3>2, <3>3
  <2> QED
    BY <2>1, <2>2, <2>3 DEF LogInv
<1>6. ASSUME NEW c \in Clients, Lose(c) PROVE LogInv'
  <2>1. got' = got /\ script' = script /\ logged' = logged /\ (LogOpen' <=> LogOpen)
    BY <1>6 DEF Lose, LogOpen
  <2>2. DOMAIN out' = Clients /\ \A d \in Clients : out'[d] = <<>> \/ out'[d] = out[d]
    BY <1>6 DEF Lose, LogInv
  <2> QED
    BY <2>1, <2>2, NoneVouch DEF LogInv
<1>7. ASSUME NEW c \in Clients,
             \/ Arrive(c) \/ SendEof(c) \/ LeaveReading(c) \/ EndOfChunk(c) \/ FlushDone(c)
             \/ FlushFails(c) \/ Resume(c) \/ LeaveFailing(c) \/ Closed(c)
      PROVE  LogInv'
  <2>1. UNCHANGED <<got, out, script, logged, phase>>
    BY <1>7 DEF Arrive, SendEof, LeaveReading, EndOfChunk, FlushDone, FlushFails, Resume, LeaveFailing, Closed
  <2> QED
    BY <2>1, NoReplyKeepsLog DEF LogOpen
<1>8. CASE Stop \/ CloseLog \/ StopAgain \/ Cancel \/ Ended \/ UNCHANGED vars
  <2>1. UNCHANGED <<got, out, script, logged>>
    BY <1>8 DEF Stop, CloseLog, StopAgain, Cancel, Ended, vars, clientVars
  <2>2. LogOpen' => LogOpen
    BY <1>8 DEF Stop, CloseLog, StopAgain, Cancel, Ended, vars, LogOpen
  <2> QED
    BY <2>1, <2>2, NoReplyKeepsLog
<1> QED
  BY <1>1, <1>2, <1>3, <1>4, <1>5, <1>6, <1>7, <1>8 DEF Next, Task, Environment

\* As long as the log is open, a write that was acknowledged is in it, whether
\* its reply has reached the client or not, whatever the disk refused and
\* whichever connections were lost.
THEOREM AcknowledgedIsLogged == Spec => []AckedIsLoggedUntilClosed
<1>1. LogInv => AckedIsLoggedUntilClosed
  <2> SUFFICES ASSUME LogInv, LogOpen, NEW c \in Clients, NEW r \in Acked(c), script[c][r].kind = "write"
               PROVE  <<c, r>> \in logged
    BY DEF AckedIsLoggedUntilClosed, AckedIsLogged
  <2>1. PICK i \in DOMAIN (got[c] \o out[c]) :
           LET reply == (got[c] \o out[c])[i] IN reply[1] = r /\ reply[1] # 0 /\ reply[2] = "ok"
    BY DEF Acked, Answered, Replies
  <2>2. Vouches((got[c] \o out[c])[i], c, script[c], logged)
    BY ConcatVouches DEF LogInv
  <2> QED
    BY <2>1, <2>2 DEF Vouches
<1> QED
  BY <1>1, LogInit, LogStep, PTL DEF Spec

-----------------------------------------------------------------------------
(***************************************************************************)
(* The size of what waits in a transport.  OutSize is a fold over the      *)
(* replies; as a sum over their positions it can be split and shifted.     *)
(***************************************************************************)
SizeOf(requests, reply) == IF reply[2] = "error" THEN 1 ELSE requests[reply[1]].reply
Total(requests, s) == FoldLeft(LAMBDA n, reply : n + SizeOf(requests, reply), 0, s)
Sizes(requests, s) == [i \in DOMAIN s |-> SizeOf(requests, s[i])]

HasSizes(requests, s) ==
    /\ s \in Seq(Nat \X {"ok", "error"})
    /\ \A i \in DOMAIN s : SizeOf(requests, s[i]) \in Nat

LEMMA OutSizeIsTotal ==
    ASSUME NEW c, NEW s
    PROVE  OutSize(c, s) = Total(script[c], s)
BY DEF OutSize, Total, ReplySize, SizeOf

LEMMA MaxIsIn ==
    ASSUME NEW n \in Nat, NEW t \in SUBSET (1..n), t # {}
    PROVE  Max(t) \in t
<1> DEFINE Gaps == {k \in Nat : n - k \in t}
<1>1. Gaps \subseteq Nat /\ Gaps # {}
  <2>1. PICK x \in t : TRUE
    OBVIOUS
  <2>2. n - x \in Nat /\ n - (n - x) = x
    OBVIOUS
  <2>3. n - x \in Gaps
    BY <2>2
  <2> QED
    BY <2>3
<1>2. PICK k \in Gaps : \A m \in Gaps : k <= m
  <2> HIDE DEF Gaps
  <2> QED
    BY <1>1, SmallestNat
<1>3. n - k \in t /\ k \in Nat
  OBVIOUS
<1>4. ASSUME NEW y \in t PROVE n - k >= y
  <2>1. n - y \in Nat /\ n - (n - y) = y
    OBVIOUS
  <2>2. n - y \in Gaps
    BY <2>1
  <2>3. k <= n - y
    BY <1>2, <2>2
  <2> QED
    BY <1>3, <2>1, <2>3
<1> QED
  BY <1>3, <1>4 DEF Max

\* the equation that defines the fold
Unrolls(g, requests, s) ==
    g = [t \in SUBSET DOMAIN s |->
            IF t = {} THEN 0 ELSE g[t \ {Max(t)}] + SizeOf(requests, s[Max(t)])]

LEMMA TotalUnrolls ==
    ASSUME NEW requests, NEW s
    PROVE  Total(requests, s) = (CHOOSE g : Unrolls(g, requests, s))[DOMAIN s]
BY DEF Total, FoldLeft, MapThenFoldSet, Unrolls

LEMMA UnrollsOnce ==
    ASSUME NEW requests, NEW s, HasSizes(requests, s),
           NEW g, NEW h, Unrolls(g, requests, s), Unrolls(h, requests, s)
    PROVE  g[DOMAIN s] = h[DOMAIN s]
<1> DEFINE D == DOMAIN s
           Bad == {t \in SUBSET D : g[t] # h[t]}
<1>0. D = 1..Len(s) /\ Len(s) \in Nat /\ IsFiniteSet(D)
  BY LenProperties, FS_Interval DEF HasSizes
<1>1. SUFFICES ASSUME Bad # {} PROVE FALSE
  OBVIOUS
<1>2. PICK t \in Bad : \A u \in Bad : u \subseteq t => u = t
  <2>1. Bad \subseteq SUBSET D /\ Bad # {} /\ IsFiniteSet(D)
    BY <1>0, <1>1
  <2> HIDE DEF Bad, D
  <2> QED
    BY <2>1, SmallestSet
<1>3. ASSUME NEW k, Unrolls(k, requests, s)
      PROVE  k[t] = IF t = {} THEN 0 ELSE k[t \ {Max(t)}] + SizeOf(requests, s[Max(t)])
  BY <1>3 DEF Unrolls
<1>4. CASE t = {}
  BY <1>3, <1>4
<1>5. CASE t # {}
  <2>1. Max(t) \in t
    BY <1>0, <1>5, MaxIsIn
  <2> DEFINE x == Max(t)
  <2> HIDE DEF x
  <2>2. x \in t
    BY <2>1 DEF x
  <2>3. t \ {x} \subseteq t /\ t \ {x} # t /\ t \ {x} \in SUBSET D
    BY <2>2
  <2>4. g[t \ {x}] = h[t \ {x}]
    BY <1>2, <2>3
  <2>5. g[t] = g[t \ {x}] + SizeOf(requests, s[x]) /\ h[t] = h[t \ {x}] + SizeOf(requests, s[x])
    BY <1>3, <1>5 DEF x
  <2> QED
    BY <2>4, <2>5
<1> QED
  BY <1>4, <1>5

LEMMA TotalIsSum ==
    ASSUME NEW requests, NEW s, HasSizes(requests, s)
    PROVE  Total(requests, s) = SumFunctionOnSet(Sizes(requests, s), DOMAIN s)
<1> DEFINE D == DOMAIN s
           f == Sizes(requests, s)
           g == [t \in SUBSET D |-> SumFunctionOnSet(f, t)]
           h == CHOOSE k : Unrolls(k, requests, s)
<1>0. D = 1..Len(s) /\ Len(s) \in Nat /\ IsFiniteSet(D)
  BY LenProperties, FS_Interval DEF HasSizes
<1>1. \A i \in D : f[i] = SizeOf(requests, s[i]) /\ f[i] \in Nat
  BY DEF HasSizes, Sizes
<1>2. ASSUME NEW t \in SUBSET D, t # {}
      PROVE  g[t] = g[t \ {Max(t)}] + SizeOf(requests, s[Max(t)])
  <2>1. Max(t) \in t
    BY <1>0, <1>2, MaxIsIn
  <2> DEFINE x == Max(t)
  <2>2. x \in t /\ x \in D /\ t \ {x} \in SUBSET D
    BY <2>1
  <2>3. IsFiniteSet(t) /\ AreNats(f, t)
    BY <1>0, <1>1, FS_Subset DEF AreNats
  <2> HIDE DEF x, f
  <2>4. SumFunctionOnSet(f, t \ {x}) \in Nat /\ SumFunctionOnSet(f, t) = f[x] + SumFunctionOnSet(f, t \ {x})
    BY <2>2, <2>3, SumTake
  <2>5. g[t] = g[t \ {x}] + f[x]
    BY <1>1, <2>2, <2>4
  <2>6. g[t] = g[t \ {x}] + SizeOf(requests, s[x])
    BY <1>1, <2>2, <2>5
  <2> QED
    BY <2>6 DEF x
<1>3. g[{}] = 0
  BY SumOfNone
<1>4. g = [t \in SUBSET D |-> g[t]]
  OBVIOUS
<1> HIDE DEF g
<1>5. Unrolls(g, requests, s)
  BY <1>2, <1>3, <1>4 DEF Unrolls
<1>6. Unrolls(h, requests, s)
  BY <1>5
<1>7. g[D] = h[D]
  BY <1>5, <1>6, UnrollsOnce
<1>8. g[D] = SumFunctionOnSet(f, D)
  BY DEF g
<1> QED
  BY <1>7, <1>8, TotalUnrolls

LEMMA SizesAreNats ==
    ASSUME NEW requests, NEW s, HasSizes(requests, s)
    PROVE  /\ Len(s) \in Nat /\ DOMAIN s = 1..Len(s) /\ IsFiniteSet(1..Len(s))
           /\ AreNats(Sizes(requests, s), 1..Len(s))
           /\ \A i \in 1..Len(s) : Sizes(requests, s)[i] = SizeOf(requests, s[i])
           /\ Total(requests, s) = SumFunctionOnSet(Sizes(requests, s), 1..Len(s))
<1>1. Len(s) \in Nat /\ DOMAIN s = 1..Len(s)
  BY LenProperties DEF HasSizes
<1>2. IsFiniteSet(1..Len(s))
  BY <1>1, FS_Interval
<1>3. \A i \in 1..Len(s) : Sizes(requests, s)[i] = SizeOf(requests, s[i])
  BY <1>1 DEF Sizes
<1>4. AreNats(Sizes(requests, s), 1..Len(s))
  BY <1>1, <1>3 DEF AreNats, HasSizes
<1>5. Total(requests, s) = SumFunctionOnSet(Sizes(requests, s), 1..Len(s))
  BY <1>1, TotalIsSum
<1> QED
  BY <1>1, <1>2, <1>3, <1>4, <1>5

LEMMA TotalType ==
    ASSUME NEW requests, NEW s, HasSizes(requests, s)
    PROVE  Total(requests, s) \in Nat
BY SizesAreNats, SumType

LEMMA NoSizes ==
    ASSUME NEW requests
    PROVE  HasSizes(requests, <<>>) /\ Total(requests, <<>>) = 0
<1>1. HasSizes(requests, <<>>)
  BY DEF HasSizes
<1>2. DOMAIN <<>> = {}
  OBVIOUS
<1> QED
  BY <1>1, <1>2, TotalIsSum, SumOfNone

\* One more reply adds its size.
LEMMA TotalAppend ==
    ASSUME NEW requests, NEW s, HasSizes(requests, s),
           NEW e \in Nat \X {"ok", "error"}, SizeOf(requests, e) \in Nat
    PROVE  /\ HasSizes(requests, Append(s, e))
           /\ Total(requests, Append(s, e)) = Total(requests, s) + SizeOf(requests, e)
<1> DEFINE R == Nat \X {"ok", "error"}
           t == Append(s, e)
           n == Len(s)
           f == Sizes(requests, s)
           g == Sizes(requests, t)
<1>1. s \in Seq(R) /\ n \in Nat /\ DOMAIN s = 1..n
  BY SizesAreNats DEF HasSizes
<1>2. t \in Seq(R) /\ Len(t) = n + 1 /\ DOMAIN t = 1..(n + 1) /\ t[n + 1] = e /\ \A i \in 1..n : t[i] = s[i]
  <2> HIDE DEF R
  <2>1. e \in R
    BY DEF R
  <2> QED
    BY <1>1, <2>1, AppendProperties, LenProperties
<1>3. HasSizes(requests, t)
  <2>1. \A i \in DOMAIN s : SizeOf(requests, s[i]) \in Nat
    BY DEF HasSizes
  <2>2. ASSUME NEW i \in DOMAIN t PROVE SizeOf(requests, t[i]) \in Nat
    BY <1>1, <1>2, <2>1
  <2> HIDE DEF t
  <2> QED
    BY <1>2, <2>2 DEF HasSizes
<1> HIDE DEF R, t
<1>4. /\ IsFiniteSet(1..(n + 1)) /\ AreNats(g, 1..(n + 1)) /\ g[n + 1] = SizeOf(requests, e)
      /\ Total(requests, t) = SumFunctionOnSet(g, 1..(n + 1))
  BY <1>1, <1>2, <1>3, SizesAreNats
<1>5. /\ IsFiniteSet(1..n) /\ AreNats(f, 1..n) /\ \A i \in 1..n : f[i] = g[i]
      /\ Total(requests, s) = SumFunctionOnSet(f, 1..n)
  <2>1. \A i \in 1..n : f[i] = SizeOf(requests, s[i])
    BY SizesAreNats
  <2>2. \A i \in 1..n : g[i] = SizeOf(requests, t[i])
    BY <1>1, <1>2, <1>3, SizesAreNats
  <2>3. \A i \in 1..n : f[i] = g[i]
    BY <1>2, <2>1, <2>2
  <2> QED
    BY <2>3, SizesAreNats
<1> HIDE DEF f, g, n
<1>6. SumFunctionOnSet(f, 1..n) = SumFunctionOnSet(g, 1..n)
  BY <1>5, SumSame
<1>7. n + 1 \in 1..(n + 1) /\ (1..(n + 1)) \ {n + 1} = 1..n
  BY <1>1
<1>8. SumFunctionOnSet(g, 1..(n + 1)) = g[n + 1] + SumFunctionOnSet(g, (1..(n + 1)) \ {n + 1})
  BY <1>4, <1>7, SumTake
<1>9. Total(requests, s) \in Nat
  BY TotalType
<1>10. Total(requests, t) = Total(requests, s) + SizeOf(requests, e)
  <2>1. Total(requests, t) = SizeOf(requests, e) + Total(requests, s)
    BY <1>4, <1>5, <1>6, <1>7, <1>8, Zenon
  <2>2. SizeOf(requests, e) \in Nat
    OBVIOUS
  <2> QED
    BY <1>9, <2>1, <2>2
<1> QED
  BY <1>3, <1>10 DEF t

\* What is sent leaves.
LEMMA TotalTail ==
    ASSUME NEW requests, NEW s, HasSizes(requests, s), s # <<>>
    PROVE  /\ HasSizes(requests, Tail(s))
           /\ Total(requests, Tail(s)) <= Total(requests, s)
<1> DEFINE R == Nat \X {"ok", "error"}
           t == Tail(s)
           n == Len(s) - 1
           f == Sizes(requests, s)
           g == Sizes(requests, t)
<1>1. s \in Seq(R) /\ n \in Nat /\ DOMAIN s = 1..(n + 1) /\ Len(s) = n + 1
  <2>1. s \in Seq(R)
    BY DEF HasSizes
  <2> HIDE DEF R
  <2>2. Len(s) \in Nat \ {0} /\ DOMAIN s = 1..Len(s)
    BY <2>1, EmptySeq, LenProperties
  <2> QED
    BY <2>1, <2>2
<1>2. t \in Seq(R) /\ Len(t) = n /\ DOMAIN t = 1..n /\ \A i \in 1..n : t[i] = s[i + 1]
  <2> HIDE DEF R
  <2> QED
    BY <1>1, HeadTailProperties, LenProperties
<1>3. HasSizes(requests, t)
  <2>1. \A i \in DOMAIN s : SizeOf(requests, s[i]) \in Nat
    BY DEF HasSizes
  <2>2. ASSUME NEW i \in DOMAIN t PROVE SizeOf(requests, t[i]) \in Nat
    <3>1. i + 1 \in DOMAIN s /\ t[i] = s[i + 1]
      BY <1>1, <1>2
    <3> QED
      BY <2>1, <3>1
  <2> HIDE DEF t
  <2> QED
    BY <1>2, <2>2 DEF HasSizes
<1> HIDE DEF R, t
<1>4. /\ IsFiniteSet(1..(n + 1)) /\ AreNats(f, 1..(n + 1))
      /\ \A i \in 1..(n + 1) : f[i] = SizeOf(requests, s[i])
      /\ Total(requests, s) = SumFunctionOnSet(f, 1..(n + 1))
  BY <1>1, SizesAreNats
<1>5. /\ \A i \in 1..n : g[i] = SizeOf(requests, t[i])
      /\ Total(requests, t) = SumFunctionOnSet(g, 1..n)
  BY <1>1, <1>2, <1>3, SizesAreNats
<1>6. \A i \in 1..n : g[i] = f[i + 1]
  BY <1>1, <1>2, <1>4, <1>5
<1> HIDE DEF f, g, n
<1>7. AreNats(f, 2..(n + 1))
  BY <1>1, <1>4 DEF AreNats
<1>8. SumFunctionOnSet(g, 1..n) = SumFunctionOnSet(f, 2..(n + 1))
  BY <1>1, <1>6, <1>7, SumShift
<1>9. 1 \in 1..(n + 1) /\ (1..(n + 1)) \ {1} = 2..(n + 1)
  BY <1>1
<1>10. /\ SumFunctionOnSet(f, 1..(n + 1)) = f[1] + SumFunctionOnSet(f, (1..(n + 1)) \ {1})
       /\ SumFunctionOnSet(f, (1..(n + 1)) \ {1}) \in Nat
  BY <1>4, <1>9, SumTake
<1>11. f[1] \in Nat
  BY <1>4, <1>9 DEF AreNats
<1>12. Total(requests, t) <= Total(requests, s)
  <2>1. Total(requests, s) = f[1] + Total(requests, t) /\ Total(requests, t) \in Nat
    BY <1>4, <1>5, <1>8, <1>9, <1>10, Zenon
  <2> QED
    BY <1>11, <2>1
<1> QED
  BY <1>3, <1>12 DEF t

\* all replies but the last are within the limit
HeadsFit(requests, s, limit) == \A i \in DOMAIN s : Total(requests, SubSeq(s, 1, i - 1)) <= limit

LEMMA NoHeads ==
    ASSUME NEW requests, NEW limit
    PROVE  HeadsFit(requests, <<>>, limit)
BY DEF HeadsFit

LEMMA HeadsFitAppend ==
    ASSUME NEW requests, NEW limit, NEW s, HasSizes(requests, s),
           NEW e \in Nat \X {"ok", "error"},
           HeadsFit(requests, s, limit), Total(requests, s) <= limit
    PROVE  HeadsFit(requests, Append(s, e), limit)
<1> DEFINE R == Nat \X {"ok", "error"}
           n == Len(s)
<1>1. s \in Seq(R) /\ n \in Nat /\ DOMAIN s = 1..n /\ e \in R
  BY SizesAreNats DEF HasSizes
<1> HIDE DEF R
<1>2. DOMAIN Append(s, e) = 1..(n + 1)
  BY <1>1, AppendProperties, LenProperties
<1>3. ASSUME NEW i \in 1..n PROVE Total(requests, SubSeq(s, 1, i - 1)) <= limit
  BY <1>1 DEF HeadsFit
<1>4. <<e>> \in Seq(R) /\ Append(s, e) = s \o <<e>>
  BY <1>1, AppendIsConcat
<1>5. ASSUME NEW i \in 1..(n + 1) PROVE Total(requests, SubSeq(Append(s, e), 1, i - 1)) <= limit
  <2>1. CASE i = 1
    <3>1. SubSeq(Append(s, e), 1, i - 1) = <<>> /\ SubSeq(s, 1, i - 1) = <<>>
      BY <2>1, SubSeqEmpty
    <3>2. CASE n = 0
      <4>1. s = <<>>
        BY <1>1, <3>2, EmptySeq
      <4> QED
        BY <3>1, <4>1
    <3>3. CASE n # 0
      <4>1. i \in 1..n
        BY <1>1, <2>1, <3>3
      <4> QED
        BY <1>3, <3>1, <4>1, Zenon
    <3> QED
      BY <3>2, <3>3
  <2>2. CASE i # 1
    <3>1. i - 1 \in 1..n /\ 1 \in 1..n
      BY <1>1, <2>2
    <3>2. SubSeq(Append(s, e), 1, i - 1) = SubSeq(s, 1, i - 1)
      BY <1>1, <1>4, <3>1, SubSeqOfConcat1
    <3>3. CASE i <= n
      <4>1. i \in 1..n
        BY <1>1, <3>3
      <4> QED
        BY <1>3, <3>2, <4>1, Zenon
    <3>4. CASE i = n + 1
      <4>1. SubSeq(s, 1, n) = s /\ i - 1 = n
        BY <1>1, <3>4, SubSeqFull
      <4> QED
        BY <3>2, <4>1
    <3> QED
      BY <1>1, <3>3, <3>4
  <2> QED
    BY <2>1, <2>2
<1> QED
  BY <1>2, <1>5 DEF HeadsFit

LEMMA HeadsFitTail ==
    ASSUME NEW requests, NEW limit \in Int, NEW s, HasSizes(requests, s), s # <<>>, HeadsFit(requests, s, limit)
    PROVE  HeadsFit(requests, Tail(s), limit)
<1> DEFINE R == Nat \X {"ok", "error"}
           t == Tail(s)
           n == Len(s) - 1
<1>1. s \in Seq(R) /\ n \in Nat /\ DOMAIN s = 1..(n + 1) /\ Len(s) = n + 1
  <2>1. s \in Seq(R)
    BY DEF HasSizes
  <2> HIDE DEF R
  <2>2. Len(s) \in Nat \ {0} /\ DOMAIN s = 1..Len(s)
    BY <2>1, EmptySeq, LenProperties
  <2> QED
    BY <2>1, <2>2
<1> HIDE DEF R
<1>2. DOMAIN t = 1..n /\ t = SubSeq(s, 2, n + 1)
  BY <1>1, HeadTailProperties, LenProperties, TailIsSubSeq
<1> HIDE DEF t, n
<1>3. ASSUME NEW i \in 1..n PROVE Total(requests, SubSeq(t, 1, i - 1)) <= limit
  <2>1. CASE i = 1
    <3>1. SubSeq(t, 1, i - 1) = <<>> /\ SubSeq(s, 1, 1 - 1) = <<>>
      BY <2>1, SubSeqEmpty
    <3>2. 1 \in DOMAIN s
      BY <1>1
    <3> QED
      BY <3>1, <3>2 DEF HeadsFit
  <2>2. CASE i # 1
    <3> DEFINE j == i - 1
    <3>1. j \in 1..n /\ 1 \in 1..n /\ n + 1 - 2 + 1 = n /\ 2 \in 1..Len(s) /\ n + 1 \in 1..Len(s) /\ i \in 1..Len(s)
      BY <1>1, <2>2
    <3>2. SubSeq(t, 1, j) = SubSeq(s, 2 + 1 - 1, 2 + j - 1)
      BY <1>1, <1>2, <3>1, SubSeqOfSubSeq
    <3>3. 2 + 1 - 1 = 2 /\ 2 + j - 1 = i /\ 1 + 1 = 2 /\ i \in 1..Len(s) /\ 1 \in 1..Len(s) /\ i \in 2..Len(s)
      BY <1>1, <2>2
    <3>4. SubSeq(t, 1, j) = Tail(SubSeq(s, 1, i))
      BY <1>1, <3>2, <3>3, HeadTailOfSubSeq
    <3> DEFINE u == SubSeq(s, 1, i)
    <3>5. HasSizes(requests, u) /\ u # <<>>
      <4>1. \A k \in 1..i : s[k] \in R /\ k \in DOMAIN s
        BY <1>1, <3>3, ElementOfSeq
      <4>2. u \in Seq(R) /\ Len(u) = i /\ \A k \in 1..i : u[k] = s[k]
        BY <4>1, SubSeqProperties
      <4>3. DOMAIN u = 1..i
        BY <4>2, LenProperties
      <4>4. u # <<>>
        BY <3>3, <4>2
      <4> HIDE DEF u
      <4> QED
        BY <4>1, <4>2, <4>3, <4>4 DEF HasSizes, R
    <3>6. Total(requests, Tail(u)) <= Total(requests, u)
      BY <3>5, TotalTail
    <3>7. Total(requests, u) <= limit
      <4>1. i + 1 \in DOMAIN s /\ (i + 1) - 1 = i
        BY <1>1
      <4> QED
        BY <4>1 DEF HeadsFit
    <3>8. Total(requests, u) \in Nat /\ Total(requests, Tail(u)) \in Nat
      BY <3>5, TotalTail, TotalType
    <3>9. Total(requests, Tail(u)) <= limit
      <4> HIDE DEF u
      <4> QED
        BY <3>6, <3>7, <3>8
    <3> QED
      BY <3>4, <3>9, Zenon
  <2> QED
    BY <2>1, <2>2
<1>4. \A i \in DOMAIN t : Total(requests, SubSeq(t, 1, i - 1)) <= limit
  BY <1>2, <1>3
<1> QED
  BY <1>4, Zenon DEF HeadsFit, t

-----------------------------------------------------------------------------
(***************************************************************************)
(* The input.  What a client sends, in the order it is parsed, is a        *)
(* sequence of pieces each of which determines the next one, so that       *)
(* nothing need be said of where chunks begin and end.                     *)
(***************************************************************************)
Pieces == Nat \X Nat

Follows(requests, p, q) ==
    IF p[2] < requests[p[1]].pieces THEN q = <<p[1], p[2] + 1>> ELSE q = <<p[1] + 1, 1>>

\* pieces of requests, from the first piece of the one after n
InOrder(requests, w, n) ==
    /\ w \in Seq(Nat \X Nat)
    /\ \A i \in 1..Len(w) : w[i][1] \in DOMAIN requests /\ w[i][2] \in 1..requests[w[i][1]].pieces
    /\ \A i \in 1..(Len(w) - 1) : Follows(requests, w[i], w[i + 1])
    /\ w # <<>> => w[1] = <<n + 1, 1>>

LEMMA NoInput ==
    ASSUME NEW requests, NEW n
    PROVE  InOrder(requests, <<>>, n)
BY DEF InOrder

\* What was cut off is not missed.
LEMMA CutInput ==
    ASSUME NEW requests, NEW n, NEW v \in Seq(Nat \X Nat), NEW u \in Seq(Nat \X Nat),
           InOrder(requests, v \o u, n)
    PROVE  InOrder(requests, v, n)
<1> DEFINE P == Nat \X Nat
           w == v \o u
<1>1. /\ Len(v) \in Nat /\ Len(u) \in Nat /\ Len(w) = Len(v) + Len(u)
      /\ \A i \in 1..Len(v) : w[i] = v[i]
  <2>1. v \in Seq(P) /\ u \in Seq(P)
    OBVIOUS
  <2> HIDE DEF P
  <2> QED
    BY <2>1, ConcatProperties, LenProperties
<1>2. \A i \in 1..Len(v) : v[i][1] \in DOMAIN requests /\ v[i][2] \in 1..requests[v[i][1]].pieces
  <2>1. \A i \in 1..Len(w) : w[i][1] \in DOMAIN requests /\ w[i][2] \in 1..requests[w[i][1]].pieces
    BY DEF InOrder
  <2> HIDE DEF w
  <2> QED
    BY <1>1, <2>1
<1>3. \A i \in 1..(Len(v) - 1) : Follows(requests, v[i], v[i + 1])
  <2>1. \A i \in 1..(Len(w) - 1) : Follows(requests, w[i], w[i + 1])
    BY DEF InOrder
  <2> HIDE DEF w
  <2>2. ASSUME NEW i \in 1..(Len(v) - 1) PROVE Follows(requests, v[i], v[i + 1])
    <3>1. i \in 1..Len(v) /\ i + 1 \in 1..Len(v) /\ i \in 1..(Len(w) - 1)
      BY <1>1
    <3>2. w[i] = v[i] /\ w[i + 1] = v[i + 1]
      BY <1>1, <3>1
    <3> QED
      BY <2>1, <3>1, <3>2
  <2> QED
    BY <2>2
<1>4. ASSUME v # <<>> PROVE v[1] = <<n + 1, 1>>
  <2>1. Len(v) # 0
    BY <1>4, EmptySeq
  <2>2. 1 \in 1..Len(v) /\ Len(w) # 0
    BY <1>1, <2>1
  <2>3. w # <<>>
    <3> HIDE DEF w
    <3> QED
      BY <2>2, EmptySeq
  <2>4. w[1] = <<n + 1, 1>>
    BY <2>3 DEF InOrder
  <2> QED
    BY <1>1, <2>2, <2>4
<1> QED
  BY <1>2, <1>3, <1>4 DEF InOrder

\* Dropping pieces leaves pieces in order, from the first of the next request
\* if what is dropped ends with the last of one.
LEMMA DropInput ==
    ASSUME NEW requests, NEW n \in Nat, NEW l \in Nat, NEW k \in 1..l, NEW m \in Nat, m = l - k,
           NEW w, Len(w) = l, InOrder(requests, w, n),
           \A q : Follows(requests, w[k], q) => q = <<(n + 1) + 1, 1>>
    PROVE  InOrder(requests, SubSeq(w, k + 1, l), n + 1)
<1> DEFINE P == Nat \X Nat
           v == SubSeq(w, k + 1, l)
<1>1. w \in Seq(P)
  BY DEF InOrder
<1>2. /\ v \in Seq(P)
      /\ Len(v) = m
      /\ \A i \in 1..m : v[i] = w[k + i]
  <2> HIDE DEF P
  <2>1. \A i \in (k + 1)..l : w[i] \in P
    BY <1>1, ElementOfSeq
  <2>2. k + 1 \in Int /\ l \in Int
    OBVIOUS
  <2>3. /\ v \in Seq(P)
        /\ Len(v) = IF k + 1 <= l THEN l - (k + 1) + 1 ELSE 0
        /\ \A i \in 1..(l - (k + 1) + 1) : v[i] = w[(k + 1) + i - 1]
    BY <2>1, <2>2, SubSeqProperties
  <2> HIDE DEF v
  <2>4. \A i \in 1..m : (k + 1) + i - 1 = k + i /\ i \in 1..(l - (k + 1) + 1)
    OBVIOUS
  <2>5. m = IF k + 1 <= l THEN l - (k + 1) + 1 ELSE 0
    OBVIOUS
  <2> QED
    BY <2>3, <2>4, <2>5
<1> HIDE DEF v
<1>3. ASSUME NEW i \in 1..m
      PROVE  v[i][1] \in DOMAIN requests /\ v[i][2] \in 1..requests[v[i][1]].pieces
  <2>1. k + i \in 1..l
    OBVIOUS
  <2>2. w[k + i][1] \in DOMAIN requests /\ w[k + i][2] \in 1..requests[w[k + i][1]].pieces
    BY <2>1 DEF InOrder
  <2> QED
    BY <1>2, <2>2
<1>4. ASSUME NEW i \in 1..(m - 1)
      PROVE  Follows(requests, v[i], v[i + 1])
  <2>1. i \in 1..m /\ i + 1 \in 1..m /\ k + i \in 1..(l - 1) /\ k + (i + 1) = (k + i) + 1
    OBVIOUS
  <2>2. Follows(requests, w[k + i], w[(k + i) + 1])
    BY <2>1 DEF InOrder
  <2> QED
    BY <1>2, <2>1, <2>2
<1>5. ASSUME v # <<>> PROVE v[1] = <<(n + 1) + 1, 1>>
  <2>1. m # 0
    BY <1>2, <1>5, EmptySeq
  <2>2. 1 \in 1..m /\ k \in 1..(l - 1)
    BY <2>1
  <2>3. Follows(requests, w[k], w[k + 1])
    BY <2>2 DEF InOrder
  <2> QED
    BY <1>2, <2>2, <2>3
<1>6. InOrder(requests, v, n + 1)
  BY <1>2, <1>3, <1>4, <1>5 DEF InOrder
<1> QED
  BY <1>6 DEF v

LEMMA InInterval ==
    ASSUME NEW k \in Nat \ {0}, NEW l \in Nat \ {0}, k <= l
    PROVE  k \in 1..l /\ l - k \in Nat
  OBVIOUS

\* A request that is complete is at the front with all its pieces, and the next
\* request follows it.
LEMMA NextInput ==
    ASSUME NEW requests \in Seq(Requests), NEW n \in Nat, NEW w, InOrder(requests, w, n), w # <<>>,
           NEW k, k = requests[n + 1].pieces, Len(w) >= k
    PROVE  /\ n + 1 \in DOMAIN requests /\ k \in Nat \ {0} /\ requests[n + 1] \in Requests
           /\ InOrder(requests, SubSeq(w, k + 1, Len(w)), n + 1)
<1> DEFINE P == Nat \X Nat
           l == Len(w)
<1>1. w \in Seq(P) /\ l \in Nat \ {0} /\ w[1] = <<n + 1, 1>>
  <2>1. w \in Seq(P) /\ w[1] = <<n + 1, 1>>
    BY DEF InOrder
  <2> HIDE DEF P
  <2> QED
    BY <2>1, EmptySeq
<1>2. n + 1 \in DOMAIN requests
  BY <1>1 DEF InOrder
<1>3. requests[n + 1] \in Requests
  <2>1. DOMAIN requests = 1..Len(requests)
    BY LenProperties
  <2> QED
    BY <1>2, <2>1, ElementOfSeq
<1>4. k \in Nat \ {0} /\ k \in 1..l /\ l - k \in Nat
  <2>1. requests[n + 1].pieces \in Nat \ {0}
    BY <1>3 DEF Requests
  <2>2. k \in Nat \ {0} /\ k <= l
    BY <2>1
  <2> HIDE DEF l
  <2> QED
    BY <1>1, <2>2, InInterval
<1>5. w[k] = <<n + 1, k>>
  <2> DEFINE Bad == {i \in 1..k : w[i] # <<n + 1, i>>}
  <2>1. SUFFICES ASSUME Bad # {} PROVE FALSE
    BY <1>4
  <2>2. PICK i \in Bad : \A j \in Bad : i <= j
    <3>1. Bad \subseteq Nat
      OBVIOUS
    <3> HIDE DEF Bad
    <3> QED
      BY <2>1, <3>1, SmallestNat
  <2>3. i \in 1..k /\ i # 1
    BY <1>1
  <2> HIDE DEF l
  <2>4. i - 1 \in 1..k /\ i - 1 \in 1..(l - 1) /\ (i - 1) + 1 = i /\ ~(i <= i - 1) /\ i - 1 < k
    <3>1. i \in Nat /\ k \in Nat /\ l - k \in Nat /\ 1 < i /\ i <= k
      BY <1>4, <2>3
    <3>2. l \in Nat /\ k <= l
      BY <1>1, <1>4 DEF l
    <3> HIDE DEF Bad
    <3> QED
      BY <3>1, <3>2
  <2>5. i - 1 \notin Bad
    BY <2>2, <2>4
  <2>6. w[i - 1] = <<n + 1, i - 1>>
    BY <2>4, <2>5
  <2>7. Follows(requests, w[i - 1], w[(i - 1) + 1])
    BY <2>4 DEF InOrder, l
  <2>8. w[i - 1][1] = n + 1 /\ w[i - 1][2] = i - 1
    BY <2>6
  <2>9. w[i] = <<n + 1, i>>
    BY <2>4, <2>7, <2>8 DEF Follows
  <2> QED
    BY <2>9
<1>6. ASSUME NEW q, Follows(requests, w[k], q) PROVE q = <<(n + 1) + 1, 1>>
  <2>1. w[k][1] = n + 1 /\ w[k][2] = k /\ ~(k < k)
    BY <1>4, <1>5
  <2> QED
    BY <1>6, <2>1 DEF Follows
<1>7. InOrder(requests, SubSeq(w, k + 1, l), n + 1)
  BY <1>1, <1>4, <1>6, DropInput
<1> QED
  BY <1>2, <1>3, <1>4, <1>7

\* Where a chunk ends makes no difference.
\* What a client has sent or will send and is not parsed.
Rest(b, a, u) == (b \o a) \o u

LEMMA MoveOne ==
    ASSUME NEW b \in Seq(Pieces), NEW a \in Seq(Pieces), NEW u \in Seq(Pieces), u # <<>>
    PROVE  Rest(b, Append(a, Head(u)), Tail(u)) = Rest(b, a, u)
<1> DEFINE h == Head(u)
           t == Tail(u)
<1>1. h \in Pieces /\ t \in Seq(Pieces)
  BY HeadTailProperties
<1>2. u = <<h>> \o t
  <2>1. Len(u) \in Nat \ {0}
    BY EmptySeq
  <2>2. 1 \in 1..Len(u) /\ Len(u) \in 1..Len(u)
    BY <2>1
  <2>3. SubSeq(u, 1, Len(u)) = <<u[1]>> \o SubSeq(u, 1 + 1, Len(u))
    BY <2>2, SubSeqRecursiveFirst
  <2>4. SubSeq(u, 1, Len(u)) = u /\ t = SubSeq(u, 2, Len(u)) /\ h = u[1]
    BY SubSeqFull, TailIsSubSeq
  <2> QED
    BY <2>3, <2>4
<1>3. Append(a, h) = a \o <<h>> /\ <<h>> \in Seq(Pieces) /\ Append(a, h) \in Seq(Pieces)
  BY <1>1, AppendIsConcat, AppendProperties
<1> HIDE DEF h, t
<1>4. b \o a \in Seq(Pieces)
  BY ConcatProperties
<1>5. b \o (a \o <<h>>) = (b \o a) \o <<h>>
  BY <1>3, ConcatAssociative
<1>6. ((b \o a) \o <<h>>) \o t = (b \o a) \o (<<h>> \o t)
  BY <1>1, <1>3, <1>4, ConcatAssociative
<1>7. (b \o Append(a, h)) \o t = (b \o a) \o u
  BY <1>2, <1>3, <1>5, <1>6
<1>8. Rest(b, Append(a, h), t) = Rest(b, a, u)
  BY <1>7 DEF Rest
<1> QED
  BY <1>8 DEF h, t

LEMMA MoveSome ==
    ASSUME NEW b \in Seq(Pieces), NEW a \in Seq(Pieces), NEW u \in Seq(Pieces), NEW n \in 0..Len(a)
    PROVE  /\ SubSeq(a, 1, n) \in Seq(Pieces) /\ SubSeq(a, n + 1, Len(a)) \in Seq(Pieces)
           /\ b \o SubSeq(a, 1, n) \in Seq(Pieces)
           /\ Rest(b \o SubSeq(a, 1, n), SubSeq(a, n + 1, Len(a)), u) = Rest(b, a, u)
<1> DEFINE x == SubSeq(a, 1, n)
           y == SubSeq(a, n + 1, Len(a))
<1>1. Len(a) \in Nat
  BY LenProperties
<1>2. \A i \in 1..Len(a) : a[i] \in Pieces
  BY ElementOfSeq
<1>3. x \in Seq(Pieces)
  <2>1. \A i \in 1..n : a[i] \in Pieces
    BY <1>1, <1>2
  <2> QED
    BY <1>1, <2>1, SubSeqProperties
<1>4. y \in Seq(Pieces)
  <2>1. \A i \in (n + 1)..Len(a) : a[i] \in Pieces
    BY <1>1, <1>2
  <2> QED
    BY <1>1, <2>1, SubSeqProperties
<1>5. x \o y = a
  <2>1. 1 \in 1..(Len(a) + 1) /\ n \in (1 - 1)..Len(a) /\ Len(a) \in n..Len(a)
    BY <1>1
  <2>2. x \o y = SubSeq(a, 1, Len(a))
    BY <2>1, ConcatAdjacentSubSeq
  <2> QED
    BY <2>2, SubSeqFull
<1> HIDE DEF x, y
<1>6. (b \o x) \o y = b \o (x \o y)
  BY <1>3, <1>4, ConcatAssociative
<1>7. b \o x \in Seq(Pieces)
  BY <1>3, ConcatProperties
<1>8. Rest(b \o x, y, u) = Rest(b, a, u)
  BY <1>5, <1>6 DEF Rest
<1> QED
  BY <1>3, <1>4, <1>7, <1>8 DEF x, y

LEMMA DropFirst ==
    ASSUME NEW b \in Seq(Pieces), NEW a \in Seq(Pieces), NEW u \in Seq(Pieces), NEW k \in 0..Len(b)
    PROVE  Rest(SubSeq(b, k + 1, Len(b)), a, u) = SubSeq(Rest(b, a, u), k + 1, Len(Rest(b, a, u)))
<1> DEFINE t == a \o u
           w == (b \o a) \o u
           y == SubSeq(b, k + 1, Len(b))
           z == SubSeq(w, k + 1, Len(w))
           lb == Len(b)
           lt == Len(t)
<1>1. t \in Seq(Pieces) /\ w = b \o t /\ w \in Seq(Pieces) /\ Len(w) = lb + lt /\ lb \in Nat /\ lt \in Nat
  <2>1. t \in Seq(Pieces) /\ w = b \o t
    BY ConcatProperties, ConcatAssociative
  <2> HIDE DEF t, w
  <2> QED
    BY <2>1, ConcatProperties, LenProperties
<1>2. y \in Seq(Pieces) /\ Len(y) = lb - k /\ \A i \in 1..(lb - k) : y[i] = b[k + i]
  <2>1. \A i \in (k + 1)..lb : b[i] \in Pieces
    BY ElementOfSeq
  <2>2. /\ y \in Seq(Pieces)
        /\ Len(y) = IF k + 1 <= lb THEN lb - (k + 1) + 1 ELSE 0
        /\ \A i \in 1..(lb - (k + 1) + 1) : y[i] = b[(k + 1) + i - 1]
    BY <1>1, <2>1, SubSeqProperties
  <2> HIDE DEF lb, y
  <2>3. k \in 0..lb
    BY DEF lb
  <2> QED
    BY <1>1, <2>2, <2>3
<1>3. z \in Seq(Pieces) /\ Len(z) = lb + lt - k /\ \A i \in 1..(lb + lt - k) : z[i] = w[k + i]
  <2>1. \A i \in (k + 1)..Len(w) : w[i] \in Pieces
    <3> HIDE DEF w
    <3> QED
      BY <1>1, ElementOfSeq
  <2>2. /\ z \in Seq(Pieces)
        /\ Len(z) = IF k + 1 <= Len(w) THEN Len(w) - (k + 1) + 1 ELSE 0
        /\ \A i \in 1..(Len(w) - (k + 1) + 1) : z[i] = w[(k + 1) + i - 1]
    <3>1. k + 1 \in Int /\ Len(w) \in Int
      <4> HIDE DEF w
      <4> QED
        BY <1>1
    <3> HIDE DEF w
    <3> QED
      BY <2>1, <3>1, SubSeqProperties
  <2>3. k \in 0..lb
    OBVIOUS
  <2>4. Len(w) = lb + lt
    BY <1>1
  <2> HIDE DEF lb, lt, z, w
  <2>5. Len(z) = lb + lt - k
    BY <1>1, <2>2, <2>3, <2>4
  <2>6. \A i \in 1..(lb + lt - k) : i \in 1..(lb + lt - (k + 1) + 1) /\ (k + 1) + i - 1 = k + i
    BY <1>1, <2>3
  <2> QED
    BY <2>2, <2>4, <2>5, <2>6
<1>4. y \o t \in Seq(Pieces) /\ Len(y \o t) = lb + lt - k
      /\ \A i \in 1..(lb + lt - k) : (y \o t)[i] = IF i <= lb - k THEN y[i] ELSE t[i - (lb - k)]
  <2>1. k \in 0..lb
    OBVIOUS
  <2> HIDE DEF lb, lt, y, t
  <2>2. /\ y \o t \in Seq(Pieces)
        /\ Len(y \o t) = Len(y) + Len(t)
        /\ \A i \in 1..(Len(y) + Len(t)) : (y \o t)[i] = IF i <= Len(y) THEN y[i] ELSE t[i - Len(y)]
    BY <1>1, <1>2, ConcatProperties
  <2>3. Len(y) = lb - k /\ Len(t) = lt
    BY <1>2 DEF lt
  <2>4. Len(y) + Len(t) = lb + lt - k
    BY <1>1, <2>1, <2>3
  <2> QED
    BY <2>2, <2>3, <2>4
<1>5. \A i \in 1..(lb + lt) : w[i] = IF i <= lb THEN b[i] ELSE t[i - lb]
  <2> HIDE DEF t, w
  <2> QED
    BY <1>1, ConcatProperties
<1>6. ASSUME NEW i \in 1..(lb + lt - k) PROVE (y \o t)[i] = z[i]
  <2>1. k \in 0..lb
    OBVIOUS
  <2> HIDE DEF lb, lt, y, t, z, w
  <2>2. k + i \in 1..(lb + lt) /\ z[i] = w[k + i]
    BY <1>1, <1>3, <2>1
  <2>3. CASE i <= lb - k
    <3>1. k + i <= lb /\ i \in 1..(lb - k)
      BY <1>1, <2>1, <2>3
    <3> QED
      BY <1>2, <1>4, <1>5, <2>2, <2>3, <3>1
  <2>4. CASE ~(i <= lb - k)
    <3>1. ~(k + i <= lb) /\ (k + i) - lb = i - (lb - k)
      BY <1>1, <2>1, <2>4
    <3> QED
      BY <1>4, <1>5, <2>2, <2>4, <3>1
  <2> QED
    BY <2>3, <2>4
<1>7. y \o t = z
  <2> HIDE DEF lb, lt, y, t, z, w
  <2> QED
    BY <1>3, <1>4, <1>6, SeqEqual
<1>8. (y \o a) \o u = y \o t
  <2> HIDE DEF y
  <2> QED
    BY <1>2, ConcatAssociative
<1>9. Rest(y, a, u) = z /\ Rest(b, a, u) = w
  <2> HIDE DEF y, z
  <2> QED
    BY <1>7, <1>8 DEF Rest
<1> HIDE DEF y, w
<1>10. Rest(y, a, u) = SubSeq(Rest(b, a, u), k + 1, Len(Rest(b, a, u)))
  BY <1>9
<1> QED
  BY <1>10 DEF y

LEMMA FirstDropped ==
    ASSUME NEW b \in Seq(Pieces), NEW k \in 0..Len(b)
    PROVE  SubSeq(b, k + 1, Len(b)) \in Seq(Pieces) /\ Len(SubSeq(b, k + 1, Len(b))) = Len(b) - k
<1> DEFINE y == SubSeq(b, k + 1, Len(b))
           lb == Len(b)
<1>1. lb \in Nat /\ k \in 0..lb
  BY LenProperties
<1>2. \A i \in (k + 1)..lb : b[i] \in Pieces
  BY <1>1, ElementOfSeq
<1>3. y \in Seq(Pieces) /\ Len(y) = IF k + 1 <= lb THEN lb - (k + 1) + 1 ELSE 0
  BY <1>1, <1>2, SubSeqProperties
<1> HIDE DEF y, lb
<1>4. Len(y) = lb - k
  BY <1>1, <1>3
<1> QED
  BY <1>3, <1>4 DEF y, lb

\* What a client sends is in order from its first request: the pieces of the
\* requests are joined one request after the other.
PiecesOfOne(requests, r) == [i \in 1..requests[r].pieces |-> <<r, i>>]

EndsWith(requests, w, r) ==
    /\ InOrder(requests, w, 0)
    /\ w # <<>>
    /\ w[Len(w)] = <<r, requests[r].pieces>>

\* the equation that defines FlattenSeq
Joins(g, requests, n) ==
    g = [r \in 1..n |-> IF r = 1 THEN PiecesOfOne(requests, 1)
                                 ELSE g[r - 1] \o PiecesOfOne(requests, r)]

LEMMA OneInOrder ==
    ASSUME NEW requests \in Seq(Requests), NEW r \in 1..Len(requests), NEW q, q = PiecesOfOne(requests, r),
           NEW m, m = requests[r].pieces
    PROVE  /\ m \in Nat \ {0} /\ q \in Seq(Nat \X Nat) /\ Len(q) = m
           /\ \A i \in 1..m : q[i] = <<r, i>>
<1>1. Len(requests) \in Nat /\ requests[r] \in Requests
  BY ElementOfSeq, LenProperties
<1>2. m \in Nat \ {0} /\ r \in Nat
  BY <1>1 DEF Requests
<1>3. q = [i \in 1..m |-> <<r, i>>]
  BY DEF PiecesOfOne
<1>4. \A i \in 1..m : q[i] = <<r, i>> /\ q[i] \in Nat \X Nat
  BY <1>2, <1>3
<1>5. q \in [1..m -> Nat \X Nat]
  BY <1>2, <1>3
<1>6. q \in Seq(Nat \X Nat) /\ Len(q) = m
  <2> DEFINE P == Nat \X Nat
  <2>1. q \in [1..m -> P] /\ m \in Nat
    BY <1>2, <1>5
  <2> HIDE DEF P
  <2>2. q \in Seq(P)
    BY <2>1, SeqDef
  <2>3. DOMAIN q = 1..m /\ DOMAIN q = 1..Len(q) /\ Len(q) \in Nat
    BY <2>1, <2>2, LenProperties
  <2>4. Len(q) = m
    BY <2>1, <2>3
  <2> QED
    BY <2>2, <2>4 DEF P
<1> QED
  BY <1>2, <1>4, <1>6

LEMMA FirstJoin ==
    ASSUME NEW requests \in Seq(Requests), 1 \in 1..Len(requests)
    PROVE  EndsWith(requests, PiecesOfOne(requests, 1), 1)
<1> DEFINE q == PiecesOfOne(requests, 1)
           m == requests[1].pieces
<1>1. m \in Nat \ {0} /\ q \in Seq(Nat \X Nat) /\ Len(q) = m /\ \A i \in 1..m : q[i] = <<1, i>>
  BY OneInOrder
<1>2. 1 \in DOMAIN requests
  BY LenProperties
<1> HIDE DEF q, m
<1>3. \A i \in 1..m : q[i][1] \in DOMAIN requests /\ q[i][2] \in 1..requests[q[i][1]].pieces
  BY <1>1, <1>2 DEF m
<1>4. ASSUME NEW i \in 1..(m - 1) PROVE Follows(requests, q[i], q[i + 1])
  <2>1. i \in 1..m /\ i + 1 \in 1..m /\ i < m
    BY <1>1
  <2>2. q[i][1] = 1 /\ q[i][2] = i /\ q[i + 1] = <<1, i + 1>>
    BY <1>1, <2>1
  <2> QED
    BY <2>1, <2>2 DEF Follows, m
<1>5. 1 \in 1..m /\ m \in 1..m
  BY <1>1
<1>6. q # <<>>
  BY <1>1, EmptySeq
<1>7. InOrder(requests, q, 0)
  <2>1. q[1] = <<0 + 1, 1>>
    BY <1>1, <1>5
  <2> QED
    BY <1>1, <1>3, <1>4, <2>1 DEF InOrder
<1> QED
  BY <1>1, <1>5, <1>6, <1>7 DEF EndsWith, q, m

LEMMA NextJoin ==
    ASSUME NEW requests \in Seq(Requests), NEW r \in Nat \ {0}, r + 1 \in 1..Len(requests),
           NEW v, EndsWith(requests, v, r)
    PROVE  EndsWith(requests, v \o PiecesOfOne(requests, r + 1), r + 1)
<1> DEFINE P == Nat \X Nat
           q == PiecesOfOne(requests, r + 1)
           m == requests[r + 1].pieces
           w == v \o q
           lv == Len(v)
<1>1. m \in Nat \ {0} /\ q \in Seq(P) /\ Len(q) = m /\ \A i \in 1..m : q[i] = <<r + 1, i>>
  BY OneInOrder
<1>2. r + 1 \in DOMAIN requests
  BY LenProperties
<1>3. v \in Seq(P) /\ lv \in Nat \ {0}
  <2>1. v \in Seq(P) /\ v # <<>>
    BY DEF EndsWith, InOrder
  <2> HIDE DEF P
  <2> QED
    BY <2>1, EmptySeq
<1> HIDE DEF q, m
<1>4. /\ w \in Seq(P) /\ Len(w) = lv + m
      /\ \A i \in 1..(lv + m) : w[i] = IF i <= lv THEN v[i] ELSE q[i - lv]
  <2> HIDE DEF P
  <2> QED
    BY <1>1, <1>3, ConcatProperties
<1> HIDE DEF w, lv
<1>5. ASSUME NEW i \in 1..lv PROVE w[i] = v[i]
  BY <1>1, <1>3, <1>4
<1>6. ASSUME NEW i \in 1..m PROVE w[lv + i] = <<r + 1, i>>
  <2>1. lv + i \in 1..(lv + m) /\ ~(lv + i <= lv) /\ (lv + i) - lv = i
    BY <1>1, <1>3
  <2> QED
    BY <1>1, <1>4, <2>1
<1>7. ASSUME NEW i \in 1..(lv + m), ~(i \in 1..lv) PROVE i - lv \in 1..m /\ lv + (i - lv) = i
  BY <1>1, <1>3, <1>7
<1>8. ASSUME NEW i \in 1..(lv + m)
      PROVE  w[i][1] \in DOMAIN requests /\ w[i][2] \in 1..requests[w[i][1]].pieces
  <2>1. CASE i \in 1..lv
    <3>1. v[i][1] \in DOMAIN requests /\ v[i][2] \in 1..requests[v[i][1]].pieces
      BY <2>1 DEF EndsWith, InOrder, lv
    <3> QED
      BY <1>5, <2>1, <3>1
  <2>2. CASE ~(i \in 1..lv)
    <3>1. w[i] = <<r + 1, i - lv>> /\ i - lv \in 1..m
      BY <1>6, <1>7, <2>2
    <3> QED
      BY <1>2, <3>1 DEF m
  <2> QED
    BY <2>1, <2>2
<1>9. ASSUME NEW i \in 1..(lv + m - 1) PROVE Follows(requests, w[i], w[i + 1])
  <2>1. CASE i < lv
    <3>1. i \in 1..lv /\ i + 1 \in 1..lv /\ i \in 1..(lv - 1)
      BY <1>3, <2>1
    <3>2. Follows(requests, v[i], v[i + 1])
      BY <3>1 DEF EndsWith, InOrder, lv
    <3> QED
      BY <1>5, <3>1, <3>2
  <2>2. CASE i = lv
    <3>1. i \in 1..lv /\ i + 1 = lv + 1 /\ 1 \in 1..m
      BY <1>1, <1>3, <2>2
    <3>2. w[i] = <<r, requests[r].pieces>>
      BY <1>5, <2>2, <3>1 DEF EndsWith, lv
    <3>3. w[i + 1] = <<r + 1, 1>>
      BY <1>6, <3>1
    <3>4. w[i][1] = r /\ w[i][2] = requests[r].pieces
      BY <3>2
    <3>5. r \in 1..Len(requests)
      BY LenProperties
    <3>6. requests[r].pieces \in Nat
      BY <3>5, OneInOrder
    <3>7. ~(w[i][2] < requests[w[i][1]].pieces)
      BY <3>4, <3>6
    <3> QED
      BY <3>3, <3>4, <3>7 DEF Follows
  <2>3. CASE i > lv
    <3> DEFINE j == i - lv
    <3>1. j \in 1..m /\ j + 1 \in 1..m /\ lv + j = i /\ lv + (j + 1) = i + 1 /\ j < m
      BY <1>1, <1>3, <2>3
    <3> HIDE DEF j
    <3>2. w[i] = <<r + 1, j>> /\ w[i + 1] = <<r + 1, j + 1>>
      BY <1>6, <3>1
    <3>3. w[i][1] = r + 1 /\ w[i][2] = j
      BY <3>2
    <3> QED
      BY <3>1, <3>2, <3>3 DEF Follows, m
  <2> QED
    BY <1>3, <2>1, <2>2, <2>3
<1>10. 1 \in 1..lv /\ lv + m # 0 /\ m \in 1..m
  BY <1>1, <1>3
<1>11. w # <<>>
  BY <1>4, <1>10, EmptySeq
<1>12. w[1] = <<0 + 1, 1>>
  BY <1>5, <1>10 DEF EndsWith, InOrder
<1>13. w[Len(w)] = <<r + 1, m>>
  BY <1>4, <1>6, <1>10
<1>14. InOrder(requests, w, 0)
  <2>1. w \in Seq(Nat \X Nat) /\ Len(w) = lv + m
    BY <1>4
  <2>2. \A i \in 1..Len(w) : w[i][1] \in DOMAIN requests /\ w[i][2] \in 1..requests[w[i][1]].pieces
    BY <1>8, <2>1
  <2>3. ASSUME NEW i \in 1..(Len(w) - 1) PROVE Follows(requests, w[i], w[i + 1])
    <3>1. i \in 1..(lv + m - 1)
      BY <1>1, <1>3, <2>1
    <3> QED
      BY <1>9, <3>1
  <2> QED
    BY <1>12, <2>1, <2>2, <2>3 DEF InOrder
<1>15. EndsWith(requests, w, r + 1)
  BY <1>11, <1>13, <1>14 DEF EndsWith, m
<1> QED
  BY <1>15 DEF w, q

LEMMA JoinsExist ==
    ASSUME NEW requests, NEW n \in Nat \ {0}
    PROVE  \E g : Joins(g, requests, n)
<1> DEFINE q(r) == PiecesOfOne(requests, r)
           Bad == {m \in 1..n : ~(\E g : Joins(g, requests, m))}
<1>1. SUFFICES ASSUME Bad # {} PROVE FALSE
  OBVIOUS
<1>2. PICK m \in Bad : \A k \in Bad : m <= k
  <2>1. Bad \subseteq Nat
    OBVIOUS
  <2> HIDE DEF Bad
  <2> QED
    BY <1>1, <2>1, SmallestNat
<1>3. m \in 1..n /\ ~(\E g : Joins(g, requests, m))
  OBVIOUS
<1> HIDE DEF q
<1>4. CASE m = 1
  <2> DEFINE g == [r \in 1..1 |-> q(1)]
  <2>1. g = [r \in 1..1 |-> IF r = 1 THEN q(1) ELSE g[r - 1] \o q(r)]
    OBVIOUS
  <2> HIDE DEF g
  <2>2. Joins(g, requests, m)
    BY <1>4, <2>1 DEF Joins, q
  <2> QED
    BY <1>3, <2>2
<1>5. CASE m # 1
  <2>1. m - 1 \in 1..n /\ ~(m <= m - 1) /\ m \in Nat /\ m > 1
    BY <1>3, <1>5
  <2>2. PICK f : Joins(f, requests, m - 1)
    <3>1. m - 1 \notin Bad
      BY <1>2, <2>1
    <3> QED
      BY <2>1, <3>1
  <2> HIDE DEF Bad
  <2> DEFINE g == [r \in 1..m |-> IF r = m THEN f[m - 1] \o q(m) ELSE f[r]]
  <2>3. \A r \in 1..(m - 1) : f[r] = IF r = 1 THEN q(1) ELSE f[r - 1] \o q(r)
    BY <2>2 DEF Joins, q
  <2>4. ASSUME NEW r \in 1..m PROVE g[r] = IF r = 1 THEN q(1) ELSE g[r - 1] \o q(r)
    <3>1. CASE r = m
      <4>1. r # 1 /\ r - 1 \in 1..m /\ r - 1 # m
        BY <2>1, <3>1
      <4>2. g[r] = f[m - 1] \o q(m) /\ g[r - 1] = f[m - 1]
        BY <3>1, <4>1
      <4> QED
        BY <3>1, <4>1, <4>2
    <3>2. CASE r # m
      <4>1. r \in 1..(m - 1) /\ g[r] = f[r]
        BY <2>1, <3>2
      <4>2. r # 1 => r - 1 \in 1..m /\ r - 1 # m
        BY <2>1, <3>2
      <4>3. r # 1 => g[r - 1] = f[r - 1]
        BY <4>2
      <4> HIDE DEF g
      <4> QED
        BY <2>3, <4>1, <4>3
    <3> QED
      BY <3>1, <3>2
  <2>5. g = [r \in 1..m |-> g[r]]
    OBVIOUS
  <2> HIDE DEF g
  <2>6. Joins(g, requests, m)
    BY <2>4, <2>5 DEF Joins, q
  <2> QED
    BY <1>3, <2>6
<1> QED
  BY <1>4, <1>5

LEMMA JoinsEnd ==
    ASSUME NEW requests \in Seq(Requests), NEW n \in Nat \ {0}, n = Len(requests), NEW g, Joins(g, requests, n)
    PROVE  EndsWith(requests, g[n], n)
<1> DEFINE Bad == {m \in 1..n : ~EndsWith(requests, g[m], m)}
<1>1. SUFFICES ASSUME Bad # {} PROVE FALSE
  OBVIOUS
<1>2. PICK m \in Bad : \A k \in Bad : m <= k
  <2>1. Bad \subseteq Nat
    OBVIOUS
  <2> HIDE DEF Bad
  <2> QED
    BY <1>1, <2>1, SmallestNat
<1>3. m \in 1..n /\ ~EndsWith(requests, g[m], m)
  OBVIOUS
<1>4. CASE m = 1
  <2>1. g[m] = PiecesOfOne(requests, 1) /\ 1 \in 1..Len(requests)
    BY <1>3, <1>4 DEF Joins
  <2> QED
    BY <1>3, <1>4, <2>1, FirstJoin
<1>5. CASE m # 1
  <2> DEFINE r == m - 1
  <2>1. r \in 1..n /\ ~(m <= r) /\ r \in Nat \ {0} /\ r + 1 = m
    BY <1>3, <1>5
  <2>2. EndsWith(requests, g[r], r)
    BY <1>2, <2>1
  <2>3. g[m] = g[r] \o PiecesOfOne(requests, m)
    BY <1>3, <1>5 DEF Joins
  <2> HIDE DEF Bad, r
  <2>4. r + 1 \in 1..Len(requests)
    BY <1>3, <2>1
  <2>5. EndsWith(requests, g[r] \o PiecesOfOne(requests, r + 1), r + 1)
    BY <2>1, <2>2, <2>4, NextJoin
  <2> QED
    BY <1>3, <2>1, <2>3, <2>5
<1> QED
  BY <1>4, <1>5

LEMMA PiecesInOrder ==
    ASSUME NEW requests \in Seq(Requests)
    PROVE  InOrder(requests, PiecesOf(requests), 0)
<1> DEFINE q == [r \in DOMAIN requests |-> [i \in 1..requests[r].pieces |-> <<r, i>>]]
           n == Len(requests)
<1>1. n \in Nat /\ DOMAIN requests = 1..n
  BY LenProperties
<1>2. DOMAIN q = 1..n /\ Len(q) = n
  BY <1>1
<1>3. CASE n = 0
  <2>1. q = <<>>
    BY <1>1, <1>3
  <2>2. PiecesOf(requests) = <<>>
    BY <1>2, <1>3, <2>1 DEF PiecesOf, FlattenSeq
  <2> QED
    BY <2>2, NoInput
<1>4. CASE n # 0
  <2> DEFINE h == CHOOSE g : Joins(g, requests, n)
  <2>1. n \in Nat \ {0}
    BY <1>1, <1>4
  <2>2. Joins(h, requests, n)
    BY <2>1, JoinsExist
  <2>3. EndsWith(requests, h[n], n)
    <3> HIDE DEF h
    <3> QED
      BY <2>1, <2>2, JoinsEnd
  <2>4. PiecesOf(requests) = h[n]
    <3>1. \A r \in 1..n : q[r] = PiecesOfOne(requests, r)
      BY <1>1 DEF PiecesOfOne
    <3>2. 1 \in 1..n
      BY <2>1
    <3>3. PiecesOf(requests) = (CHOOSE g : g = [r \in 1..n |-> IF r = 1 THEN q[r] ELSE g[r - 1] \o q[r]])[n]
      <4>1. PiecesOf(requests) = FlattenSeq(q)
        BY DEF PiecesOf
      <4> HIDE DEF q, n
      <4>2. FlattenSeq(q) = (CHOOSE g : g = [r \in 1..n |-> IF r = 1 THEN q[r] ELSE g[r - 1] \o q[r]])[n]
        BY <1>2, <1>4 DEF FlattenSeq
      <4> QED
        BY <4>1, <4>2
    <3> HIDE DEF q, n
    <3>4. ASSUME NEW g
          PROVE  [r \in 1..n |-> IF r = 1 THEN q[r] ELSE g[r - 1] \o q[r]]
                   = [r \in 1..n |-> IF r = 1 THEN PiecesOfOne(requests, 1)
                                              ELSE g[r - 1] \o PiecesOfOne(requests, r)]
      BY <3>1, <3>2
    <3>5. (CHOOSE g : g = [r \in 1..n |-> IF r = 1 THEN q[r] ELSE g[r - 1] \o q[r]]) = h
      BY <3>4 DEF Joins
    <3> QED
      BY <3>3, <3>5
  <2> QED
    BY <2>3, <2>4 DEF EndsWith
<1> QED
  BY <1>3, <1>4

-----------------------------------------------------------------------------
(***************************************************************************)
(* The replies.  Those the client has and those that wait in the transport *)
(* are, taken together, one for each request in order; only the last may   *)
(* be an error, and then the task answers nothing more.  A reply in the    *)
(* transport of a connection that is lost is gone with it.                 *)
(***************************************************************************)
Answers == Nat \X {"ok", "error"}

Answer(reply, i, n, live) ==
    \/ reply = <<i, "ok">>
    \/ ~live /\ i = n /\ reply \in {<<0, "error">>, <<i, "error">>}

\* how many requests they answer
Count(replies) ==
    IF replies # <<>> /\ replies[Len(replies)][1] = 0 THEN Len(replies) - 1 ELSE Len(replies)

AnswersInOrder(replies, live) ==
    /\ replies \in Seq(Answers)
    /\ \A i \in 1..Len(replies) : Answer(replies[i], i, Len(replies), live)

LEMMA AnswersStop ==
    ASSUME NEW s, NEW live, AnswersInOrder(s, live)
    PROVE  AnswersInOrder(s, FALSE)
BY DEF AnswersInOrder, Answer

LEMMA NoAnswers == AnswersInOrder(<<>>, TRUE) /\ Count(<<>>) = 0
BY DEF AnswersInOrder, Count

LEMMA NextAnswer ==
    ASSUME NEW s, AnswersInOrder(s, TRUE), NEW live \in BOOLEAN,
           NEW e \in Answers, Answer(e, Len(s) + 1, Len(s) + 1, live)
    PROVE  /\ AnswersInOrder(Append(s, e), live)
           /\ Count(s) = Len(s) /\ Len(s) \in Nat
           /\ Count(Append(s, e)) = IF e[1] = 0 THEN Len(s) ELSE Len(s) + 1
<1> DEFINE n == Len(s)
           t == Append(s, e)
<1>1. s \in Seq(Answers) /\ n \in Nat
  BY LenProperties DEF AnswersInOrder
<1>2. t \in Seq(Answers) /\ Len(t) = n + 1 /\ t # <<>> /\ t[n + 1] = e /\ \A i \in 1..n : t[i] = s[i]
  BY <1>1, AppendProperties
<1>3. \A i \in 1..n : s[i] = <<i, "ok">>
  BY DEF AnswersInOrder, Answer
<1>4. Count(s) = n
  <2>1. CASE n = 0
    BY <1>1, <2>1, EmptySeq DEF Count
  <2>2. CASE n # 0
    <3>1. n \in 1..n
      BY <1>1, <2>2
    <3>2. s[n][1] = n
      BY <1>3, <3>1
    <3> QED
      BY <2>2, <3>2 DEF Count
  <2> QED
    BY <2>1, <2>2
<1> HIDE DEF n, t
<1>5. ASSUME NEW i \in 1..(n + 1) PROVE Answer(t[i], i, n + 1, live)
  <2>1. CASE i \in 1..n
    BY <1>2, <1>3, <2>1 DEF Answer
  <2>2. CASE i = n + 1
    BY <1>2, <2>2 DEF n
  <2> QED
    BY <1>1, <2>1, <2>2
<1>6. AnswersInOrder(t, live)
  BY <1>2, <1>5 DEF AnswersInOrder
<1>7. Count(t) = IF e[1] = 0 THEN n ELSE n + 1
  BY <1>1, <1>2 DEF Count
<1> QED
  BY <1>1, <1>4, <1>6, <1>7 DEF n, t

\* What the client has received is in order too.
LEMMA AnswersReceived ==
    ASSUME NEW g \in Seq(Answers), NEW o \in Seq(Answers), NEW live, AnswersInOrder(g \o o, live)
    PROVE  AnswersInOrder(g, live)
<1> DEFINE s == g \o o
           lg == Len(g)
           ls == Len(s)
<1>1. s \in Seq(Answers) /\ ls \in Nat /\ lg \in Nat /\ lg <= ls /\ \A i \in 1..lg : s[i] = g[i]
  BY ConcatProperties, LenProperties
<1>2. \A i \in 1..ls : Answer(s[i], i, ls, live)
  BY DEF AnswersInOrder
<1> HIDE DEF s, lg, ls
<1>3. ASSUME NEW i \in 1..lg PROVE Answer(g[i], i, lg, live)
  <2>1. i \in 1..ls /\ i <= lg
    BY <1>1
  <2>2. Answer(g[i], i, ls, live)
    BY <1>1, <1>2, <2>1
  <2>3. i = ls => i = lg
    BY <1>1, <2>1
  <2> QED
    BY <2>2, <2>3 DEF Answer
<1> QED
  BY <1>3 DEF AnswersInOrder, lg

\* What the answers say of the requests.
LEMMA AnswersCount ==
    ASSUME NEW s, AnswersInOrder(s, FALSE)
    PROVE  /\ Len(s) \in Nat /\ DOMAIN s = 1..Len(s)
           /\ \A i \in DOMAIN s : s[i][1] # 0 => s[i][1] = i
           /\ \A i \in DOMAIN s : s[i][2] = "error" => i = Len(s)
           /\ Cardinality({i \in DOMAIN s : s[i][1] # 0}) = Count(s)
<1> DEFINE n == Len(s)
           A == {i \in DOMAIN s : s[i][1] # 0}
<1>1. n \in Nat /\ DOMAIN s = 1..n /\ s \in Seq(Answers)
  BY LenProperties DEF AnswersInOrder
<1>2. \A i \in 1..n : s[i] = <<i, "ok">> \/ (i = n /\ s[i] \in {<<0, "error">>, <<i, "error">>})
  BY DEF AnswersInOrder, Answer
<1> HIDE DEF n
<1>3. \A i \in 1..n : (s[i][1] # 0 => s[i][1] = i) /\ (s[i][2] = "error" => i = n)
  BY <1>2
<1>4. Cardinality(A) = Count(s)
  <2>1. CASE s # <<>> /\ s[n][1] = 0
    <3>1. n # 0
      BY <1>1, <2>1, EmptySeq DEF n
    <3>2. A = 1..(n - 1)
      <4>1. ASSUME NEW i \in 1..(n - 1) PROVE i \in A
        BY <1>1, <1>2
      <4>2. ASSUME NEW i \in A PROVE i \in 1..(n - 1)
        BY <1>1, <2>1
      <4> QED
        BY <4>1, <4>2
    <3>3. Count(s) = n - 1
      BY <2>1 DEF Count, n
    <3> HIDE DEF A
    <3> QED
      BY <1>1, <3>1, <3>2, <3>3, FS_Interval
  <2>2. CASE ~(s # <<>> /\ s[n][1] = 0)
    <3>1. A = 1..n
      <4>1. ASSUME NEW i \in 1..n PROVE s[i][1] # 0
        <5>1. i \in Nat /\ i # 0
          BY <1>1
        <5>2. CASE s[i] = <<i, "ok">> \/ s[i] = <<i, "error">>
          BY <5>1, <5>2
        <5>3. CASE i = n
          <6>1. s # <<>>
            BY <1>1, <5>3 DEF n
          <6> QED
            BY <2>2, <5>3, <6>1
        <5> QED
          BY <1>2, <5>2, <5>3
      <4> QED
        BY <1>1, <4>1
    <3>2. Count(s) = n
      BY <2>2 DEF Count, n
    <3> HIDE DEF A
    <3> QED
      BY <1>1, <3>1, <3>2, FS_Interval
  <2> QED
    BY <2>1, <2>2
<1> QED
  BY <1>1, <1>3, <1>4 DEF n

-----------------------------------------------------------------------------
(***************************************************************************)
(* The pipeline.  The invariant is stated for one client, on the values    *)
(* that belong to it, so that a step of another client keeps it at once:   *)
(*                                                                         *)
(*   - the pieces still to be parsed, wherever they are, are in order from *)
(*     the request after the last one executed (InputOK);                  *)
(*   - the replies answer the requests executed so far (RepliesOK);        *)
(*   - the count and the sizes are those that the place of the task in     *)
(*     handle_client allows (PlaceOK).                                     *)
(***************************************************************************)
Places == {"reading", "parsing", "flushing", "yielded", "failing", "closing", "closed"}
Live(p) == p \in {"reading", "parsing", "flushing", "yielded"}

Whole(requests, b) ==
    /\ b # <<>>
    /\ requests[b[1][1]].kind \in {"write", "read"}
    /\ Len(b) >= requests[b[1][1]].pieces

InputOK(requests, u, a, b, x) ==
    /\ u \in Seq(Pieces) /\ a \in Seq(Pieces) /\ b \in Seq(Pieces) /\ x \in Seq(Nat \ {0})
    /\ InOrder(requests, Rest(b, a, u), Len(x))
    /\ x = [i \in 1..Len(x) |-> i]

RepliesOK(requests, o, g, p, x, l) ==
    /\ g \in Seq(Answers) /\ HasSizes(requests, o) /\ HeadsFit(requests, o, MaxOutput)
    /\ AnswersInOrder(g \o o, Live(p))
    /\ ~l => Len(x) = Count(g \o o)
    /\ l => o = <<>>

PlaceOK(requests, b, p, t, o) ==
    /\ p \in Places /\ t \in 0..MaxCommandsPerTick
    /\ p \in {"reading", "yielded"} => t = 0
    /\ p = "parsing" => t < MaxCommandsPerTick
    /\ p = "reading" => ~Whole(requests, b)
    /\ Live(p) => Len(b) <= MaxInput
    /\ p \in {"reading", "parsing", "yielded"} => Total(requests, o) <= MaxOutput

ClientOK(c) ==
    /\ InputOK(script[c], unsent[c], arrived[c], buffer[c], executed[c])
    /\ RepliesOK(script[c], out[c], got[c], pc[c], executed[c], lost[c])
    /\ PlaceOK(script[c], buffer[c], pc[c], tick[c], out[c])

ByClient(f) == f = [c \in Clients |-> f[c]]

Shapes ==
    /\ runtime \in Runtimes /\ script \in Scripts
    /\ ByClient(unsent) /\ ByClient(arrived) /\ ByClient(buffer) /\ ByClient(pc) /\ ByClient(tick)
    /\ ByClient(out) /\ ByClient(got) /\ ByClient(executed)
    /\ eof \in [Clients -> BOOLEAN] /\ lost \in [Clients -> BOOLEAN]
    /\ logged \subseteq Clients \X (Nat \ {0})
    /\ turn \in Clients \cup {NoClient}
    /\ ran \in Nat /\ (turn = NoClient => ran = 0)
    /\ phase \in {"serving", "stopping", "closed", "cancelled"}

PipelineInv == Shapes /\ \A c \in Clients : ClientOK(c)

LEMMA ScriptType ==
    ASSUME Shapes, NEW c \in Clients
    PROVE  script[c] \in Seq(Requests)
BY ServerAssumption DEF Shapes

LEMMA PipelineInit == Init => PipelineInv
<1> SUFFICES ASSUME Init PROVE PipelineInv
  OBVIOUS
<1>1. Shapes
  BY ServerAssumption DEF Init, Shapes, ByClient
<1>2. ASSUME NEW c \in Clients PROVE ClientOK(c)
  <2>1. /\ unsent[c] = PiecesOf(script[c]) /\ arrived[c] = <<>> /\ buffer[c] = <<>> /\ executed[c] = <<>>
        /\ out[c] = <<>> /\ got[c] = <<>> /\ pc[c] = "reading" /\ tick[c] = 0 /\ lost[c] = FALSE
    BY DEF Init
  <2>2. InputOK(script[c], PiecesOf(script[c]), <<>>, <<>>, <<>>)
    <3> DEFINE u == PiecesOf(script[c])
    <3>1. InOrder(script[c], u, 0)
      BY <1>1, ScriptType, PiecesInOrder
    <3>2. u \in Seq(Pieces) /\ <<>> \in Seq(Pieces)
      BY <3>1, EmptySeq DEF InOrder, Pieces
    <3> HIDE DEF u
    <3>3. Rest(<<>>, <<>>, u) = u
      BY <3>2, ConcatEmptySeq DEF Rest
    <3>4. Len(<<>>) = 0 /\ <<>> \in Seq(Nat \ {0}) /\ <<>> = [i \in 1..0 |-> i]
      OBVIOUS
    <3>5. InputOK(script[c], u, <<>>, <<>>, <<>>)
      BY <3>1, <3>2, <3>3, <3>4 DEF InputOK
    <3> QED
      BY <3>5 DEF u
  <2>3. RepliesOK(script[c], <<>>, <<>>, "reading", <<>>, FALSE)
    <3>1. <<>> \o <<>> = <<>> /\ <<>> \in Seq(Answers) /\ Len(<<>>) = 0
      OBVIOUS
    <3>2. Live("reading") = TRUE
      BY DEF Live
    <3> QED
      BY <3>1, <3>2, NoSizes, NoHeads, NoAnswers DEF RepliesOK
  <2>4. PlaceOK(script[c], <<>>, "reading", 0, <<>>)
    BY ServerAssumption, NoSizes DEF PlaceOK, Places, Whole, Live
  <2> QED
    BY <2>1, <2>2, <2>3, <2>4 DEF ClientOK
<1> QED
  BY <1>1, <1>2 DEF PipelineInv

-----------------------------------------------------------------------------
(***************************************************************************)
(* What happens to the values of a client.                                 *)
(***************************************************************************)
LEMMA InputDropped ==
    ASSUME NEW requests, NEW u, NEW a, NEW b, NEW x, InputOK(requests, u, a, b, x)
    PROVE  InputOK(requests, <<>>, <<>>, <<>>, x)
<1>1. Rest(<<>>, <<>>, <<>>) = <<>> /\ <<>> \in Seq(Pieces)
  BY DEF Rest
<1> QED
  BY <1>1, NoInput DEF InputOK

LEMMA InputCut ==
    ASSUME NEW requests, NEW u, NEW a, NEW b, NEW x, InputOK(requests, u, a, b, x)
    PROVE  InputOK(requests, <<>>, a, b, x)
<1>1. b \o a \in Seq(Pieces) /\ u \in Seq(Pieces) /\ <<>> \in Seq(Pieces)
  BY ConcatProperties, EmptySeq DEF InputOK
<1>2. Rest(b, a, <<>>) = b \o a
  BY <1>1, ConcatEmptySeq DEF Rest
<1>3. InOrder(requests, b \o a, Len(x))
  BY <1>1, CutInput DEF InputOK, Pieces, Rest
<1> QED
  BY <1>1, <1>2, <1>3 DEF InputOK

LEMMA InputArrives ==
    ASSUME NEW requests, NEW u, NEW a, NEW b, NEW x, InputOK(requests, u, a, b, x), u # <<>>
    PROVE  InputOK(requests, Tail(u), Append(a, Head(u)), b, x)
<1> DEFINE h == Head(u)
           t == Tail(u)
<1>1. u \in Seq(Pieces) /\ a \in Seq(Pieces) /\ b \in Seq(Pieces)
  BY DEF InputOK
<1>2. t \in Seq(Pieces)
  BY <1>1, HeadTailProperties
<1>3. Append(a, h) \in Seq(Pieces)
  BY <1>1, HeadTailProperties, AppendProperties
<1>4. Rest(b, Append(a, h), t) = Rest(b, a, u)
  BY <1>1, MoveOne
<1> HIDE DEF h, t
<1>5. InputOK(requests, t, Append(a, h), b, x)
  BY <1>1, <1>2, <1>3, <1>4 DEF InputOK
<1> QED
  BY <1>5 DEF h, t

LEMMA InputRead ==
    ASSUME NEW requests, NEW u, NEW a, NEW b, NEW x, InputOK(requests, u, a, b, x), NEW n \in 0..Len(a)
    PROVE  InputOK(requests, u, SubSeq(a, n + 1, Len(a)), b \o SubSeq(a, 1, n), x)
<1>1. /\ SubSeq(a, n + 1, Len(a)) \in Seq(Pieces) /\ b \o SubSeq(a, 1, n) \in Seq(Pieces)
      /\ Rest(b \o SubSeq(a, 1, n), SubSeq(a, n + 1, Len(a)), u) = Rest(b, a, u)
  <2>1. u \in Seq(Pieces) /\ a \in Seq(Pieces) /\ b \in Seq(Pieces)
    BY DEF InputOK
  <2> QED
    BY <2>1, MoveSome
<1> QED
  BY <1>1 DEF InputOK

LEMMA CountOn ==
    ASSUME NEW x \in Seq(Nat \ {0}), x = [i \in 1..Len(x) |-> i], NEW r, r = Len(x) + 1
    PROVE  /\ Append(x, r) \in Seq(Nat \ {0}) /\ Len(Append(x, r)) = r
           /\ Append(x, r) = [i \in 1..r |-> i]
<1> DEFINE y == Append(x, r)
           n == Len(x)
<1>1. n \in Nat /\ r \in Nat \ {0} /\ r = n + 1
  BY LenProperties
<1>2. y \in Seq(Nat \ {0}) /\ Len(y) = n + 1 /\ y[n + 1] = r /\ \A i \in 1..n : y[i] = x[i]
  BY <1>1, AppendProperties
<1>3. \A i \in 1..n : x[i] = i
  OBVIOUS
<1>4. DOMAIN y = 1..r /\ y = [i \in DOMAIN y |-> y[i]]
  <2> HIDE DEF y, n
  <2>1. y \in [1..Len(y) -> Nat \ {0}]
    BY <1>2, LenProperties
  <2> QED
    BY <1>1, <1>2, <2>1
<1> HIDE DEF y, n
<1>5. \A i \in 1..r : y[i] = i
  BY <1>1, <1>2, <1>3
<1>6. y = [i \in 1..r |-> i]
  BY <1>4, <1>5
<1> QED
  BY <1>1, <1>2, <1>6 DEF y

LEMMA InputSplit ==
    ASSUME NEW requests, NEW u, NEW a, NEW b, NEW x, InputOK(requests, u, a, b, x)
    PROVE  /\ u \in Seq(Pieces) /\ a \in Seq(Pieces) /\ b \in Seq(Pieces) /\ x \in Seq(Nat \ {0})
           /\ InOrder(requests, Rest(b, a, u), Len(x))
           /\ x = [i \in 1..Len(x) |-> i]
BY DEF InputOK

\* what is left of a buffer after its first k pieces
After(b, k) == SubSeq(b, k + 1, Len(b))

\* the request its first piece belongs to, and the pieces of that request
FirstOf(b) == b[1][1]
PiecesIn(requests, r) == requests[r].pieces

LEMMA InputExecuted ==
    ASSUME NEW requests \in Seq(Requests), NEW u, NEW a, NEW b, NEW x,
           InputOK(requests, u, a, b, x), Whole(requests, b),
           NEW r, r = FirstOf(b), NEW k, k = PiecesIn(requests, r)
    PROVE  /\ InputOK(requests, u, a, After(b, k), Append(x, r))
           /\ r = Len(x) + 1 /\ r \in Nat \ {0} /\ Len(Append(x, r)) = r
           /\ Len(After(b, k)) <= Len(b)
           /\ SizeOf(requests, <<r, "ok">>) \in Nat
<1> DEFINE w == Rest(b, a, u)
           n == Len(x)
<1>0. r = b[1][1] /\ k = requests[r].pieces
  BY DEF FirstOf, PiecesIn
<1>1. /\ u \in Seq(Pieces) /\ a \in Seq(Pieces) /\ b \in Seq(Pieces) /\ x \in Seq(Nat \ {0}) /\ b # <<>>
      /\ InOrder(requests, w, n) /\ x = [i \in 1..Len(x) |-> i]
  BY DEF InputOK, Whole
<1>2. n \in Nat /\ Len(b) \in Nat \ {0}
  BY <1>1, LenProperties, EmptySeq
<1>3. w = b \o (a \o u) /\ a \o u \in Seq(Pieces)
  <2>1. w = b \o (a \o u)
    BY <1>1, ConcatAssociative DEF Rest
  <2>2. a \o u \in Seq(Pieces)
    BY <1>1, ConcatProperties
  <2> QED
    BY <2>1, <2>2
<1>4. w[1] = b[1] /\ Len(w) >= Len(b) /\ w # <<>> /\ Len(w) \in Nat
  <2> DEFINE t == a \o u
  <2>1. t \in Seq(Pieces) /\ w = b \o t
    BY <1>3
  <2> HIDE DEF w, t
  <2>2. Len(w) = Len(b) + Len(t) /\ Len(t) \in Nat /\ \A i \in 1..(Len(b) + Len(t)) : w[i] = IF i <= Len(b) THEN b[i] ELSE t[i - Len(b)]
    BY <1>1, <2>1, ConcatProperties, LenProperties
  <2>3. w[1] = b[1] /\ Len(w) >= Len(b)
    BY <1>2, <2>2
  <2>4. Len(w) \in Nat \ {0}
    BY <1>2, <2>2
  <2> QED
    BY <2>3, <2>4
<1> HIDE DEF w, n
<1>5. w[1] = <<n + 1, 1>>
  BY <1>1, <1>4 DEF InOrder
<1>6. r = n + 1
  BY <1>0, <1>4, <1>5
<1>7. Len(w) >= k /\ k <= Len(b)
  <2>1. Len(b) >= k
    BY <1>0 DEF Whole
  <2>2. k \in Nat
    <3>1. n + 1 \in DOMAIN requests
      <4>1. 1 \in 1..Len(w)
        BY <1>4, EmptySeq, <1>2
      <4> QED
        BY <1>1, <1>5, <4>1 DEF InOrder
    <3>2. requests[n + 1] \in Requests
      BY <3>1, ElementOfSeq, LenProperties
    <3> QED
      BY <1>0, <1>6, <3>2 DEF Requests
  <2> QED
    BY <1>2, <1>4, <2>1, <2>2
<1>8. /\ n + 1 \in DOMAIN requests /\ k \in Nat \ {0} /\ requests[n + 1] \in Requests
      /\ InOrder(requests, SubSeq(w, k + 1, Len(w)), n + 1)
  BY <1>0, <1>1, <1>2, <1>4, <1>6, <1>7, NextInput
<1>9. k \in 0..Len(b)
  BY <1>2, <1>7, <1>8
<1>10. /\ SubSeq(b, k + 1, Len(b)) \in Seq(Pieces)
       /\ Len(SubSeq(b, k + 1, Len(b))) = Len(b) - k
       /\ Rest(SubSeq(b, k + 1, Len(b)), a, u) = SubSeq(w, k + 1, Len(w))
  <2>1. Rest(SubSeq(b, k + 1, Len(b)), a, u) = SubSeq(w, k + 1, Len(w))
    BY <1>1, <1>9, DropFirst DEF w
  <2> QED
    BY <1>1, <1>9, <2>1, FirstDropped
<1>11. /\ Append(x, r) \in Seq(Nat \ {0}) /\ Len(Append(x, r)) = r
       /\ Append(x, r) = [i \in 1..r |-> i]
  BY <1>1, <1>6, CountOn DEF n
<1>12. InputOK(requests, u, a, After(b, k), Append(x, r))
  BY <1>1, <1>6, <1>8, <1>10, <1>11 DEF InputOK, After
<1>13. Len(After(b, k)) <= Len(b)
  <2>1. Len(b) - k <= Len(b)
    BY <1>2, <1>8
  <2> QED
    BY <1>10, <2>1, Zenon DEF After
<1>14. SizeOf(requests, <<r, "ok">>) \in Nat
  <2>1. requests[r].reply \in Nat
    BY <1>6, <1>8 DEF Requests
  <2> QED
    BY <2>1 DEF SizeOf
<1>15. r \in Nat \ {0}
  BY <1>2, <1>6
<1> QED
  BY <1>6, <1>11, <1>12, <1>13, <1>14, <1>15 DEF n


\* The replies.
LEMMA SomeAnswersStop ==
    ASSUME NEW s, NEW p, NEW q, AnswersInOrder(s, Live(p)), Live(q) => Live(p)
    PROVE  AnswersInOrder(s, Live(q))
BY DEF AnswersInOrder, Answer

LEMMA RepliesStop ==
    ASSUME NEW requests, NEW o, NEW g, NEW p, NEW x, NEW l, RepliesOK(requests, o, g, p, x, l),
           NEW q, Live(q) => Live(p)
    PROVE  RepliesOK(requests, o, g, q, x, l)
<1>1. AnswersInOrder(g \o o, Live(p))
  BY DEF RepliesOK
<1> DEFINE s == g \o o
<1> HIDE DEF s
<1>2. AnswersInOrder(s, Live(q))
  BY <1>1, SomeAnswersStop DEF s
<1> QED
  BY <1>2 DEF RepliesOK, s

LEMMA RepliesLost ==
    ASSUME NEW requests, NEW o, NEW g, NEW p, NEW x, NEW l, RepliesOK(requests, o, g, p, x, l)
    PROVE  RepliesOK(requests, <<>>, g, p, x, TRUE)
<1>1. g \in Seq(Answers) /\ o \in Seq(Answers) /\ AnswersInOrder(g \o o, Live(p))
  BY DEF RepliesOK, HasSizes, Answers
<1>2. AnswersInOrder(g, Live(p))
  BY <1>1, AnswersReceived
<1>3. g \o <<>> = g
  BY <1>1, ConcatEmptySeq
<1> QED
  BY <1>1, <1>2, <1>3, NoSizes, NoHeads DEF RepliesOK

LEMMA RepliesDelivered ==
    ASSUME NEW requests, NEW o, NEW g, NEW p, NEW x, NEW l, RepliesOK(requests, o, g, p, x, l), o # <<>>
    PROVE  RepliesOK(requests, Tail(o), Append(g, Head(o)), p, x, l)
<1> DEFINE h == Head(o)
           t == Tail(o)
<1>1. g \in Seq(Answers) /\ o \in Seq(Answers) /\ HasSizes(requests, o) /\ HeadsFit(requests, o, MaxOutput)
  BY DEF RepliesOK, HasSizes, Answers
<1>2. h \in Answers /\ t \in Seq(Answers)
  BY <1>1, HeadTailProperties
<1>3. Append(g, h) \in Seq(Answers) /\ Append(g, h) = g \o <<h>> /\ <<h>> \in Seq(Answers)
  BY <1>1, <1>2, AppendProperties, AppendIsConcat
<1>4. o = <<h>> \o t
  <2>1. Len(o) \in Nat \ {0}
    BY <1>1, EmptySeq
  <2>2. 1 \in 1..Len(o) /\ Len(o) \in 1..Len(o)
    BY <2>1
  <2>3. SubSeq(o, 1, Len(o)) = <<o[1]>> \o SubSeq(o, 1 + 1, Len(o))
    BY <1>1, <2>2, SubSeqRecursiveFirst
  <2>4. SubSeq(o, 1, Len(o)) = o /\ t = SubSeq(o, 2, Len(o)) /\ h = o[1]
    BY <1>1, SubSeqFull, TailIsSubSeq
  <2> QED
    BY <2>3, <2>4
<1>5. HasSizes(requests, t) /\ HeadsFit(requests, t, MaxOutput)
  BY <1>1, TotalTail, HeadsFitTail, ServerAssumption
<1> HIDE DEF h, t
<1>6. Append(g, h) \o t = g \o o
  BY <1>1, <1>2, <1>3, <1>4, ConcatAssociative
<1>7. RepliesOK(requests, t, Append(g, h), p, x, l)
  BY <1>3, <1>5, <1>6 DEF RepliesOK
<1> QED
  BY <1>7 DEF h, t


\* A reply is written, or is lost with the connection.  It answers the next
\* request, or none if it is an error of the protocol.
LEMMA RepliesWritten ==
    ASSUME NEW requests, NEW o, NEW g, NEW p, NEW x, NEW l \in BOOLEAN, RepliesOK(requests, o, g, p, x, l),
           Live(p), Total(requests, o) <= MaxOutput,
           NEW e \in Answers, SizeOf(requests, e) \in Nat, NEW q, NEW y,
           Len(x) \in Nat,
           \/ e = <<0, "error">> /\ ~Live(q) /\ Len(y) = Len(x)
           \/ e = <<Len(x) + 1, "error">> /\ ~Live(q) /\ Len(y) = Len(x) + 1
           \/ e = <<Len(x) + 1, "ok">> /\ Len(y) = Len(x) + 1,
           NEW v, v = IF l THEN <<>> ELSE Append(o, e)
    PROVE  RepliesOK(requests, v, g, q, y, l)
<1> DEFINE s == g \o o
<1>1. /\ g \in Seq(Answers) /\ o \in Seq(Answers) /\ HasSizes(requests, o) /\ HeadsFit(requests, o, MaxOutput)
      /\ AnswersInOrder(s, Live(p)) /\ (~l => Len(x) = Count(s)) /\ (l => o = <<>>)
  BY DEF RepliesOK, HasSizes, Answers
<1>2. CASE l
  <2>1. v = o
    BY <1>1, <1>2
  <2> HIDE DEF s
  <2>2. AnswersInOrder(s, Live(q))
    BY <1>1, SomeAnswersStop
  <2> QED
    BY <1>1, <1>2, <2>1, <2>2 DEF RepliesOK, s
<1>3. CASE ~l
  <2>1. v = Append(o, e)
    BY <1>3
  <2>2. HasSizes(requests, v) /\ HeadsFit(requests, v, MaxOutput)
    BY <1>1, <2>1, TotalAppend, HeadsFitAppend DEF Answers
  <2>3. g \o v = Append(s, e)
    <3>1. o \in Seq(Answers) /\ <<e>> \in Seq(Answers) /\ v = o \o <<e>>
      BY <1>1, <2>1, AppendIsConcat
    <3>2. s \in Seq(Answers)
      BY <1>1, ConcatProperties
    <3>3. Append(s, e) = s \o <<e>>
      BY <3>2, AppendIsConcat
    <3>4. g \o (o \o <<e>>) = (g \o o) \o <<e>>
      BY <1>1, <3>1, ConcatAssociative
    <3> QED
      BY <3>1, <3>3, <3>4
  <2> HIDE DEF s
  <2>4. AnswersInOrder(s, TRUE)
    BY <1>1 DEF AnswersInOrder, Answer
  <2>5. Len(x) = Len(s) /\ Count(s) = Len(s) /\ Len(s) \in Nat
    <3>1. Len(s) \in Nat
      BY <2>4, LenProperties DEF AnswersInOrder
    <3>2. <<Len(s) + 1, "ok">> \in Answers
      BY <3>1 DEF Answers
    <3>3. Answer(<<Len(s) + 1, "ok">>, Len(s) + 1, Len(s) + 1, TRUE)
      BY DEF Answer
    <3>4. Count(s) = Len(s)
      BY <2>4, <3>2, <3>3, NextAnswer
    <3> QED
      BY <1>1, <1>3, <3>1, <3>4
  <2>6. CASE ~Live(q)
    <3>1. Answer(e, Len(s) + 1, Len(s) + 1, FALSE)
      BY <2>5 DEF Answer
    <3>2. AnswersInOrder(Append(s, e), FALSE)
          /\ Count(Append(s, e)) = IF e[1] = 0 THEN Len(s) ELSE Len(s) + 1
      BY <2>4, <3>1, NextAnswer
    <3>3. Len(y) = Count(Append(s, e))
      BY <2>5, <3>2
    <3>4. AnswersInOrder(Append(s, e), Live(q))
      BY <2>6, <3>2 DEF AnswersInOrder, Answer
    <3> QED
      BY <1>1, <1>3, <2>2, <2>3, <3>3, <3>4 DEF RepliesOK
  <2>7. CASE Live(q)
    <3>1. e = <<Len(s) + 1, "ok">> /\ Len(y) = Len(s) + 1
      BY <2>5, <2>7
    <3>2. Answer(e, Len(s) + 1, Len(s) + 1, TRUE)
      BY <3>1 DEF Answer
    <3>3. AnswersInOrder(Append(s, e), TRUE)
          /\ Count(Append(s, e)) = IF e[1] = 0 THEN Len(s) ELSE Len(s) + 1
      BY <2>4, <3>2, NextAnswer
    <3>4. Len(y) = Count(Append(s, e))
      BY <2>5, <3>1, <3>3
    <3>5. AnswersInOrder(Append(s, e), Live(q))
      BY <3>3 DEF AnswersInOrder, Answer
    <3> QED
      BY <1>1, <1>3, <2>2, <2>3, <3>4, <3>5 DEF RepliesOK
  <2> QED
    BY <2>6, <2>7
<1> QED
  BY <1>2, <1>3


-----------------------------------------------------------------------------
(***************************************************************************)
(* The steps.  A step of one client leaves the others as they are.         *)
(***************************************************************************)
Untouched(d) ==
    /\ unsent'[d] = unsent[d] /\ arrived'[d] = arrived[d] /\ buffer'[d] = buffer[d]
    /\ pc'[d] = pc[d] /\ tick'[d] = tick[d] /\ lost'[d] = lost[d]
    /\ out'[d] = out[d] /\ got'[d] = got[d] /\ executed'[d] = executed[d]

Only(c) == script' = script /\ \A d \in Clients : d # c => Untouched(d)

LEMMA OneClient ==
    ASSUME PipelineInv, Shapes', NEW c \in Clients, Only(c), ClientOK(c)'
    PROVE  PipelineInv'
<1>1. ASSUME NEW d \in Clients PROVE ClientOK(d)'
  <2>1. CASE d = c
    BY <2>1
  <2>2. CASE d # c
    <3>1. ClientOK(d) /\ Untouched(d) /\ script' = script
      BY <2>2 DEF PipelineInv, Only
    <3> QED
      BY <3>1 DEF ClientOK, Untouched
  <2> QED
    BY <2>1, <2>2
<1> QED
  BY <1>1 DEF PipelineInv

LEMMA ArriveStep ==
    ASSUME PipelineInv, NEW c \in Clients, Arrive(c)
    PROVE  PipelineInv'
<1>1. Shapes' /\ Only(c)
  BY DEF Arrive, PipelineInv, Shapes, ByClient, Only, Untouched
<1>2. /\ unsent[c] # <<>> /\ unsent'[c] = Tail(unsent[c]) /\ arrived'[c] = Append(arrived[c], Head(unsent[c]))
      /\ buffer' = buffer /\ executed' = executed /\ pc' = pc /\ tick' = tick
      /\ out' = out /\ got' = got /\ lost' = lost /\ script' = script
  BY DEF Arrive, PipelineInv, Shapes, ByClient
<1>3. ClientOK(c)
  BY DEF PipelineInv
<1>4. InputOK(script[c], Tail(unsent[c]), Append(arrived[c], Head(unsent[c])), buffer[c], executed[c])
  BY <1>2, <1>3, InputArrives DEF ClientOK
<1>5. ClientOK(c)'
  BY <1>2, <1>3, <1>4 DEF ClientOK
<1> QED
  BY <1>1, <1>5, OneClient

LEMMA SendEofStep ==
    ASSUME PipelineInv, NEW c \in Clients, SendEof(c)
    PROVE  PipelineInv'
<1>1. Shapes' /\ Only(c)
  BY DEF SendEof, PipelineInv, Shapes, ByClient, Only, Untouched
<1>2. /\ unsent'[c] = <<>> /\ arrived' = arrived
      /\ buffer' = buffer /\ executed' = executed /\ pc' = pc /\ tick' = tick
      /\ out' = out /\ got' = got /\ lost' = lost /\ script' = script
  BY DEF SendEof, PipelineInv, Shapes, ByClient
<1>3. ClientOK(c)
  BY DEF PipelineInv
<1>4. InputOK(script[c], <<>>, arrived[c], buffer[c], executed[c])
  BY <1>3, InputCut DEF ClientOK
<1>5. ClientOK(c)'
  BY <1>2, <1>3, <1>4 DEF ClientOK
<1> QED
  BY <1>1, <1>5, OneClient

LEMMA LoseStep ==
    ASSUME PipelineInv, NEW c \in Clients, Lose(c)
    PROVE  PipelineInv'
<1>1. Shapes' /\ Only(c)
  BY DEF Lose, PipelineInv, Shapes, ByClient, Only, Untouched
<1>2. /\ unsent'[c] = <<>> /\ arrived' = arrived
      /\ buffer' = buffer /\ executed' = executed /\ pc' = pc /\ tick' = tick
      /\ out'[c] = <<>> /\ got' = got /\ lost'[c] = TRUE /\ script' = script
  BY DEF Lose, PipelineInv, Shapes, ByClient
<1>3. ClientOK(c)
  BY DEF PipelineInv
<1>4. InputOK(script[c], <<>>, arrived[c], buffer[c], executed[c])
  BY <1>3, InputCut DEF ClientOK
<1>5. RepliesOK(script[c], <<>>, got[c], pc[c], executed[c], TRUE)
  BY <1>3, RepliesLost DEF ClientOK
<1>6. PlaceOK(script[c], buffer[c], pc[c], tick[c], <<>>)
  BY <1>3, NoSizes, ServerAssumption DEF ClientOK, PlaceOK
<1>7. ClientOK(c)'
  BY <1>2, <1>4, <1>5, <1>6 DEF ClientOK
<1> QED
  BY <1>1, <1>7, OneClient

LEMMA DeliverStep ==
    ASSUME PipelineInv, NEW c \in Clients, Deliver(c)
    PROVE  PipelineInv'
<1>1. Shapes' /\ Only(c)
  BY DEF Deliver, PipelineInv, Shapes, ByClient, Only, Untouched
<1>2. /\ unsent' = unsent /\ arrived' = arrived
      /\ buffer' = buffer /\ executed' = executed /\ pc' = pc /\ tick' = tick
      /\ out[c] # <<>> /\ out'[c] = Tail(out[c]) /\ got'[c] = Append(got[c], Head(out[c]))
      /\ lost' = lost /\ script' = script
  BY DEF Deliver, PipelineInv, Shapes, ByClient
<1>3. ClientOK(c)
  BY DEF PipelineInv
<1>4. RepliesOK(script[c], Tail(out[c]), Append(got[c], Head(out[c])), pc[c], executed[c], lost[c])
  BY <1>2, <1>3, RepliesDelivered DEF ClientOK
<1>5. PlaceOK(script[c], buffer[c], pc[c], tick[c], Tail(out[c]))
  <2>1. HasSizes(script[c], out[c])
    BY <1>3 DEF ClientOK, RepliesOK
  <2>2. HasSizes(script[c], Tail(out[c])) /\ Total(script[c], Tail(out[c])) <= Total(script[c], out[c])
    BY <1>2, <2>1, TotalTail
  <2>3. Total(script[c], out[c]) \in Nat /\ Total(script[c], Tail(out[c])) \in Nat
    BY <2>1, <2>2, TotalType
  <2>4. Total(script[c], out[c]) <= MaxOutput => Total(script[c], Tail(out[c])) <= MaxOutput
    BY <2>2, <2>3, ServerAssumption
  <2> QED
    BY <1>3, <2>4 DEF ClientOK, PlaceOK
<1>6. ClientOK(c)'
  BY <1>2, <1>3, <1>4, <1>5 DEF ClientOK
<1> QED
  BY <1>1, <1>6, OneClient


LEMMA PipelineLeave ==
    ASSUME PipelineInv, NEW c \in Clients, Leave(c), UNCHANGED <<runtime, script, lost, out, got, executed, logged, phase>>
    PROVE  PipelineInv'
<1>1. Shapes' /\ Only(c)
  BY ServerAssumption DEF Leave, Goto, Drop, Suspend, PipelineInv, Shapes, ByClient, Only, Untouched
<1>2. /\ unsent'[c] = <<>> /\ arrived'[c] = <<>> /\ buffer'[c] = <<>> /\ pc'[c] = "closing" /\ tick'[c] = 0
      /\ executed' = executed /\ out' = out /\ got' = got /\ lost' = lost /\ script' = script
  BY DEF Leave, Goto, Drop, PipelineInv, Shapes, ByClient
<1>3. ClientOK(c)
  BY DEF PipelineInv
<1>4. InputOK(script[c], <<>>, <<>>, <<>>, executed[c])
  BY <1>3, InputDropped DEF ClientOK
<1>5. RepliesOK(script[c], out[c], got[c], "closing", executed[c], lost[c])
  <2>1. ~Live("closing")
    BY DEF Live
  <2> QED
    BY <1>3, <2>1, RepliesStop DEF ClientOK
<1>6. PlaceOK(script[c], <<>>, "closing", 0, out[c])
  BY ServerAssumption DEF PlaceOK, Places, Live
<1>7. ClientOK(c)'
  BY <1>2, <1>4, <1>5, <1>6 DEF ClientOK
<1> QED
  BY <1>1, <1>7, OneClient

LEMMA ReadStep ==
    ASSUME PipelineInv, NEW c \in Clients, Read(c)
    PROVE  PipelineInv'
<1> DEFINE n == IF Len(arrived[c]) < ReadChunk THEN Len(arrived[c]) ELSE ReadChunk
           a == SubSeq(arrived[c], n + 1, Len(arrived[c]))
           b == buffer[c] \o SubSeq(arrived[c], 1, n)
<1>1. /\ pc[c] = "reading" /\ arrived' = [arrived EXCEPT ![c] = a] /\ buffer' = [buffer EXCEPT ![c] = b]
      /\ UNCHANGED <<runtime, script, unsent, eof, lost, tick, got, executed, logged, phase>>
  BY DEF Read
<1>2. ClientOK(c)
  BY DEF PipelineInv
<1>3. n \in 0..Len(arrived[c])
  <2>1. Len(arrived[c]) \in Nat
    BY <1>2, LenProperties DEF ClientOK, InputOK
  <2> QED
    BY <2>1, ServerAssumption
<1>4. InputOK(script[c], unsent[c], a, b, executed[c])
  <2> HIDE DEF n
  <2> QED
    BY <1>2, <1>3, InputRead DEF ClientOK
<1> HIDE DEF n, a, b
<1>5. /\ arrived'[c] = a /\ buffer'[c] = b /\ ByClient(arrived') /\ ByClient(buffer')
      /\ \A d \in Clients : d # c => arrived'[d] = arrived[d] /\ buffer'[d] = buffer[d]
  BY <1>1 DEF PipelineInv, Shapes, ByClient
<1>6. Total(script[c], out[c]) <= MaxOutput /\ tick[c] = 0 /\ Live(pc[c])
  BY <1>1, <1>2 DEF ClientOK, PlaceOK, Live
<1>7. RepliesOK(script[c], out[c], got[c], "reading", executed[c], lost[c])
  BY <1>1, <1>2 DEF ClientOK
<1>8. Len(b) \in Nat
  BY <1>4, LenProperties DEF InputOK
<1>9. CASE Len(b) > MaxInput
  <2> DEFINE e == <<0, "error">>
             v == IF lost[c] THEN <<>> ELSE Append(out[c], e)
  <2>1. Goto(c, "failing") /\ Suspend /\ out' = [out EXCEPT ![c] = v]
    BY <1>5, <1>9 DEF Read, Written, Reply
  <2>2. Shapes' /\ Only(c) /\ pc'[c] = "failing" /\ out'[c] = v
    <3> HIDE DEF v
    <3>1. ByClient(pc') /\ ByClient(out') /\ pc'[c] = "failing" /\ out'[c] = v
          /\ \A d \in Clients : d # c => pc'[d] = pc[d] /\ out'[d] = out[d]
      BY <2>1 DEF PipelineInv, Shapes, ByClient, Goto
    <3>2. turn' = NoClient /\ ran' = 0
      BY <2>1 DEF Suspend
    <3>3. Shapes'
      BY <1>1, <1>5, <3>1, <3>2 DEF PipelineInv, Shapes
    <3> QED
      BY <1>1, <1>5, <3>1, <3>3 DEF Only, Untouched
  <2>3. RepliesOK(script[c], v, got[c], "failing", executed[c], lost[c])
    <3>1. e \in Answers /\ SizeOf(script[c], e) \in Nat
      BY DEF Answers, SizeOf
    <3>2. ~Live("failing") /\ Live("reading")
      BY DEF Live
    <3>3. Len(executed[c]) \in Nat
      BY <1>2, LenProperties DEF ClientOK, InputOK
    <3>4. lost[c] \in BOOLEAN
      BY DEF PipelineInv, Shapes
    <3> HIDE DEF v, e
    <3>5. e = <<0, "error">> /\ v = IF lost[c] THEN <<>> ELSE Append(out[c], e)
      BY DEF v, e
    <3> QED
      BY <1>6, <1>7, <3>1, <3>2, <3>3, <3>4, <3>5, RepliesWritten
  <2>4. PlaceOK(script[c], b, "failing", tick[c], v)
    <3> HIDE DEF v
    <3> QED
      BY <1>6, ServerAssumption DEF PlaceOK, Places, Live
  <2> HIDE DEF v
  <2>5. ClientOK(c)'
    BY <1>1, <1>4, <1>5, <2>2, <2>3, <2>4 DEF ClientOK
  <2> QED
    BY <2>2, <2>5, OneClient
<1>10. CASE ~(Len(b) > MaxInput)
  <2>1. Goto(c, "parsing") /\ GoOn(c) /\ out' = out
    BY <1>5, <1>10 DEF Read
  <2>2. Shapes' /\ Only(c) /\ pc'[c] = "parsing"
    <3>1. ByClient(pc') /\ pc'[c] = "parsing" /\ \A d \in Clients : d # c => pc'[d] = pc[d]
      BY <2>1 DEF PipelineInv, Shapes, ByClient, Goto
    <3>2. turn' = c /\ ran' = ran /\ c # NoClient
      BY <2>1, ServerAssumption DEF GoOn
    <3>3. Shapes'
      BY <1>1, <1>5, <2>1, <3>1, <3>2 DEF PipelineInv, Shapes
    <3> QED
      BY <1>1, <1>5, <2>1, <3>1, <3>3 DEF Only, Untouched
  <2>3. RepliesOK(script[c], out[c], got[c], "parsing", executed[c], lost[c])
    <3>1. Live("reading")
      BY DEF Live
    <3> QED
      BY <1>7, <3>1, RepliesStop
  <2>4. PlaceOK(script[c], b, "parsing", tick[c], out[c])
    <3>1. Len(b) <= MaxInput
      BY <1>8, <1>10, ServerAssumption
    <3> QED
      BY <1>6, <3>1, ServerAssumption DEF PlaceOK, Places, Live
  <2>5. ClientOK(c)'
    BY <1>1, <1>4, <1>5, <2>1, <2>2, <2>3, <2>4 DEF ClientOK
  <2> QED
    BY <2>2, <2>5, OneClient
<1> QED
  BY <1>9, <1>10


LEMMA RejectStep ==
    ASSUME PipelineInv, NEW c \in Clients, Reject(c)
    PROVE  PipelineInv'
<1> DEFINE e == <<0, "error">>
           v == IF lost[c] THEN <<>> ELSE Append(out[c], e)
<1>1. /\ pc[c] = "parsing" /\ out' = [out EXCEPT ![c] = v] /\ Goto(c, "failing") /\ Suspend
      /\ UNCHANGED <<runtime, script, unsent, arrived, eof, lost, buffer, tick, got, executed, logged, phase>>
  BY DEF Reject, Running, Written, Reply
<1>2. ClientOK(c)
  BY DEF PipelineInv
<1>3. /\ Total(script[c], out[c]) <= MaxOutput /\ tick[c] \in 0..MaxCommandsPerTick
      /\ RepliesOK(script[c], out[c], got[c], "parsing", executed[c], lost[c])
  BY <1>1, <1>2 DEF ClientOK, PlaceOK
<1>4. Shapes' /\ Only(c) /\ pc'[c] = "failing" /\ out'[c] = v
  <2> HIDE DEF v
  <2>1. ByClient(pc') /\ ByClient(out') /\ pc'[c] = "failing" /\ out'[c] = v
        /\ \A d \in Clients : d # c => pc'[d] = pc[d] /\ out'[d] = out[d]
    BY <1>1 DEF PipelineInv, Shapes, ByClient, Goto
  <2>2. turn' = NoClient /\ ran' = 0
    BY <1>1 DEF Suspend
  <2>3. Shapes'
    BY <1>1, <2>1, <2>2 DEF PipelineInv, Shapes
  <2> QED
    BY <1>1, <2>1, <2>3 DEF Only, Untouched
<1>5. RepliesOK(script[c], v, got[c], "failing", executed[c], lost[c])
  <2>1. e \in Answers /\ SizeOf(script[c], e) \in Nat
    BY DEF Answers, SizeOf
  <2>2. ~Live("failing") /\ Live("parsing")
    BY DEF Live
  <2>3. Len(executed[c]) \in Nat
    BY <1>2, LenProperties DEF ClientOK, InputOK
  <2>4. lost[c] \in BOOLEAN
    BY DEF PipelineInv, Shapes
  <2> HIDE DEF v, e
  <2>5. e = <<0, "error">> /\ v = IF lost[c] THEN <<>> ELSE Append(out[c], e)
    BY DEF v, e
  <2> QED
    BY <1>3, <2>1, <2>2, <2>3, <2>4, <2>5, RepliesWritten
<1>6. PlaceOK(script[c], buffer[c], "failing", tick[c], v)
  <2> HIDE DEF v
  <2> QED
    BY <1>3 DEF PlaceOK, Places, Live
<1> HIDE DEF v
<1>7. ClientOK(c)'
  BY <1>1, <1>2, <1>4, <1>5, <1>6 DEF ClientOK
<1> QED
  BY <1>4, <1>7, OneClient

\* The request at the front is executed: it is the next one, and what remains
\* starts with the one after it.
LEMMA FrontIsNext ==
    ASSUME PipelineInv, NEW c \in Clients, Running(c), Complete(c),
           NEW r, r = FirstOf(buffer[c]), NEW k, k = PiecesIn(script[c], r)
    PROVE  /\ InputOK(script[c], unsent[c], arrived[c], After(buffer[c], k), Append(executed[c], r))
           /\ r \in Nat \ {0} /\ r = Len(executed[c]) + 1 /\ Len(Append(executed[c], r)) = r
           /\ Len(executed[c]) \in Nat /\ Len(After(buffer[c], k)) <= MaxInput
           /\ SizeOf(script[c], <<r, "ok">>) \in Nat
           /\ RepliesOK(script[c], out[c], got[c], "parsing", executed[c], lost[c])
           /\ Total(script[c], out[c]) <= MaxOutput
           /\ tick[c] \in Nat /\ tick[c] < MaxCommandsPerTick
<1>1. ClientOK(c) /\ pc[c] = "parsing" /\ script[c] \in Seq(Requests)
  BY ScriptType DEF PipelineInv, Running
<1>2. InputOK(script[c], unsent[c], arrived[c], buffer[c], executed[c])
  BY <1>1 DEF ClientOK
<1>3. Whole(script[c], buffer[c])
  BY DEF Complete, FrontRequest, Whole
<1>5. /\ InputOK(script[c], unsent[c], arrived[c], After(buffer[c], k), Append(executed[c], r))
      /\ r = Len(executed[c]) + 1 /\ r \in Nat \ {0} /\ Len(Append(executed[c], r)) = r
      /\ Len(After(buffer[c], k)) <= Len(buffer[c])
      /\ SizeOf(script[c], <<r, "ok">>) \in Nat
  <2> DEFINE q == script[c]
             b == buffer[c]
             x == executed[c]
             u == unsent[c]
             a == arrived[c]
  <2>1. q \in Seq(Requests) /\ InputOK(q, u, a, b, x) /\ Whole(q, b) /\ r = FirstOf(b) /\ k = PiecesIn(q, r)
    BY <1>1, <1>2, <1>3
  <2> HIDE DEF q, b, x, u, a
  <2>2. InputOK(q, u, a, After(b, k), Append(x, r))
    BY <2>1, InputExecuted
  <2>3. r = Len(x) + 1 /\ r \in Nat \ {0} /\ Len(Append(x, r)) = r
    <3> DEFINE y == Append(x, r)
    <3>1. x \in Seq(Nat \ {0}) /\ Len(x) \in Nat
      BY <2>1, InputSplit, LenProperties
    <3>2. y[Len(x) + 1] = r /\ Len(y) = Len(x) + 1
      BY <3>1
    <3>3. y = [i \in 1..Len(y) |-> i]
      BY <2>2, InputSplit
    <3>4. r = Len(x) + 1
      <4> HIDE DEF y
      <4>1. Len(x) + 1 \in 1..Len(y)
        BY <3>1, <3>2
      <4> QED
        BY <3>2, <3>3, <4>1
    <3>5. r \in Nat \ {0}
      BY <3>4, <3>1
    <3> QED
      BY <3>4, <3>1, <3>5, AppendProperties
  <2>4. Len(After(b, k)) <= Len(b)
    BY <2>1, InputExecuted
  <2>5. SizeOf(q, <<r, "ok">>) \in Nat
    BY <2>1, InputExecuted
  <2> QED
    BY <2>2, <2>3, <2>4, <2>5 DEF q, b, x, u, a
<1>6. Len(buffer[c]) <= MaxInput /\ Len(buffer[c]) \in Nat /\ Len(After(buffer[c], k)) \in Nat /\ Len(executed[c]) \in Nat
  <2>1. Len(buffer[c]) <= MaxInput
    BY <1>1 DEF ClientOK, PlaceOK, Live
  <2>2. buffer[c] \in Seq(Pieces) /\ After(buffer[c], k) \in Seq(Pieces) /\ executed[c] \in Seq(Nat \ {0})
    BY <1>2, <1>5, InputSplit
  <2> QED
    BY <2>1, <2>2, LenProperties
<1>7. Len(After(buffer[c], k)) <= MaxInput
  BY <1>5, <1>6, ServerAssumption
<1>8. /\ RepliesOK(script[c], out[c], got[c], "parsing", executed[c], lost[c])
      /\ Total(script[c], out[c]) <= MaxOutput
      /\ tick[c] \in Nat /\ tick[c] < MaxCommandsPerTick
  BY <1>1, ServerAssumption DEF ClientOK, PlaceOK
<1> QED
  BY <1>5, <1>6, <1>7, <1>8


LEMMA ExecuteUnloggedStep ==
    ASSUME PipelineInv, NEW c \in Clients, ExecuteUnlogged(c)
    PROVE  PipelineInv'
<1> DEFINE r == FirstOf(buffer[c])
           k == PiecesIn(script[c], r)
           b == After(buffer[c], k)
           x == Append(executed[c], r)
           e == <<r, "error">>
           v == IF lost[c] THEN <<>> ELSE Append(out[c], e)
<1>1. /\ buffer' = [buffer EXCEPT ![c] = b] /\ executed' = [executed EXCEPT ![c] = x]
      /\ out' = [out EXCEPT ![c] = v] /\ logged' \in {logged, logged \cup {<<c, r>>}}
      /\ Goto(c, "failing") /\ Suspend
      /\ UNCHANGED <<runtime, script, unsent, arrived, eof, lost, tick, got, phase>>
  BY DEF ExecuteUnlogged, Written, Reply, FrontRequest, FirstOf, PiecesIn, After
<1>2. ClientOK(c)
  BY DEF PipelineInv
<1>3. r = FirstOf(buffer[c]) /\ k = PiecesIn(script[c], r)
  OBVIOUS
<1>4. Running(c) /\ Complete(c)
  BY DEF ExecuteUnlogged
<1> HIDE DEF r, k
<1>5. /\ InputOK(script[c], unsent[c], arrived[c], b, x)
      /\ r \in Nat \ {0} /\ r = Len(executed[c]) + 1 /\ Len(x) = r
      /\ Len(executed[c]) \in Nat /\ Len(b) <= MaxInput
      /\ RepliesOK(script[c], out[c], got[c], "parsing", executed[c], lost[c])
      /\ Total(script[c], out[c]) <= MaxOutput
      /\ tick[c] \in Nat /\ tick[c] < MaxCommandsPerTick
  BY <1>3, <1>4, FrontIsNext
<1> HIDE DEF b, x, v
<1>6. /\ Shapes' /\ Only(c)
      /\ buffer'[c] = b /\ executed'[c] = x /\ out'[c] = v /\ pc'[c] = "failing"
  <2>1. /\ ByClient(buffer') /\ ByClient(executed') /\ ByClient(out')
        /\ buffer'[c] = b /\ executed'[c] = x /\ out'[c] = v
        /\ \A d \in Clients : d # c => buffer'[d] = buffer[d] /\ executed'[d] = executed[d] /\ out'[d] = out[d]
    BY <1>1 DEF PipelineInv, Shapes, ByClient
  <2>2. ByClient(pc') /\ pc'[c] = "failing" /\ \A d \in Clients : d # c => pc'[d] = pc[d]
    BY <1>1 DEF PipelineInv, Shapes, ByClient, Goto
  <2>3. turn' = NoClient /\ ran' = 0
    BY <1>1 DEF Suspend
  <2>4. logged' \subseteq Clients \X (Nat \ {0})
    BY <1>1, <1>5 DEF PipelineInv, Shapes
  <2>5. Shapes'
    BY <1>1, <2>1, <2>2, <2>3, <2>4 DEF PipelineInv, Shapes
  <2> QED
    BY <1>1, <2>1, <2>2, <2>5 DEF Only, Untouched
<1>7. RepliesOK(script[c], v, got[c], "failing", x, lost[c])
  <2>1. e \in Answers /\ SizeOf(script[c], e) \in Nat
    BY <1>5 DEF Answers, SizeOf
  <2>2. ~Live("failing") /\ Live("parsing")
    BY DEF Live
  <2>3. lost[c] \in BOOLEAN
    BY DEF PipelineInv, Shapes
  <2>4. e = <<Len(executed[c]) + 1, "error">> /\ Len(x) = Len(executed[c]) + 1
    BY <1>5
  <2> HIDE DEF e
  <2>5. v = IF lost[c] THEN <<>> ELSE Append(out[c], e)
    BY DEF v, e
  <2> QED
    BY <1>5, <2>1, <2>2, <2>3, <2>4, <2>5, RepliesWritten
<1>8. PlaceOK(script[c], b, "failing", tick[c], v)
  BY <1>5, ServerAssumption DEF PlaceOK, Places, Live
<1>9. ClientOK(c)'
  BY <1>1, <1>5, <1>6, <1>7, <1>8 DEF ClientOK
<1> QED
  BY <1>6, <1>9, OneClient

LEMMA ExecuteStep ==
    ASSUME PipelineInv, NEW c \in Clients, Execute(c)
    PROVE  PipelineInv'
<1> DEFINE r == FirstOf(buffer[c])
           k == PiecesIn(script[c], r)
           b == After(buffer[c], k)
           x == Append(executed[c], r)
           e == <<r, "ok">>
           v == IF lost[c] THEN <<>> ELSE Append(out[c], e)
<1>1. /\ buffer' = [buffer EXCEPT ![c] = b] /\ executed' = [executed EXCEPT ![c] = x]
      /\ out' = [out EXCEPT ![c] = v] /\ logged' \in {logged, logged \cup {<<c, r>>}}
      /\ AfterReply(c, tick[c] + 1)
      /\ UNCHANGED <<runtime, script, unsent, arrived, eof, lost, got, phase>>
  BY DEF Execute, Written, Reply, FrontRequest, FirstOf, PiecesIn, After
<1>2. ClientOK(c)
  BY DEF PipelineInv
<1>3. r = FirstOf(buffer[c]) /\ k = PiecesIn(script[c], r)
  OBVIOUS
<1>4. Running(c) /\ Complete(c)
  BY DEF Execute
<1> HIDE DEF r, k
<1>5. /\ InputOK(script[c], unsent[c], arrived[c], b, x)
      /\ r \in Nat \ {0} /\ r = Len(executed[c]) + 1 /\ Len(x) = r
      /\ Len(executed[c]) \in Nat /\ Len(b) <= MaxInput /\ SizeOf(script[c], e) \in Nat
      /\ RepliesOK(script[c], out[c], got[c], "parsing", executed[c], lost[c])
      /\ Total(script[c], out[c]) <= MaxOutput
      /\ tick[c] \in Nat /\ tick[c] < MaxCommandsPerTick
  BY <1>3, <1>4, FrontIsNext
<1> HIDE DEF b, x, v
<1>6. /\ buffer'[c] = b /\ executed'[c] = x /\ out'[c] = v
      /\ ByClient(buffer') /\ ByClient(executed') /\ ByClient(out')
      /\ \A d \in Clients : d # c => buffer'[d] = buffer[d] /\ executed'[d] = executed[d] /\ out'[d] = out[d]
  BY <1>1 DEF PipelineInv, Shapes, ByClient
<1>7. ASSUME NEW q \in {"parsing", "flushing", "yielded"}, NEW t, Goto(c, q), tick' = [tick EXCEPT ![c] = t],
             turn' \in {NoClient, c}, ran' \in Nat, turn' = NoClient => ran' = 0,
             PlaceOK(script[c], b, q, t, v)
      PROVE  PipelineInv'
  <2>1. /\ ByClient(pc') /\ ByClient(tick') /\ pc'[c] = q /\ tick'[c] = t
        /\ \A d \in Clients : d # c => pc'[d] = pc[d] /\ tick'[d] = tick[d]
    BY <1>7 DEF PipelineInv, Shapes, ByClient, Goto
  <2>2. Shapes' /\ Only(c)
    <3>1. logged' \subseteq Clients \X (Nat \ {0})
      BY <1>1, <1>5 DEF PipelineInv, Shapes
    <3>2. Shapes'
      BY <1>1, <1>6, <1>7, <2>1, <3>1 DEF PipelineInv, Shapes
    <3> QED
      BY <1>1, <1>6, <2>1, <3>2 DEF Only, Untouched
  <2>3. RepliesOK(script[c], v, got[c], q, x, lost[c])
    <3>1. e \in Answers
      BY <1>5 DEF Answers
    <3>2. Live("parsing")
      BY DEF Live
    <3>3. lost[c] \in BOOLEAN
      BY DEF PipelineInv, Shapes
    <3>4. e = <<Len(executed[c]) + 1, "ok">> /\ Len(x) = Len(executed[c]) + 1
      BY <1>5
    <3> HIDE DEF e
    <3>5. v = IF lost[c] THEN <<>> ELSE Append(out[c], e)
      BY DEF v, e
    <3> QED
      BY <1>5, <3>1, <3>2, <3>3, <3>4, <3>5, RepliesWritten
  <2>4. ClientOK(c)'
    BY <1>1, <1>5, <1>6, <1>7, <2>1, <2>3 DEF ClientOK
  <2> QED
    BY <2>2, <2>4, OneClient
<1>8. HasSizes(script[c], v)
  <2>1. HasSizes(script[c], out[c]) /\ e \in Nat \X {"ok", "error"}
    BY <1>5 DEF RepliesOK
  <2> HIDE DEF e
  <2> QED
    BY <1>5, <2>1, TotalAppend, NoSizes DEF v, e
<1>9. OutSize(c, v) = Total(script[c], v) /\ Total(script[c], v) \in Nat /\ MaxOutput \in Nat
  BY <1>8, OutSizeIsTotal, TotalType, ServerAssumption
<1>10. tick[c] + 1 \in 0..MaxCommandsPerTick /\ MaxCommandsPerTick \in Nat \ {0}
  BY <1>5, ServerAssumption
<1>11. NoClient # c /\ ran \in Nat
  BY ServerAssumption DEF PipelineInv, Shapes
<1>12. CASE OutSize(c, out'[c]) > MaxOutput
  <2>1. Goto(c, "flushing") /\ Suspend /\ tick' = [tick EXCEPT ![c] = tick[c] + 1]
    BY <1>1, <1>12 DEF AfterReply
  <2>2. PlaceOK(script[c], b, "flushing", tick[c] + 1, v)
    BY <1>5, <1>10 DEF PlaceOK, Places, Live
  <2> QED
    BY <1>7, <2>1, <2>2 DEF Suspend
<1>13. CASE ~(OutSize(c, out'[c]) > MaxOutput)
  <2>1. Total(script[c], v) <= MaxOutput
    <3>1. ~(Total(script[c], v) > MaxOutput)
      BY <1>6, <1>9, <1>13
    <3> QED
      BY <1>9, <3>1
  <2>2. CASE tick[c] + 1 < MaxCommandsPerTick
    <3>1. Goto(c, "parsing") /\ turn' = c /\ ran' = ran + 1 /\ tick' = [tick EXCEPT ![c] = tick[c] + 1]
      BY <1>1, <1>13, <2>2 DEF AfterReply
    <3>2. PlaceOK(script[c], b, "parsing", tick[c] + 1, v)
      BY <1>5, <1>10, <2>1, <2>2 DEF PlaceOK, Places, Live
    <3>3. turn' \in {NoClient, c} /\ ran' \in Nat /\ (turn' = NoClient => ran' = 0)
      BY <1>11, <3>1
    <3> QED
      BY <1>7, <3>1, <3>2, <3>3
  <2>3. CASE ~(tick[c] + 1 < MaxCommandsPerTick)
    <3>1. Goto(c, "yielded") /\ Suspend /\ tick' = [tick EXCEPT ![c] = 0]
      BY <1>1, <1>13, <2>3 DEF AfterReply
    <3>2. PlaceOK(script[c], b, "yielded", 0, v)
      BY <1>5, <1>10, <2>1 DEF PlaceOK, Places, Live
    <3> QED
      BY <1>7, <3>1, <3>2 DEF Suspend
  <2> QED
    BY <2>2, <2>3
<1> QED
  BY <1>12, <1>13


\* The task goes on, to another place, with its buffers as they are.
LEMMA MoveStep ==
    ASSUME PipelineInv, NEW c \in Clients, NEW q, NEW t, Goto(c, q), tick' = [tick EXCEPT ![c] = t],
           turn' \in Clients \cup {NoClient}, ran' \in Nat, turn' = NoClient => ran' = 0,
           UNCHANGED <<runtime, script, unsent, arrived, eof, lost, buffer, out, got, executed, logged, phase>>,
           Live(q) => Live(pc[c]), PlaceOK(script[c], buffer[c], q, t, out[c])
    PROVE  PipelineInv'
<1>1. /\ ByClient(pc') /\ ByClient(tick') /\ pc'[c] = q /\ tick'[c] = t
      /\ \A d \in Clients : d # c => pc'[d] = pc[d] /\ tick'[d] = tick[d]
  BY DEF PipelineInv, Shapes, ByClient, Goto
<1>2. Shapes'
  BY <1>1 DEF PipelineInv, Shapes
<1>3. Only(c)
  BY <1>1 DEF Only, Untouched
<1>4. ClientOK(c)
  BY DEF PipelineInv
<1>5. RepliesOK(script[c], out[c], got[c], q, executed[c], lost[c])
  BY <1>4, RepliesStop DEF ClientOK
<1>6. ClientOK(c)'
  BY <1>1, <1>4, <1>5 DEF ClientOK
<1> QED
  BY <1>2, <1>3, <1>6, OneClient

LEMMA SameTick ==
    ASSUME PipelineInv, NEW c \in Clients, UNCHANGED tick
    PROVE  tick' = [tick EXCEPT ![c] = tick[c]]
BY DEF PipelineInv, Shapes, ByClient

LEMMA EndOfChunkStep ==
    ASSUME PipelineInv, NEW c \in Clients, EndOfChunk(c)
    PROVE  PipelineInv'
<1>1. CASE Leave(c)
  BY <1>1, PipelineLeave DEF EndOfChunk
<1>2. CASE ~Leave(c)
  <2>1. /\ pc[c] = "parsing" /\ turn = c /\ ~Complete(c)
        /\ Goto(c, "reading") /\ tick' = [tick EXCEPT ![c] = 0]
        /\ Suspend \/ GoOn(c)
        /\ UNCHANGED <<runtime, script, unsent, arrived, eof, lost, buffer, out, got, executed, logged, phase>>
    BY <1>2 DEF EndOfChunk, Running
  <2>2. turn' \in Clients \cup {NoClient} /\ ran' \in Nat /\ (turn' = NoClient => ran' = 0)
    BY <2>1, ServerAssumption DEF Suspend, GoOn, PipelineInv, Shapes
  <2>3. ~Whole(script[c], buffer[c])
    BY <2>1 DEF Complete, FrontRequest, Whole
  <2>4. PlaceOK(script[c], buffer[c], "reading", 0, out[c])
    <3>1. PlaceOK(script[c], buffer[c], "parsing", tick[c], out[c])
      BY <2>1 DEF PipelineInv, ClientOK
    <3> QED
      BY <2>3, <3>1, ServerAssumption DEF PlaceOK, Places, Live
  <2>5. Live("parsing")
    BY DEF Live
  <2> QED
    BY <2>1, <2>2, <2>4, <2>5, MoveStep
<1> QED
  BY <1>1, <1>2

LEMMA FlushDoneStep ==
    ASSUME PipelineInv, NEW c \in Clients, FlushDone(c)
    PROVE  PipelineInv'
<1>1. /\ pc[c] = "flushing" /\ turn = NoClient
      /\ OutSize(c, out[c]) <= MaxOutput \div 2 \/ out[c] = <<>>
      /\ UNCHANGED <<runtime, script, unsent, arrived, eof, lost, buffer, out, got, executed, logged, phase>>
  BY DEF FlushDone, Ready
<1>2. PlaceOK(script[c], buffer[c], "flushing", tick[c], out[c]) /\ HasSizes(script[c], out[c])
  BY <1>1 DEF PipelineInv, ClientOK, RepliesOK
<1>3. Total(script[c], out[c]) <= MaxOutput
  <2>1. OutSize(c, out[c]) = Total(script[c], out[c]) /\ Total(script[c], out[c]) \in Nat /\ MaxOutput \in Nat
    BY <1>2, OutSizeIsTotal, TotalType, ServerAssumption
  <2>2. CASE out[c] = <<>>
    BY <2>1, <2>2, NoSizes
  <2>3. CASE OutSize(c, out[c]) <= MaxOutput \div 2
    <3>1. Total(script[c], out[c]) <= MaxOutput \div 2
      BY <2>1, <2>3
    <3>2. MaxOutput \div 2 <= MaxOutput /\ MaxOutput \div 2 \in Int
      BY <2>1
    <3> QED
      BY <2>1, <3>1, <3>2
  <2> QED
    BY <1>1, <2>2, <2>3
<1>4. Live("flushing")
  BY DEF Live
<1>5. ran \in Nat /\ c # NoClient /\ (turn = NoClient => ran = 0)
  BY ServerAssumption DEF PipelineInv, Shapes
<1>6. CASE tick[c] < MaxCommandsPerTick
  <2>1. Goto(c, "parsing") /\ GoOn(c) /\ UNCHANGED tick
    BY <1>6 DEF FlushDone
  <2>2. tick' = [tick EXCEPT ![c] = tick[c]]
    BY <2>1, SameTick
  <2>3. PlaceOK(script[c], buffer[c], "parsing", tick[c], out[c])
    BY <1>2, <1>3, <1>6 DEF PlaceOK, Places, Live
  <2>4. turn' \in Clients \cup {NoClient} /\ ran' \in Nat /\ (turn' = NoClient => ran' = 0)
    BY <1>5, <2>1 DEF GoOn
  <2> QED
    BY <1>1, <1>4, <2>1, <2>2, <2>3, <2>4, MoveStep
<1>7. CASE ~(tick[c] < MaxCommandsPerTick)
  <2>1. Goto(c, "yielded") /\ Suspend /\ tick' = [tick EXCEPT ![c] = 0]
    BY <1>7 DEF FlushDone
  <2>2. PlaceOK(script[c], buffer[c], "yielded", 0, out[c])
    BY <1>2, <1>3, ServerAssumption DEF PlaceOK, Places, Live
  <2>3. turn' \in Clients \cup {NoClient} /\ ran' \in Nat /\ (turn' = NoClient => ran' = 0)
    BY <2>1 DEF Suspend
  <2> QED
    BY <1>1, <1>4, <2>1, <2>2, <2>3, MoveStep
<1> QED
  BY <1>6, <1>7

LEMMA ResumeStep ==
    ASSUME PipelineInv, NEW c \in Clients, Resume(c)
    PROVE  PipelineInv'
<1>1. CASE Leave(c)
  BY <1>1, PipelineLeave DEF Resume
<1>2. CASE Goto(c, "parsing") /\ GoOn(c) /\ UNCHANGED <<unsent, arrived, eof, buffer, tick>>
  <2>1. /\ pc[c] = "yielded"
        /\ UNCHANGED <<runtime, script, unsent, arrived, eof, lost, buffer, out, got, executed, logged, phase>>
    BY <1>2 DEF Resume, Ready
  <2>2. tick' = [tick EXCEPT ![c] = tick[c]]
    BY <1>2, SameTick
  <2>3. PlaceOK(script[c], buffer[c], "parsing", tick[c], out[c])
    <3>1. PlaceOK(script[c], buffer[c], "yielded", tick[c], out[c])
      BY <2>1 DEF PipelineInv, ClientOK
    <3> QED
      BY <3>1, ServerAssumption DEF PlaceOK, Places, Live
  <2>4. turn' \in Clients \cup {NoClient} /\ ran' \in Nat /\ (turn' = NoClient => ran' = 0)
    BY <1>2, ServerAssumption DEF GoOn, PipelineInv, Shapes
  <2>5. Live("yielded")
    BY DEF Live
  <2> QED
    BY <1>2, <2>1, <2>2, <2>3, <2>4, <2>5, MoveStep
<1> QED
  BY <1>1, <1>2 DEF Resume

LEMMA ClosedStep ==
    ASSUME PipelineInv, NEW c \in Clients, Closed(c)
    PROVE  PipelineInv'
<1>1. /\ pc[c] = "closing" /\ Goto(c, "closed") /\ turn' = turn /\ ran' = ran /\ UNCHANGED tick
      /\ UNCHANGED <<runtime, script, unsent, arrived, eof, lost, buffer, out, got, executed, logged, phase>>
  BY DEF Closed, Ready
<1>2. tick' = [tick EXCEPT ![c] = tick[c]]
  BY <1>1, SameTick
<1>3. PlaceOK(script[c], buffer[c], "closed", tick[c], out[c])
  BY <1>1 DEF PipelineInv, ClientOK, PlaceOK, Places, Live
<1>4. turn' \in Clients \cup {NoClient} /\ ran' \in Nat /\ (turn' = NoClient => ran' = 0)
  BY <1>1 DEF PipelineInv, Shapes
<1>5. ~Live("closed")
  BY DEF Live
<1> QED
  BY <1>1, <1>2, <1>3, <1>4, <1>5, MoveStep

\* The steps of the server as a whole.
LEMMA CancelStep ==
    ASSUME PipelineInv, Cancel
    PROVE  PipelineInv'
<1>1. PICK missed \in SUBSET Clients :
         LET Kept(f, empty) == [c \in Clients |-> IF c \in missed THEN f[c] ELSE empty]
         IN  /\ pc' = [c \in Clients |-> IF c \in missed THEN pc[c]
                                      ELSE IF pc[c] \in {"closing", "closed"} THEN "closed"
                                      ELSE "closing"]
             /\ buffer' = Kept(buffer, <<>>) /\ arrived' = Kept(arrived, <<>>)
             /\ unsent' = Kept(unsent, <<>>) /\ tick' = Kept(tick, 0) /\ eof' = Kept(eof, TRUE)
  BY DEF Cancel
<1>2. /\ phase' = "cancelled" /\ turn = NoClient
      /\ UNCHANGED <<runtime, script, lost, out, got, executed, logged, turn, ran>>
  BY DEF Cancel
<1>3. /\ ByClient(pc') /\ ByClient(buffer') /\ ByClient(arrived') /\ ByClient(unsent') /\ ByClient(tick')
      /\ eof' \in [Clients -> BOOLEAN]
  BY <1>1 DEF PipelineInv, Shapes, ByClient
<1>4. Shapes'
  BY <1>2, <1>3 DEF PipelineInv, Shapes
<1>5. ASSUME NEW c \in Clients PROVE ClientOK(c)'
  <2>1. ClientOK(c)
    BY DEF PipelineInv
  <2>2. CASE c \in missed
    <3>1. /\ pc'[c] = pc[c] /\ buffer'[c] = buffer[c] /\ arrived'[c] = arrived[c] /\ unsent'[c] = unsent[c]
          /\ tick'[c] = tick[c]
      BY <1>1, <2>2
    <3> QED
      BY <1>2, <2>1, <3>1 DEF ClientOK
  <2>3. CASE c \notin missed
    <3>1. /\ buffer'[c] = <<>> /\ arrived'[c] = <<>> /\ unsent'[c] = <<>> /\ tick'[c] = 0
          /\ pc'[c] \in {"closing", "closed"}
      BY <1>1, <2>3
    <3> DEFINE q == pc'[c]
    <3>2. ~Live(q)
      BY <3>1 DEF Live
    <3>3. InputOK(script[c], <<>>, <<>>, <<>>, executed[c])
      BY <2>1, InputDropped DEF ClientOK
    <3>4. PlaceOK(script[c], <<>>, q, 0, out[c])
      BY <3>1, <3>2, ServerAssumption DEF PlaceOK, Places
    <3> HIDE DEF q
    <3>5. RepliesOK(script[c], out[c], got[c], q, executed[c], lost[c])
      BY <2>1, <3>2, RepliesStop DEF ClientOK
    <3> QED
      BY <1>2, <3>1, <3>3, <3>4, <3>5 DEF ClientOK, q
  <2> QED
    BY <2>2, <2>3
<1> QED
  BY <1>4, <1>5 DEF PipelineInv

LEMMA ServerStep ==
    ASSUME PipelineInv, Stop \/ CloseLog \/ StopAgain \/ Ended \/ UNCHANGED vars
    PROVE  PipelineInv'
<1>1. UNCHANGED clientVars /\ UNCHANGED <<logged, turn, ran>>
  BY DEF Stop, CloseLog, StopAgain, Ended, vars
<1>2. phase' \in {"serving", "stopping", "closed", "cancelled"}
  BY DEF Stop, CloseLog, StopAgain, Ended, vars, PipelineInv, Shapes
<1>3. Shapes'
  BY <1>1, <1>2 DEF PipelineInv, Shapes, clientVars
<1>4. ASSUME NEW c \in Clients PROVE ClientOK(c)'
  BY <1>1 DEF PipelineInv, ClientOK, clientVars
<1> QED
  BY <1>3, <1>4 DEF PipelineInv

LEMMA PipelineStep == PipelineInv /\ [Next]_vars => PipelineInv'
<1> SUFFICES ASSUME PipelineInv, [Next]_vars PROVE PipelineInv'
  OBVIOUS
<1>1. ASSUME NEW c \in Clients, Task(c) PROVE PipelineInv'
  <2>1. CASE LeaveReading(c)
    BY <2>1, PipelineLeave DEF LeaveReading
  <2>2. CASE FlushFails(c)
    BY <2>2, PipelineLeave DEF FlushFails
  <2>3. CASE LeaveFailing(c)
    BY <2>3, PipelineLeave DEF LeaveFailing
  <2> QED
    BY <1>1, <2>1, <2>2, <2>3, ReadStep, ExecuteStep, ExecuteUnloggedStep, RejectStep, EndOfChunkStep,
       FlushDoneStep, ResumeStep, ClosedStep DEF Task
<1>2. ASSUME NEW c \in Clients, Environment(c) PROVE PipelineInv'
  BY <1>2, ArriveStep, SendEofStep, LoseStep, DeliverStep DEF Environment
<1> QED
  BY <1>1, <1>2, CancelStep, ServerStep DEF Next


LEMMA PipelineAlways == Spec => []PipelineInv
<1> QED
  BY PipelineInit, PipelineStep, PTL DEF Spec

-----------------------------------------------------------------------------
(***************************************************************************)
(* What follows for each client.                                           *)
(***************************************************************************)

\* Every variable has its type; a task that waits for input has a whole
\* command budget, whichever way it came to wait (handle_client).
THEOREM TypeCorrect == Spec => []TypeOK
<1>1. PipelineInv => TypeOK
  <2> SUFFICES ASSUME PipelineInv PROVE TypeOK
    OBVIOUS
  <2>1. ASSUME NEW c \in Clients
        PROVE  /\ unsent[c] \in Seq(Nat \X Nat) /\ arrived[c] \in Seq(Nat \X Nat) /\ buffer[c] \in Seq(Nat \X Nat)
               /\ out[c] \in Seq(Nat \X {"ok", "error"}) /\ got[c] \in Seq(Nat \X {"ok", "error"})
               /\ executed[c] \in Seq(Nat \ {0}) /\ pc[c] \in Places /\ tick[c] \in 0..MaxCommandsPerTick
               /\ (pc[c] = "reading" => tick[c] = 0)
    <3>1. ClientOK(c)
      BY DEF PipelineInv
    <3>2. unsent[c] \in Seq(Nat \X Nat) /\ arrived[c] \in Seq(Nat \X Nat) /\ buffer[c] \in Seq(Nat \X Nat)
      BY <3>1 DEF ClientOK, InputOK, Pieces
    <3>3. executed[c] \in Seq(Nat \ {0})
      BY <3>1 DEF ClientOK, InputOK
    <3>4. out[c] \in Seq(Nat \X {"ok", "error"}) /\ got[c] \in Seq(Nat \X {"ok", "error"})
      BY <3>1 DEF ClientOK, RepliesOK, HasSizes, Answers
    <3>5. pc[c] \in Places /\ tick[c] \in 0..MaxCommandsPerTick /\ (pc[c] = "reading" => tick[c] = 0)
      BY <3>1 DEF ClientOK, PlaceOK
    <3> QED
      BY <3>2, <3>3, <3>4, <3>5
  <2>2. ASSUME NEW f, NEW S, ByClient(f), \A c \in Clients : f[c] \in S PROVE f \in [Clients -> S]
    BY <2>2 DEF ByClient
  <2>3. Shapes
    BY DEF PipelineInv
  <2>4. /\ unsent \in [Clients -> Seq(Nat \X Nat)] /\ arrived \in [Clients -> Seq(Nat \X Nat)]
        /\ buffer \in [Clients -> Seq(Nat \X Nat)]
    <3> DEFINE S == Seq(Nat \X Nat)
    <3>1. \A c \in Clients : unsent[c] \in S /\ arrived[c] \in S /\ buffer[c] \in S
      BY <2>1
    <3> HIDE DEF S
    <3>2. unsent \in [Clients -> S] /\ arrived \in [Clients -> S] /\ buffer \in [Clients -> S]
      BY <2>2, <2>3, <3>1 DEF Shapes
    <3> QED
      BY <3>2 DEF S
  <2>5. out \in [Clients -> Seq(Nat \X {"ok", "error"})] /\ got \in [Clients -> Seq(Nat \X {"ok", "error"})]
    <3> DEFINE S == Seq(Nat \X {"ok", "error"})
    <3>1. \A c \in Clients : out[c] \in S /\ got[c] \in S
      BY <2>1
    <3> HIDE DEF S
    <3>2. out \in [Clients -> S] /\ got \in [Clients -> S]
      BY <2>2, <2>3, <3>1 DEF Shapes
    <3> QED
      BY <3>2 DEF S
  <2>6. executed \in [Clients -> Seq(Nat \ {0})]
    <3> DEFINE S == Seq(Nat \ {0})
    <3>1. \A c \in Clients : executed[c] \in S
      BY <2>1
    <3> HIDE DEF S
    <3>2. executed \in [Clients -> S]
      BY <2>2, <2>3, <3>1 DEF Shapes
    <3> QED
      BY <3>2 DEF S
  <2>7. pc \in [Clients -> Places] /\ tick \in [Clients -> 0..MaxCommandsPerTick]
    BY <2>1, <2>3 DEF Shapes, ByClient
  <2> QED
    BY <2>1, <2>3, <2>4, <2>5, <2>6, <2>7 DEF TypeOK, Shapes, Places
<1> QED
  BY <1>1, PipelineAlways, PTL

\* However the input is cut into chunks, and wherever the task waits between
\* two commands of a pipeline: requests are executed once each and in the
\* order sent, and the replies come in the same order with none missing
\* between (handle_client, RespParser.parse).
THEOREM RequestsInOrder == Spec => []PipelineInOrder
<1>1. PipelineInv => PipelineInOrder
  <2> SUFFICES ASSUME PipelineInv, NEW c \in Clients
               PROVE  /\ executed[c] = [i \in 1..Len(executed[c]) |-> i]
                      /\ \A i \in Answered(c) : Replies(c)[i][1] = i
                      /\ ~lost[c] => Cardinality(Answered(c)) = Len(executed[c])
                      /\ \A i \in DOMAIN Replies(c) : Replies(c)[i][2] = "error" => i = Len(Replies(c))
    BY DEF PipelineInOrder
  <2> DEFINE s == got[c] \o out[c]
  <2>1. ClientOK(c)
    BY DEF PipelineInv
  <2>2. executed[c] = [i \in 1..Len(executed[c]) |-> i]
    BY <2>1 DEF ClientOK, InputOK
  <2>3. AnswersInOrder(s, FALSE) /\ (~lost[c] => Len(executed[c]) = Count(s))
    <3>1. AnswersInOrder(got[c] \o out[c], Live(pc[c])) /\ (~lost[c] => Len(executed[c]) = Count(got[c] \o out[c]))
      BY <2>1 DEF ClientOK, RepliesOK
    <3> HIDE DEF s
    <3>2. AnswersInOrder(s, Live(pc[c])) /\ (~lost[c] => Len(executed[c]) = Count(s))
      BY <3>1 DEF s
    <3> QED
      BY <3>2, AnswersStop
  <2> HIDE DEF s
  <2>4. /\ \A i \in DOMAIN s : s[i][1] # 0 => s[i][1] = i
        /\ \A i \in DOMAIN s : s[i][2] = "error" => i = Len(s)
        /\ Cardinality({i \in DOMAIN s : s[i][1] # 0}) = Count(s)
    BY <2>3, AnswersCount
  <2>5. Replies(c) = s /\ Answered(c) = {i \in DOMAIN s : s[i][1] # 0}
    BY DEF Answered, Replies, s
  <2> QED
    BY <2>2, <2>3, <2>4, <2>5
<1> QED
  BY <1>1, PipelineAlways, PTL

\* A task that waits for input has answered every complete request it was
\* given (handle_client: the loop over parse ends only when it returns None).
THEOREM CompleteIsAnswered == Spec => []NothingCompleteWaits
<1>1. PipelineInv => NothingCompleteWaits
  <2> SUFFICES ASSUME PipelineInv, NEW c \in Clients, pc[c] = "reading" PROVE ~Complete(c)
    BY DEF NothingCompleteWaits
  <2>1. PlaceOK(script[c], buffer[c], "reading", tick[c], out[c])
    BY DEF PipelineInv, ClientOK
  <2>2. ~Whole(script[c], buffer[c])
    BY <2>1 DEF PlaceOK
  <2> QED
    BY <2>2 DEF Complete, FrontRequest, Whole
<1> QED
  BY <1>1, PipelineAlways, PTL

\* What the server holds for one client is bounded, however fast it sends and
\* however slowly it reads: the input across a wait by its limit, the replies
\* by theirs and one reply (_read_chunk, _flush_output_if_needed).
THEOREM MemoryPerClient == Spec => []BuffersBounded
<1>1. PipelineInv => BuffersBounded
  <2> SUFFICES ASSUME PipelineInv, NEW c \in Clients
               PROVE  /\ pc[c] \in {"reading", "parsing", "flushing", "yielded"} => Len(buffer[c]) <= MaxInput
                      /\ \A i \in DOMAIN out[c] : OutSize(c, SubSeq(out[c], 1, i - 1)) <= MaxOutput
    BY DEF BuffersBounded
  <2>1. ClientOK(c)
    BY DEF PipelineInv
  <2>2. pc[c] \in {"reading", "parsing", "flushing", "yielded"} => Len(buffer[c]) <= MaxInput
    BY <2>1 DEF ClientOK, PlaceOK, Live
  <2>3. ASSUME NEW i \in DOMAIN out[c] PROVE OutSize(c, SubSeq(out[c], 1, i - 1)) <= MaxOutput
    <3> DEFINE h == SubSeq(out[c], 1, i - 1)
    <3>1. Total(script[c], h) <= MaxOutput
      BY <2>1 DEF ClientOK, RepliesOK, HeadsFit
    <3> HIDE DEF h
    <3>2. OutSize(c, h) = Total(script[c], h)
      BY OutSizeIsTotal
    <3>3. OutSize(c, h) <= MaxOutput
      BY <3>1, <3>2
    <3> QED
      BY <3>3 DEF h
  <2> QED
    BY <2>2, <2>3
<1> QED
  BY <1>1, PipelineAlways, PTL
=============================================================================
