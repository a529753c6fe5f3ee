----------------------------- MODULE NntpSession -----------------------------
(***************************************************************************)
(* One connection to a provider and the callers that use it one after the  *)
(* other (nntp/client.go; who may have it is nntp/pool.go).  A command is  *)
(* sent and its reply read off the stream, whatever comes first: nothing   *)
(* but the echoed message id ties a reply to its command.  A cancelled     *)
(* context expires the connection's deadline from another goroutine, which *)
(* may still be on its way when the connection has changed hands.          *)
(***************************************************************************)
EXTENDS Integers, Sequences, FiniteSets

CONSTANTS
  Callers, Articles,
  Held,       \* the articles the provider has
  Hiccups     \* bound on replies the provider sends once too often

VARIABLES
  conn,       \* open or not, who has it, its deadline
  wire,       \* replies sent and not read yet
  call,       \* per caller: where it is in Body or Stat
  hook,       \* per caller: the AfterFunc of its context
  last,       \* the reply the provider sent last
  hiccups

sessionVars == <<conn, wire, call, hook, last, hiccups>>

NoOne == "none"
NoReply == [code |-> 0, id |-> "none"]
Idle == [pc |-> "idle", op |-> "body", id |-> "none", cancelled |-> FALSE, result |-> "none", got |-> "none"]
Replies == [code : {0, 222, 223, 430}, id : Articles \cup {"none"}]

Connections == [open : BOOLEAN, user : Callers \cup {NoOne}, expired : BOOLEAN]
Calls ==
  [pc : {"idle", "send", "status", "text", "stop", "answered"}, op : {"body", "stat"},
   id : Articles \cup {"none"}, cancelled : BOOLEAN,
   result : {"none", "ok", "missing", "error"}, got : Articles \cup {"none"}]

TypeOK ==
  /\ conn \in Connections
  /\ wire \in Seq(Replies) /\ last \in Replies
  /\ call \in [Callers -> Calls]
  /\ hook \in [Callers -> {"off", "armed", "started"}]
  /\ hiccups \in 0 .. Hiccups

Init ==
  /\ conn = [open |-> FALSE, user |-> NoOne, expired |-> FALSE]
  /\ wire = <<>> /\ last = NoReply
  /\ call = [c \in Callers |-> Idle]
  /\ hook = [c \in Callers |-> "off"]
  /\ hiccups = 0

-----------------------------------------------------------------------------
\* The greeting and the login: a login that fails, or a line that cannot be
\* read, leaves no connection.  The deadline of the handshake is lifted at its end.
NewSession ==
  /\ ~conn.open
  /\ conn' = [open |-> TRUE, user |-> NoOne, expired |-> FALSE]
  /\ wire' = <<>> /\ last' = NoReply
  /\ UNCHANGED <<call, hook, hiccups>>

\* A caller gets the connection from the pool, sets its own deadline and arms
\* its context's hook.
Begin(c, op, a) ==
  /\ call[c].pc = "idle" /\ hook[c] = "off" /\ conn.open /\ conn.user = NoOne
  /\ conn' = [conn EXCEPT !.user = c, !.expired = FALSE]
  /\ call' = [call EXCEPT ![c] = [Idle EXCEPT !.pc = "send", !.op = op, !.id = a]]
  /\ hook' = [hook EXCEPT ![c] = "armed"]
  /\ UNCHANGED <<wire, last, hiccups>>

Cancel(c) ==
  /\ call[c].pc \in {"send", "status", "text"} /\ ~call[c].cancelled
  /\ call' = [call EXCEPT ![c].cancelled = TRUE]
  /\ UNCHANGED <<conn, wire, hook, last, hiccups>>

\* The hook runs on a goroutine of its own: it has started, and then it sets the
\* deadline of the connection, whoever has that by now.
HookStarts(c) ==
  /\ hook[c] = "armed" /\ call[c].cancelled
  /\ hook' = [hook EXCEPT ![c] = "started"]
  /\ UNCHANGED <<conn, wire, call, last, hiccups>>

HookExpires(c) ==
  /\ hook[c] = "started"
  /\ hook' = [hook EXCEPT ![c] = "off"]
  /\ conn' = IF conn.open THEN [conn EXCEPT !.expired = TRUE] ELSE conn
  /\ UNCHANGED <<wire, call, last, hiccups>>

\* The time of the caller itself runs out.
DeadlinePasses ==
  /\ conn.user # NoOne /\ ~conn.expired
  /\ conn' = [conn EXCEPT !.expired = TRUE]
  /\ UNCHANGED <<wire, call, hook, last, hiccups>>

-----------------------------------------------------------------------------
(* The provider answers what it reads, in its order.                       *)

Answer(op, a) ==
  IF a \notin Held THEN [code |-> 430, id |-> "none"]
  ELSE [code |-> IF op = "body" THEN 222 ELSE 223, id |-> a]

\* The connection falls out of step: a reply comes a second time.
Hiccup ==
  /\ conn.open /\ last # NoReply /\ hiccups < Hiccups
  /\ wire' = Append(wire, last)
  /\ hiccups' = hiccups + 1
  /\ UNCHANGED <<conn, call, hook, last>>

Ends(c, result, got) ==
  call' = [call EXCEPT ![c].pc = "stop", ![c].result = result, ![c].got = got]

\* A write after the deadline fails.
writeCommand(c) ==
  /\ call[c].pc = "send"
  /\ IF conn.expired THEN Ends(c, "error", "none") /\ UNCHANGED <<wire, last>>
     ELSE /\ last' = Answer(call[c].op, call[c].id)
          /\ wire' = Append(wire, last')
          /\ call' = [call EXCEPT ![c].pc = "status"]
  /\ UNCHANGED <<conn, hook, hiccups>>

\* A plausible bug: the code alone tells a good reply.
M_Accepts(c, r) == r.code = (IF call[c].op = "body" THEN 222 ELSE 223)

\* What a call makes of the first line: the body has the right code and repeats
\* the message id, or the connection cannot be trusted.
Accepts(c, r) == r.code = (IF call[c].op = "body" THEN 222 ELSE 223) /\ r.id = call[c].id

readStatusLine(c) ==
  /\ call[c].pc = "status"
  /\ \/ /\ conn.expired
        /\ Ends(c, "error", "none") /\ UNCHANGED wire
     \/ /\ ~conn.expired /\ wire # <<>>
        /\ LET r == Head(wire) IN
           IF Accepts(c, r)
             THEN IF call[c].op = "stat" THEN Ends(c, "ok", r.id) /\ wire' = Tail(wire)
                  ELSE call' = [call EXCEPT ![c].pc = "text"] /\ UNCHANGED wire
             ELSE /\ Ends(c, IF call[c].op = "stat" /\ r.code = 430 THEN "missing" ELSE "error", "none")
                  /\ wire' = Tail(wire)
  /\ UNCHANGED <<conn, hook, last, hiccups>>

\* Lines up to the dot; a deadline in the middle leaves the rest on the stream.
readMultilineBody(c) ==
  /\ call[c].pc = "text"
  /\ IF conn.expired THEN Ends(c, "error", "none") /\ UNCHANGED wire
     ELSE Ends(c, "ok", Head(wire).id) /\ wire' = Tail(wire)
  /\ UNCHANGED <<conn, hook, last, hiccups>>

\* The hook is called off unless it has started, and the pool takes the
\* connection back after an answer and closes it after an error.
Settle(c) ==
  /\ call[c].pc = "stop"
  /\ hook' = [hook EXCEPT ![c] = IF @ = "armed" THEN "off" ELSE @]
  /\ LET keep == call[c].result = "ok" \/ (call[c].op = "stat" /\ call[c].result = "missing") IN
     /\ conn' = IF keep THEN [conn EXCEPT !.user = NoOne] ELSE [open |-> FALSE, user |-> NoOne, expired |-> FALSE]
     /\ wire' = IF keep THEN wire ELSE <<>>
  /\ call' = [call EXCEPT ![c].pc = "answered"]
  /\ UNCHANGED <<last, hiccups>>

Next ==
  \/ NewSession \/ DeadlinePasses \/ Hiccup
  \/ \E c \in Callers :
       \/ \E op \in {"body", "stat"}, a \in Articles : Begin(c, op, a)
       \/ Cancel(c) \/ HookStarts(c) \/ HookExpires(c)
       \/ writeCommand(c) \/ readStatusLine(c) \/ readMultilineBody(c) \/ Settle(c)

Spec == Init /\ [][Next]_sessionVars

-----------------------------------------------------------------------------
\* What a call hands back as an article, or as the proof that the provider has
\* one, is of the article it asked for, on a connection that fell out of step too.
AnswerIsOwn ==
  \A c \in Callers : call[c].result = "ok" => call[c].got = call[c].id /\ call[c].id \in Held
-----------------------------------------------------------------------------
(***************************************************************************)
(* What AnswerIsOwn rests on: a call between its start and its end has the *)
(* connection to itself; the provider claims nothing it does not have,     *)
(* however often it repeats itself; and the line a call accepted is still  *)
(* the first one when it comes to read the text.                           *)
(***************************************************************************)
HasConnection(c) == conn.open /\ conn.user = c
Exclusive == \A c \in Callers : call[c].pc \in {"send", "status", "text", "stop"} => HasConnection(c)

IsHonest(r) == r.code \in {222, 223} => r.id \in Held
Honest == IsHonest(last) /\ \A i \in DOMAIN wire : IsHonest(wire[i])

Accepted ==
  \A c \in Callers : call[c].pc = "text" => call[c].op = "body" /\ wire # <<>> /\ Accepts(c, wire[1])

SessionInv == TypeOK /\ Exclusive /\ Honest /\ Accepted /\ AnswerIsOwn
=============================================================================
