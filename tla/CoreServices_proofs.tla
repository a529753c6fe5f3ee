------------------------- MODULE CoreServices_proofs -------------------------
(***************************************************************************)
(* The steps of the services of CoreServices keep their invariants: for    *)
(* each service a lemma for its initial states, lemmas about what its      *)
(* actions write, and one for all its steps, stuttering included.          *)
(***************************************************************************)
EXTENDS CoreServices, SequenceTheorems, FiniteSetTheorems, WellFoundedInduction, TLAPS

-----------------------------------------------------------------------------
(* NntpSession: a call gets its own answer *)

\* The connection is closed and nothing was called.
LEMMA SessionBegins ==
  ASSUME Session!Init
  PROVE  Session!SessionInv
<1>1. Session!TypeOK
  BY SessionAssumption DEF Session!Init, Session!TypeOK, Session!Idle, Session!NoOne, Session!NoReply, Session!Replies, Session!Connections, Session!Calls
<1>2. Session!Exclusive /\ Session!Accepted /\ Session!AnswerIsOwn
  BY DEF Session!Init, Session!Exclusive, Session!Accepted, Session!AnswerIsOwn, Session!Idle
<1>3. Session!Honest
  BY DEF Session!Init, Session!Honest, Session!IsHonest, Session!NoReply
<1> QED
  BY <1>1, <1>2, <1>3 DEF Session!SessionInv

\* One call comes to another place, perhaps with a result.
LEMMA SessionCallMoves ==
  ASSUME Session!TypeOK, NEW c \in SessionCallers, NEW x \in Session!Calls, v3' = [v3 EXCEPT ![c] = x]
  PROVE  v3' \in [SessionCallers -> Session!Calls] /\ v3'[c] = x /\ \A d \in SessionCallers \ {c} : v3'[d] = v3[d]
BY DEF Session!TypeOK

\* A call that ends keeps what it asked for.
LEMMA SessionCallEnds ==
  ASSUME Session!TypeOK, NEW c \in SessionCallers,
         NEW result \in {"none", "ok", "missing", "error"}, NEW got \in SessionArticles \cup {"none"},
         Session!Ends(c, result, got)
  PROVE  \E x \in Session!Calls :
           /\ v3' = [v3 EXCEPT ![c] = x]
           /\ x.pc = "stop" /\ x.id = v3[c].id /\ x.result = result /\ x.got = got
<1> DEFINE x == [v3[c] EXCEPT !.pc = "stop", !.result = result, !.got = got]
<1>1. v3[c] \in Session!Calls /\ v3 \in [SessionCallers -> Session!Calls]
  BY DEF Session!TypeOK
<1>2. x \in Session!Calls /\ x.pc = "stop" /\ x.id = v3[c].id /\ x.result = result /\ x.got = got
  BY <1>1 DEF Session!Calls
<1>3. v3' = [v3 EXCEPT ![c] = x]
  BY <1>1 DEF Session!Ends
<1> QED
  BY <1>2, <1>3

\* The effect of reading the first line, or the text, on the call and the stream.
LEMMA SessionReads ==
  ASSUME Session!SessionInv, NEW c \in SessionCallers,
         Session!readStatusLine(c) \/ Session!readMultilineBody(c)
  PROVE  /\ UNCHANGED <<v1, v4, v5, v6>>
         /\ v3[c].pc \in {"status", "text"}
         /\ \E x \in Session!Calls :
              /\ v3' = [v3 EXCEPT ![c] = x]
              /\ x.id = v3[c].id
              /\ x.result = "ok" => x.got = x.id /\ x.id \in SessionHeld
              /\ \/ x.pc = "text" /\ x.op = "body" /\ v2' = v2 /\ v2 # <<>> /\ Session!Accepts(c, v2[1])
                       /\ x.op = v3[c].op
                 \/ x.pc = "stop" /\ (v2' = v2 \/ (v2 # <<>> /\ v2' = Tail(v2)))
<1> DEFINE wire == v2  call == v3
<1>1. /\ Session!TypeOK /\ wire \in Seq(Session!Replies)
      /\ call \in [SessionCallers -> Session!Calls] /\ call[c] \in Session!Calls
  BY DEF Session!SessionInv, Session!TypeOK
<1>2. wire # <<>> => Head(wire) = wire[1] /\ wire[1] \in Session!Replies /\ Session!IsHonest(wire[1])
  BY <1>1 DEF Session!SessionInv, Session!Honest
<1>3. call[c].result = "ok" => call[c].got = call[c].id /\ call[c].id \in SessionHeld
  BY DEF Session!SessionInv, Session!AnswerIsOwn
<1>4. \A r \in Session!Replies : r.id \in SessionArticles \cup {"none"}
  BY DEF Session!Replies
<1>5. CASE Session!readStatusLine(c)
  <2>1. call[c].pc = "status" /\ UNCHANGED <<v1, v4, v5, v6>>
    BY <1>5 DEF Session!readStatusLine
  <2>2. CASE Session!Ends(c, "error", "none") /\ UNCHANGED v2
    <3>1. PICK x \in Session!Calls :
           /\ v3' = [v3 EXCEPT ![c] = x]
           /\ x.pc = "stop" /\ x.id = v3[c].id /\ x.result = "error" /\ x.got = "none"
      BY <2>2, <1>1, SessionCallEnds
    <3> QED
      BY <2>1, <2>2, <3>1
  <2>3. CASE wire # <<>> /\ Session!Accepts(c, wire[1]) /\ call[c].op = "stat" /\ Session!Ends(c, "ok", wire[1].id)
              /\ wire' = Tail(wire)
    <3>1. PICK x \in Session!Calls :
           /\ v3' = [v3 EXCEPT ![c] = x]
           /\ x.pc = "stop" /\ x.id = v3[c].id /\ x.result = "ok" /\ x.got = wire[1].id
      BY <2>3, <1>1, <1>2, <1>4, SessionCallEnds
    <3>2. wire[1].id = call[c].id /\ wire[1].id \in SessionHeld
      BY <2>3, <1>2 DEF Session!Accepts, Session!IsHonest
    <3> QED
      BY <2>1, <2>3, <3>1, <3>2
  <2>4. CASE wire # <<>> /\ Session!Accepts(c, wire[1]) /\ call[c].op # "stat" /\ UNCHANGED wire
             /\ call' = [call EXCEPT ![c].pc = "text"]
    <3> DEFINE x == [call[c] EXCEPT !.pc = "text"]
    <3>1. x \in Session!Calls /\ x.pc = "text" /\ x.op = "body" /\ x.id = call[c].id /\ x.op = call[c].op
          /\ x.result = call[c].result /\ x.got = call[c].got
      BY <1>1, <2>4 DEF Session!Calls
    <3>2. call' = [call EXCEPT ![c] = x]
      BY <1>1, <2>4
    <3> QED
      BY <1>3, <2>1, <2>4, <3>1, <3>2
  <2>5. CASE wire # <<>> /\ wire' = Tail(wire)
             /\ Session!Ends(c, IF call[c].op = "stat" /\ Head(wire).code = 430 THEN "missing" ELSE "error", "none")
    <3>1. PICK x \in Session!Calls :
           /\ v3' = [v3 EXCEPT ![c] = x]
           /\ x.pc = "stop" /\ x.id = v3[c].id /\ x.result # "ok"
      <4> DEFINE result == IF call[c].op = "stat" /\ Head(wire).code = 430 THEN "missing" ELSE "error"
      <4>1. result \in {"none", "ok", "missing", "error"} /\ result # "ok"
        OBVIOUS
      <4> HIDE DEF result
      <4> QED
        BY <2>5, <4>1, <1>1, SessionCallEnds
    <3> QED
      BY <2>1, <2>5, <3>1
  <2> QED
    BY <1>2, <1>5, <2>2, <2>3, <2>4, <2>5 DEF Session!readStatusLine
<1>6. CASE Session!readMultilineBody(c)
  <2>1. call[c].pc = "text" /\ UNCHANGED <<v1, v4, v5, v6>>
    BY <1>6 DEF Session!readMultilineBody
  <2>2. wire # <<>> /\ Session!Accepts(c, wire[1])
    BY <2>1 DEF Session!SessionInv, Session!Accepted
  <2>3. CASE Session!Ends(c, "error", "none") /\ UNCHANGED v2
    <3>1. PICK x \in Session!Calls :
           /\ v3' = [v3 EXCEPT ![c] = x]
           /\ x.pc = "stop" /\ x.id = v3[c].id /\ x.result = "error" /\ x.got = "none"
      BY <2>3, <1>1, SessionCallEnds
    <3> QED
      BY <2>1, <2>3, <3>1
  <2>4. CASE Session!Ends(c, "ok", wire[1].id) /\ wire' = Tail(wire)
    <3>1. PICK x \in Session!Calls :
           /\ v3' = [v3 EXCEPT ![c] = x]
           /\ x.pc = "stop" /\ x.id = v3[c].id /\ x.result = "ok" /\ x.got = wire[1].id
      BY <2>2, <2>4, <1>1, <1>2, <1>4, SessionCallEnds
    <3>2. wire[1].id = call[c].id /\ wire[1].id \in SessionHeld
      BY <2>2, <1>2 DEF Session!Accepts, Session!IsHonest
    <3> QED
      BY <2>1, <2>2, <2>4, <3>1, <3>2
  <2> QED
    BY <1>2, <1>6, <2>2, <2>3, <2>4 DEF Session!readMultilineBody
<1> QED
  BY <1>5, <1>6

\* A reply is added at the end of the stream, or the first one is read.
LEMMA SessionWire ==
  ASSUME Session!SessionInv
  PROVE  /\ \A r \in Session!Replies : Session!IsHonest(r) =>
              /\ Append(v2, r) \in Seq(Session!Replies) /\ Append(v2, r) # <<>>
              /\ \A i \in DOMAIN Append(v2, r) : Session!IsHonest(Append(v2, r)[i])
              /\ v2 # <<>> => Append(v2, r)[1] = v2[1]
         /\ v2 # <<>> => Tail(v2) \in Seq(Session!Replies) /\ \A i \in DOMAIN Tail(v2) : Session!IsHonest(Tail(v2)[i])
<1> DEFINE wire == v2
<1>1. wire \in Seq(Session!Replies) /\ \A i \in DOMAIN wire : Session!IsHonest(wire[i])
  BY DEF Session!SessionInv, Session!TypeOK, Session!Honest
<1>2. ASSUME NEW r \in Session!Replies, Session!IsHonest(r), NEW i \in DOMAIN Append(wire, r)
      PROVE  Session!IsHonest(Append(wire, r)[i])
  <2>1. CASE i = Len(wire) + 1
    BY <1>1, <1>2, <2>1
  <2>2. CASE i # Len(wire) + 1
    <3>1. i \in DOMAIN wire /\ Append(wire, r)[i] = wire[i]
      BY <1>1, <1>2, <2>2
    <3> QED
      BY <1>1, <3>1
  <2> QED
    BY <2>1, <2>2
<1>3. ASSUME wire # <<>>, NEW i \in DOMAIN Tail(wire) PROVE Session!IsHonest(Tail(wire)[i])
  <2>1. i + 1 \in DOMAIN wire /\ Tail(wire)[i] = wire[i + 1]
    BY <1>1, <1>3
  <2> QED
    BY <1>1, <2>1
<1>4. ASSUME NEW r \in Session!Replies
      PROVE  /\ Append(wire, r) \in Seq(Session!Replies) /\ Append(wire, r) # <<>>
             /\ wire # <<>> => Append(wire, r)[1] = wire[1]
  <2>1. Append(wire, r) \in Seq(Session!Replies) /\ Len(Append(wire, r)) = Len(wire) + 1 /\ Len(wire) \in Nat
    BY <1>1
  <2>2. Append(wire, r) # <<>>
    BY <1>1, <2>1
  <2>3. wire # <<>> => Append(wire, r)[1] = wire[1]
    BY <1>1
  <2> QED
    BY <2>1, <2>2, <2>3
<1>5. wire # <<>> => Tail(wire) \in Seq(Session!Replies)
  BY <1>1
<1> QED
  BY <1>2, <1>3, <1>4, <1>5

\* Every step of the session keeps what AnswerIsOwn rests on.
LEMMA SessionSteps ==
  ASSUME Session!SessionInv, Session!Next
  PROVE  Session!SessionInv'
<1> USE SessionAssumption
<1> DEFINE conn == v1  wire == v2  call == v3  hook == v4  last == v5  hiccups == v6
<1>1. /\ conn \in Session!Connections /\ wire \in Seq(Session!Replies) /\ last \in Session!Replies
      /\ call \in [SessionCallers -> Session!Calls] /\ hiccups \in 0 .. SessionHiccups
      /\ hook \in [SessionCallers -> {"off", "armed", "started"}]
  BY DEF Session!SessionInv, Session!TypeOK
<1>2. /\ Session!IsHonest(last) /\ \A i \in DOMAIN wire : Session!IsHonest(wire[i])
      /\ \A c \in SessionCallers : call[c].pc \in {"send", "status", "text", "stop"} => Session!HasConnection(c)
      /\ \A c \in SessionCallers : call[c].pc = "text" => call[c].op = "body" /\ wire # <<>> /\ Session!Accepts(c, wire[1])
      /\ \A c \in SessionCallers : call[c].result = "ok" => call[c].got = call[c].id /\ call[c].id \in SessionHeld
  BY DEF Session!SessionInv, Session!Honest, Session!Exclusive, Session!Accepted, Session!AnswerIsOwn
<1>3. /\ Session!NoReply \in Session!Replies /\ Session!IsHonest(Session!NoReply)
      /\ <<>> \in Seq(Session!Replies) /\ DOMAIN <<>> = {}
  BY DEF Session!NoReply, Session!Replies, Session!IsHonest
<1> USE DEF Session!HasConnection
\* A step that moves at most one call, which has the connection to itself.
<1>4. ASSUME NEW c \in SessionCallers, NEW x \in Session!Calls, call' = [call EXCEPT ![c] = x],
             conn' \in Session!Connections, wire' \in Seq(Session!Replies), last' \in Session!Replies,
             hook' \in [SessionCallers -> {"off", "armed", "started"}], hiccups' \in 0 .. SessionHiccups,
             Session!IsHonest(last'), \A i \in DOMAIN wire' : Session!IsHonest(wire'[i]),
             \A d \in SessionCallers \ {c} : call[d].pc \notin {"send", "status", "text", "stop"},
             x.pc \in {"send", "status", "text", "stop"} => conn'.open /\ conn'.user = c,
             x.pc = "text" => x.op = "body" /\ wire' # <<>> /\ wire'[1].code = 222 /\ wire'[1].id = x.id,
             x.result = "ok" => x.got = x.id /\ x.id \in SessionHeld
      PROVE  Session!SessionInv'
  <2>1. call' \in [SessionCallers -> Session!Calls] /\ call'[c] = x /\ \A d \in SessionCallers \ {c} : call'[d] = call[d]
    BY <1>1, <1>4
  <2>2. Session!TypeOK'
    BY <1>4, <2>1 DEF Session!TypeOK
  <2>3. Session!Exclusive'
    BY <1>4, <2>1 DEF Session!Exclusive
  <2>4. Session!Honest'
    BY <1>4 DEF Session!Honest, Session!IsHonest
  <2>5. Session!Accepted'
    BY <1>4, <2>1 DEF Session!Accepted, Session!Accepts
  <2>6. Session!AnswerIsOwn'
    BY <1>2, <1>4, <2>1 DEF Session!AnswerIsOwn
  <2> QED
    BY <2>2, <2>3, <2>4, <2>5, <2>6 DEF Session!SessionInv
\* A step that leaves the calls alone.
<1>5. ASSUME call' = call, conn' \in Session!Connections, wire' \in Seq(Session!Replies),
             last' \in Session!Replies, hiccups' \in 0 .. SessionHiccups,
             hook' \in [SessionCallers -> {"off", "armed", "started"}],
             Session!IsHonest(last'), \A i \in DOMAIN wire' : Session!IsHonest(wire'[i]),
             conn.open => conn'.open /\ conn'.user = conn.user,
             conn.open /\ wire # <<>> => wire' # <<>> /\ wire'[1] = wire[1]
      PROVE  Session!SessionInv'
  <2>1. Session!TypeOK'
    BY <1>1, <1>5 DEF Session!TypeOK
  <2>2. Session!Exclusive'
    BY <1>2, <1>5 DEF Session!Exclusive
  <2>3. Session!Honest'
    BY <1>5 DEF Session!Honest, Session!IsHonest
  <2>4. Session!Accepted'
    BY <1>2, <1>5 DEF Session!Accepted, Session!Accepts
  <2>5. Session!AnswerIsOwn'
    BY <1>2, <1>5 DEF Session!AnswerIsOwn
  <2> QED
    BY <2>1, <2>2, <2>3, <2>4, <2>5 DEF Session!SessionInv
<1>6. CASE Session!NewSession
  <2>1. conn' \in Session!Connections
    BY <1>6 DEF Session!NewSession, Session!Connections
  <2> QED
    BY <1>1, <1>3, <1>5, <1>6, <2>1 DEF Session!NewSession
<1>7. CASE Session!DeadlinePasses
  <2>1. conn' \in Session!Connections /\ conn'.open = conn.open /\ conn'.user = conn.user
    BY <1>1, <1>7 DEF Session!DeadlinePasses, Session!Connections
  <2> QED
    BY <1>1, <1>2, <1>5, <1>7, <2>1 DEF Session!DeadlinePasses
<1>8. CASE Session!Hiccup
  <2>1. hiccups' \in 0 .. SessionHiccups
    BY <1>1, <1>8 DEF Session!Hiccup
  <2> QED
    BY <1>1, <1>2, <1>5, <1>8, <2>1, SessionWire DEF Session!Hiccup
<1>9. ASSUME NEW c \in SessionCallers, NEW op \in {"body", "stat"}, NEW a \in SessionArticles,
             Session!Begin(c, op, a)
      PROVE  Session!SessionInv'
  <2> DEFINE x == [Session!Idle EXCEPT !.pc = "send", !.op = op, !.id = a]
  <2>1. x \in Session!Calls /\ x.pc = "send" /\ x.result = "none" /\ call' = [call EXCEPT ![c] = x]
    BY <1>9 DEF Session!Begin, Session!Idle, Session!Calls
  <2>2. conn' \in Session!Connections /\ conn'.open /\ conn'.user = c
    BY <1>1, <1>9 DEF Session!Begin, Session!Connections
  <2>3. \A d \in SessionCallers \ {c} : call[d].pc \notin {"send", "status", "text", "stop"}
    BY <1>2, <1>9 DEF Session!Begin
  <2>4. hook' \in [SessionCallers -> {"off", "armed", "started"}] /\ UNCHANGED <<wire, last, hiccups>>
    BY <1>1, <1>9 DEF Session!Begin
  <2>5. /\ wire' \in Seq(Session!Replies) /\ last' \in Session!Replies /\ hiccups' \in 0 .. SessionHiccups
        /\ Session!IsHonest(last') /\ \A i \in DOMAIN wire' : Session!IsHonest(wire'[i])
    BY <1>1, <1>2, <2>4
  <2> HIDE DEF x
  <2> QED
    BY <1>4, <2>1, <2>2, <2>3, <2>4, <2>5
<1>10. ASSUME NEW c \in SessionCallers, Session!Cancel(c)
       PROVE  Session!SessionInv'
  <2> DEFINE x == [call[c] EXCEPT !.cancelled = TRUE]
  <2>1. /\ x \in Session!Calls /\ call' = [call EXCEPT ![c] = x] /\ x.pc = call[c].pc /\ x.op = call[c].op
        /\ x.result = call[c].result /\ x.id = call[c].id /\ x.got = call[c].got
    <3>1. call[c] \in Session!Calls
      BY <1>1
    <3> QED
      BY <1>10, <3>1 DEF Session!Cancel, Session!Calls
  <2>2. call[c].pc \in {"send", "status", "text"} /\ UNCHANGED <<conn, wire, hook, last, hiccups>>
    BY <1>10 DEF Session!Cancel
  <2>3. \A d \in SessionCallers \ {c} : call[d].pc \notin {"send", "status", "text", "stop"}
    BY <1>2, <2>2
  <2>4. x.pc = "text" => x.op = "body" /\ wire # <<>> /\ wire[1].code = 222 /\ wire[1].id = x.id
    BY <1>2, <2>1 DEF Session!Accepts
  <2>5. /\ conn' \in Session!Connections /\ conn'.open /\ conn'.user = c
        /\ wire' \in Seq(Session!Replies) /\ hook' \in [SessionCallers -> {"off", "armed", "started"}]
        /\ last' \in Session!Replies /\ hiccups' \in 0 .. SessionHiccups
        /\ Session!IsHonest(last') /\ \A i \in DOMAIN wire' : Session!IsHonest(wire'[i])
    BY <1>1, <1>2, <2>2
  <2>6. /\ x.result = "ok" => x.got = x.id /\ x.id \in SessionHeld
        /\ x.pc = "text" => x.op = "body" /\ wire' # <<>> /\ wire'[1].code = 222 /\ wire'[1].id = x.id
        /\ x.pc \in {"send", "status", "text"}
    BY <1>2, <2>1, <2>2, <2>4
  <2> HIDE DEF x
  <2> QED
    BY <1>4, <2>1, <2>3, <2>5, <2>6
<1>11. ASSUME NEW c \in SessionCallers, Session!HookStarts(c)
       PROVE  Session!SessionInv'
  <2>1. hook' \in [SessionCallers -> {"off", "armed", "started"}]
    BY <1>1, <1>11 DEF Session!HookStarts
  <2> QED
    BY <1>1, <1>2, <1>5, <1>11, <2>1 DEF Session!HookStarts
<1>12. ASSUME NEW c \in SessionCallers, Session!HookExpires(c)
       PROVE  Session!SessionInv'
  <2>1. hook' \in [SessionCallers -> {"off", "armed", "started"}]
    BY <1>1, <1>12 DEF Session!HookExpires
  <2>2. conn' \in Session!Connections /\ conn'.open = conn.open /\ conn'.user = conn.user
    BY <1>1, <1>12 DEF Session!HookExpires, Session!Connections
  <2> QED
    BY <1>1, <1>2, <1>5, <1>12, <2>1, <2>2 DEF Session!HookExpires
<1>13. ASSUME NEW c \in SessionCallers, Session!writeCommand(c)
       PROVE  Session!SessionInv'
  <2>1. call[c].pc = "send" /\ UNCHANGED <<conn, hook, hiccups>> /\ call[c] \in Session!Calls /\ Session!TypeOK
    BY <1>1, <1>13 DEF Session!writeCommand, Session!SessionInv
  <2>2. \A d \in SessionCallers \ {c} : call[d].pc \notin {"send", "status", "text", "stop"}
    BY <1>2, <2>1
  <2>3. CASE conn.expired
    <3>1. PICK x \in Session!Calls :
            /\ call' = [call EXCEPT ![c] = x]
            /\ x.pc = "stop" /\ x.id = call[c].id /\ x.result = "error" /\ x.got = "none"
      BY <1>13, <2>1, <2>3, SessionCallEnds DEF Session!writeCommand
    <3> QED
      BY <1>1, <1>2, <1>4, <1>13, <2>1, <2>2, <2>3, <3>1 DEF Session!writeCommand
  <2>4. CASE ~conn.expired
    <3> DEFINE x == [call[c] EXCEPT !.pc = "status"]
               r == Session!Answer(call[c].op, call[c].id)
    <3>1. x \in Session!Calls /\ x.pc = "status" /\ x.result = call[c].result /\ x.id = call[c].id /\ x.got = call[c].got
      BY <2>1 DEF Session!Calls
    <3>2. r \in Session!Replies /\ Session!IsHonest(r)
      BY <2>1 DEF Session!Answer, Session!Replies, Session!IsHonest, Session!Calls
    <3>3. call' = [call EXCEPT ![c] = x] /\ last' = r /\ wire' = Append(wire, r)
      BY <1>13, <2>4 DEF Session!writeCommand
    <3> HIDE DEF x, r
    <3> QED
      BY <1>1, <1>2, <1>4, <2>1, <2>2, <3>1, <3>2, <3>3, SessionWire
  <2> QED
    BY <2>3, <2>4
<1>14. ASSUME NEW c \in SessionCallers, Session!readStatusLine(c) \/ Session!readMultilineBody(c)
       PROVE  Session!SessionInv'
  <2>1. UNCHANGED <<conn, hook, last, hiccups>> /\ call[c].pc \in {"status", "text"}
    BY <1>14, SessionReads
  <2>2. PICK x \in Session!Calls :
          /\ call' = [call EXCEPT ![c] = x]
          /\ x.id = call[c].id
          /\ x.result = "ok" => x.got = x.id /\ x.id \in SessionHeld
          /\ \/ x.pc = "text" /\ x.op = "body" /\ wire' = wire /\ wire # <<>> /\ Session!Accepts(c, wire[1])
                   /\ x.op = call[c].op
             \/ x.pc = "stop" /\ (wire' = wire \/ (wire # <<>> /\ wire' = Tail(wire)))
    BY <1>14, SessionReads
  <2>3. \A d \in SessionCallers \ {c} : call[d].pc \notin {"send", "status", "text", "stop"}
    BY <1>2, <2>1
  <2>4. wire' \in Seq(Session!Replies) /\ \A i \in DOMAIN wire' : Session!IsHonest(wire'[i])
    BY <1>1, <1>2, <2>2, SessionWire
  <2>5. x.pc = "text" => x.op = "body" /\ wire' # <<>> /\ wire'[1].code = 222 /\ wire'[1].id = x.id
    BY <2>2 DEF Session!Accepts
  <2>6. /\ conn' \in Session!Connections /\ last' \in Session!Replies /\ hiccups' \in 0 .. SessionHiccups
        /\ Session!IsHonest(last') /\ hook' \in [SessionCallers -> {"off", "armed", "started"}]
        /\ conn'.open /\ conn'.user = c
    BY <1>1, <1>2, <2>1
  <2> QED
    BY <1>4, <2>2, <2>3, <2>4, <2>5, <2>6
<1>15. ASSUME NEW c \in SessionCallers, Session!Settle(c)
       PROVE  Session!SessionInv'
  <2> DEFINE x == [call[c] EXCEPT !.pc = "answered"]
  <2>1. call[c].pc = "stop" /\ call[c] \in Session!Calls /\ UNCHANGED <<last, hiccups>>
    BY <1>1, <1>15 DEF Session!Settle
  <2>2. /\ x \in Session!Calls /\ call' = [call EXCEPT ![c] = x] /\ x.pc = "answered"
        /\ x.result = call[c].result /\ x.id = call[c].id /\ x.got = call[c].got
    BY <1>15, <2>1 DEF Session!Settle, Session!Calls
  <2>3. conn' \in Session!Connections /\ wire' \in {wire, <<>>}
    BY <1>1, <1>15 DEF Session!Settle, Session!Connections, Session!NoOne
  <2>4. hook' \in [SessionCallers -> {"off", "armed", "started"}]
    BY <1>1, <1>15 DEF Session!Settle
  <2>5. \A d \in SessionCallers \ {c} : call[d].pc \notin {"send", "status", "text", "stop"}
    BY <1>2, <2>1
  <2>6. wire' \in Seq(Session!Replies) /\ \A i \in DOMAIN wire' : Session!IsHonest(wire'[i])
    BY <1>1, <1>2, <1>3, <2>3
  <2>7. /\ last' \in Session!Replies /\ hiccups' \in 0 .. SessionHiccups /\ Session!IsHonest(last')
        /\ x.result = "ok" => x.got = x.id /\ x.id \in SessionHeld
    BY <1>1, <1>2, <2>1, <2>2
  <2> HIDE DEF x
  <2> QED
    BY <1>4, <2>2, <2>3, <2>4, <2>5, <2>6, <2>7
<1> QED
  BY <1>6, <1>7, <1>8, <1>9, <1>10, <1>11, <1>12, <1>13, <1>14, <1>15 DEF Session!Next

-----------------------------------------------------------------------------
(* NzbImport: one chain per document, one fetch per cooldown *)

\* No client has announced a row, and no fetch was allowed.
LEMMA ImportBegins == Import!Init => Import!ImportInv
<1> SUFFICES ASSUME Import!Init PROVE Import!ImportInv
  OBVIOUS
<1> USE DEF Import!Init, Import!Idle, Import!NoChain
<1>1. Import!Shapes
  BY DEF Import!Shapes, Import!Runs
<1>2. Import!IdsAreGiven /\ Import!AnnouncedOnce /\ Import!OneChainPerDocument
  BY DEF Import!IdsAreGiven, Import!AnnouncedOnce, Import!OneChainPerDocument, Import!Runs, Import!Announced
<1>3. Import!GrantIsPersisted /\ Import!OneFetchPerCooldown
  BY DEF Import!GrantIsPersisted, Import!OneFetchPerCooldown
<1> QED
  BY <1>1, <1>2, <1>3 DEF Import!ImportInv

\* A client goes on, or its chain: the records keep their shapes.
LEMMA ImportShapes ==
  ASSUME Import!Shapes, NEW c \in ImportClients, NEW x, NEW y,
         v5' = [v5 EXCEPT ![c] = x], v6' = [v6 EXCEPT ![c] = y],
         v3' = [row |-> v3'.row, last |-> v3'.last], v3'.last \in Nat,
         x = IF x.pc \in {"summary", "indexed", "hook"} THEN [pc |-> x.pc, id |-> x.id] ELSE [pc |-> x.pc],
         y = IF y # Import!NoChain THEN [pc |-> y.pc, id |-> y.id] ELSE Import!NoChain,
         v1' \in [memory : BOOLEAN, persisted : BOOLEAN], v2' \in [count : 0 .. 2, blind : BOOLEAN]
  PROVE  Import!Shapes'
<1> DEFINE client == v5  chain == v6
<1>1. /\ client = [d \in ImportClients |-> client[d]] /\ chain = [d \in ImportClients |-> chain[d]]
      /\ \A d \in ImportClients : client[d] = IF client[d].pc \in {"summary", "indexed", "hook"}
                                 THEN [pc |-> client[d].pc, id |-> client[d].id] ELSE [pc |-> client[d].pc]
      /\ \A d \in ImportClients : chain[d] = IF chain[d] # Import!NoChain
                                THEN [pc |-> chain[d].pc, id |-> chain[d].id] ELSE Import!NoChain
  BY DEF Import!Shapes, Import!Runs
<1>2. /\ client' = [d \in ImportClients |-> IF d = c THEN x ELSE client[d]]
      /\ chain' = [d \in ImportClients |-> IF d = c THEN y ELSE chain[d]]
  BY <1>1
<1>3. \A d \in ImportClients : client'[d] = (IF d = c THEN x ELSE client[d]) /\ chain'[d] = (IF d = c THEN y ELSE chain[d])
  BY <1>2
<1>4. \A d \in ImportClients : client'[d] = IF client'[d].pc \in {"summary", "indexed", "hook"}
                               THEN [pc |-> client'[d].pc, id |-> client'[d].id] ELSE [pc |-> client'[d].pc]
  BY <1>1, <1>3
<1>5. client' = [d \in ImportClients |-> IF client'[d].pc \in {"summary", "indexed", "hook"}
                               THEN [pc |-> client'[d].pc, id |-> client'[d].id] ELSE [pc |-> client'[d].pc]]
  BY <1>2, <1>3, <1>4
<1>6. \A d \in ImportClients : chain'[d] = IF chain'[d] # Import!NoChain
                              THEN [pc |-> chain'[d].pc, id |-> chain'[d].id] ELSE Import!NoChain
  BY <1>1, <1>3
<1>7. chain' = [d \in ImportClients |-> IF chain'[d] # Import!NoChain
                              THEN [pc |-> chain'[d].pc, id |-> chain'[d].id] ELSE Import!NoChain]
  BY <1>2, <1>3, <1>6
<1> QED
  BY <1>5, <1>7 DEF Import!Shapes, Import!Runs

\* What a client announces is a new row, and the chain that is started or carried on is
\* the one of the row that was announced.
LEMMA ImportIds ==
  ASSUME Import!IdsAreGiven, Import!AnnouncedOnce, Import!OneChainPerDocument,
         NEW c \in ImportClients, v3.last \in Nat, v3'.last \in Nat, v3'.last >= v3.last,
         \A d \in ImportClients : v5'[d].pc = "summary" =>
           \/ v5[d].pc = "summary" /\ v5'[d].id = v5[d].id
           \/ d = c /\ v5'[c].id = v3.last + 1 /\ v3.last + 1 <= v3'.last,
         \A d \in ImportClients : v6'[d] # Import!NoChain =>
           \/ v6[d] # Import!NoChain /\ v6'[d].id = v6[d].id
           \/ d = c /\ v5[c].pc = "summary" /\ v6'[c].id = v5[c].id /\ v5'[c].pc # "summary"
  PROVE  Import!IdsAreGiven' /\ Import!AnnouncedOnce' /\ Import!OneChainPerDocument'
<1> DEFINE client == v5  chain == v6
<1>1. \A d \in ImportClients : /\ client[d].pc = "summary" => client[d].id \in 1 .. v3.last
                               /\ chain[d] # Import!NoChain => chain[d].id \in 1 .. v3.last
  BY DEF Import!IdsAreGiven, Import!Runs, Import!Announced
<1>6. \A d \in ImportClients : /\ client[d].pc = "summary" => client[d].id # v3.last + 1
                               /\ chain[d] # Import!NoChain => chain[d].id # v3.last + 1
  BY <1>1
<1>5. \A d, e \in ImportClients : client[d].pc = "summary" =>
        /\ client[e].pc = "summary" /\ client[d].id = client[e].id => d = e
        /\ chain[e] # Import!NoChain => client[d].id # chain[e].id
  BY DEF Import!AnnouncedOnce, Import!Announced, Import!Runs
<1>2. Import!IdsAreGiven'
  BY <1>1 DEF Import!IdsAreGiven, Import!Announced, Import!Runs
<1>3. Import!AnnouncedOnce'
  <2>1. ASSUME NEW d \in ImportClients, NEW e \in ImportClients, client'[d].pc = "summary",
               client'[e].pc = "summary", client'[d].id = client'[e].id
        PROVE  d = e
    <3>1. \/ client[d].pc = "summary" /\ client'[d].id = client[d].id
          \/ d = c /\ client'[c].id = v3.last + 1
      BY <2>1
    <3>2. \/ client[e].pc = "summary" /\ client'[e].id = client[e].id
          \/ e = c /\ client'[c].id = v3.last + 1
      BY <2>1
    <3>3. /\ client[d].pc = "summary" => client[d].id # v3.last + 1
          /\ client[e].pc = "summary" => client[e].id # v3.last + 1
      BY <1>6
    <3> QED
      BY <1>5, <2>1, <3>1, <3>2, <3>3
  <2>2. ASSUME NEW d \in ImportClients, NEW e \in ImportClients, client'[d].pc = "summary",
               chain'[e] # Import!NoChain
        PROVE  client'[d].id # chain'[e].id
    <3>1. \/ client[d].pc = "summary" /\ client'[d].id = client[d].id
          \/ d = c /\ client'[c].id = v3.last + 1
      BY <2>2
    <3>2. \/ chain[e] # Import!NoChain /\ chain'[e].id = chain[e].id
          \/ e = c /\ client[c].pc = "summary" /\ chain'[c].id = client[c].id /\ client'[c].pc # "summary"
      BY <2>2
    <3>3. /\ client[c].pc = "summary" => client[c].id # v3.last + 1
          /\ chain[e] # Import!NoChain => chain[e].id # v3.last + 1
      BY <1>6
    <3>4. d = c => ~(e = c /\ client'[c].pc # "summary")
      BY <2>2
    <3>5. /\ client[d].pc = "summary" /\ chain[e] # Import!NoChain => client[d].id # chain[e].id
          /\ client[d].pc = "summary" /\ client[c].pc = "summary" /\ d # c => client[d].id # client[c].id
      BY <1>5
    <3> QED
      BY <2>2, <3>1, <3>2, <3>3, <3>4, <3>5
  <2> QED
    BY <2>1, <2>2 DEF Import!AnnouncedOnce, Import!Announced, Import!Runs
<1>4. Import!OneChainPerDocument'
  BY <1>1 DEF Import!OneChainPerDocument, Import!AnnouncedOnce, Import!Announced, Import!Runs
<1> QED
  BY <1>2, <1>3, <1>4

\* Every step of the import keeps what ImportedOnce rests on.
LEMMA ImportSteps ==
  ASSUME Import!ImportInv, Import!Next
  PROVE  Import!ImportInv'
<1> DEFINE cooldown == v1  granted == v2  queue == v3  client == v5  chain == v6
           Ids == Import!IdsAreGiven /\ Import!AnnouncedOnce /\ Import!OneChainPerDocument
           Fetched == Import!GrantIsPersisted /\ Import!OneFetchPerCooldown
<1>1. Import!Shapes /\ Ids /\ Fetched
  BY DEF Import!ImportInv
<1>2. /\ cooldown \in [memory : BOOLEAN, persisted : BOOLEAN] /\ granted \in [count : 0 .. 2, blind : BOOLEAN]
      /\ queue = [row |-> queue.row, last |-> queue.last] /\ queue.last \in Nat
      /\ DOMAIN client = ImportClients /\ DOMAIN chain = ImportClients
      /\ client = [c \in ImportClients |-> client[c]] /\ chain = [c \in ImportClients |-> chain[c]]
  BY <1>1 DEF Import!Shapes
<1>3. \A c \in ImportClients :
        /\ client[c] = IF client[c].pc \in {"summary", "indexed", "hook"}
                       THEN [pc |-> client[c].pc, id |-> client[c].id] ELSE [pc |-> client[c].pc]
        /\ chain[c] = IF chain[c] # Import!NoChain THEN [pc |-> chain[c].pc, id |-> chain[c].id] ELSE Import!NoChain
  BY <1>1 DEF Import!Shapes, Import!Runs
\* The history of the fetches: a step that neither allows one nor ends the cooldown.
<1>4. ASSUME granted'.count = granted.count, granted.blind => granted'.blind, cooldown'.persisted = cooldown.persisted
      PROVE  Fetched'
  BY <1>1, <1>4 DEF Import!GrantIsPersisted, Import!OneFetchPerCooldown
\* A step that leaves the ids alone.
<1>5. ASSUME client' = client, chain' = chain, queue' = [row |-> queue'.row, last |-> queue.last],
             cooldown' \in [memory : BOOLEAN, persisted : BOOLEAN], granted' \in [count : 0 .. 2, blind : BOOLEAN]
      PROVE  Import!Shapes' /\ Ids'
  BY <1>1, <1>2, <1>5 DEF Import!Shapes, Import!Runs, Import!Announced, Import!IdsAreGiven, Import!AnnouncedOnce, Import!OneChainPerDocument
\* A client that goes on without announcing a row.
<1>6. ASSUME NEW c \in ImportClients, NEW x, client' = [client EXCEPT ![c] = x], chain' = chain,
             x = IF x.pc \in {"summary", "indexed", "hook"} THEN [pc |-> x.pc, id |-> x.id] ELSE [pc |-> x.pc],
             x.pc # "summary", queue' = [row |-> queue'.row, last |-> queue'.last],
             queue'.last \in Nat, queue'.last >= queue.last,
             cooldown' \in [memory : BOOLEAN, persisted : BOOLEAN], granted' \in [count : 0 .. 2, blind : BOOLEAN]
      PROVE  Import!Shapes' /\ Ids'
  <2>1. chain' = [chain EXCEPT ![c] = chain[c]]
    BY <1>2, <1>6
  <2>2. Import!Shapes'
    BY <1>1, <1>3, <1>6, <2>1, ImportShapes
  <2>3. \A d \in ImportClients : client'[d] = IF d = c THEN x ELSE client[d]
    BY <1>2, <1>6
  <2>4. \A d \in ImportClients : client'[d].pc = "summary" => client[d].pc = "summary" /\ client'[d].id = client[d].id
    BY <1>6, <2>3
  <2>5. Ids'
    BY <1>1, <1>2, <1>6, <2>4, ImportIds
  <2> QED
    BY <2>2, <2>5
\* A chain that goes on or ends.
<1>7. ASSUME NEW c \in ImportClients, NEW y, client' = client, chain' = [chain EXCEPT ![c] = y],
             y = IF y # Import!NoChain THEN [pc |-> y.pc, id |-> y.id] ELSE Import!NoChain,
             y # Import!NoChain => chain[c] # Import!NoChain /\ y.id = chain[c].id,
             queue' = [row |-> queue'.row, last |-> queue.last],
             cooldown' \in [memory : BOOLEAN, persisted : BOOLEAN], granted' \in [count : 0 .. 2, blind : BOOLEAN]
      PROVE  Import!Shapes' /\ Ids'
  <2>1. client' = [client EXCEPT ![c] = client[c]]
    BY <1>2, <1>7
  <2>2. queue'.last = queue.last
    BY <1>7
  <2>3. Import!Shapes'
    BY <1>1, <1>2, <1>3, <1>7, <2>1, <2>2, ImportShapes
  <2>4. \A d \in ImportClients : chain'[d] = IF d = c THEN y ELSE chain[d]
    BY <1>2, <1>7
  <2>5. \A d \in ImportClients : chain'[d] # Import!NoChain => chain[d] # Import!NoChain /\ chain'[d].id = chain[d].id
    BY <1>7, <2>4
  <2>6. Ids'
    BY <1>1, <1>2, <1>7, <2>2, <2>5, ImportIds
  <2> QED
    BY <2>3, <2>6
\* A client that goes where it carries no id.
<1>8. ASSUME NEW c \in ImportClients, NEW s, s \notin {"summary", "indexed", "hook"},
             client' = [client EXCEPT ![c] = [pc |-> s]], chain' = chain,
             queue' = [row |-> queue'.row, last |-> queue'.last], queue'.last \in Nat, queue'.last >= queue.last,
             cooldown' \in [memory : BOOLEAN, persisted : BOOLEAN], granted' \in [count : 0 .. 2, blind : BOOLEAN]
      PROVE  Import!Shapes' /\ Ids'
  <2> DEFINE x == [pc |-> s]
  <2>1. x = (IF x.pc \in {"summary", "indexed", "hook"} THEN [pc |-> x.pc, id |-> x.id] ELSE [pc |-> x.pc]) /\ x.pc # "summary"
    BY <1>8
  <2>2. client' = [client EXCEPT ![c] = x]
    BY <1>8
  <2> HIDE DEF x
  <2> QED
    BY <1>6, <1>8, <2>1, <2>2
<1> HIDE DEF Ids, Fetched
<1> USE DEF Import!At, Import!Returns, Import!Idle, Import!Works, Import!Fails
<1>9. ASSUME NEW c \in ImportClients, Import!Request(c) \/ Import!Peek(c) \/ Import!Mark(c) \/ Import!Fetch(c) \/ Import!TakePlace(c)
      PROVE  Import!ImportInv'
  <2>1. PICK s \in {"idle", "peek", "sem", "manual", "claim", "fetch", "create"} : client' = [client EXCEPT ![c] = [pc |-> s]]
    BY <1>9 DEF Import!Request, Import!Peek, Import!Mark, Import!Fetch, Import!TakePlace
  <2>2. UNCHANGED <<granted, queue, chain>> /\ cooldown' \in {cooldown, [cooldown EXCEPT !.memory = TRUE]}
    BY <1>9 DEF Import!Request, Import!Peek, Import!Mark, Import!Fetch, Import!TakePlace
  <2>3. cooldown' \in [memory : BOOLEAN, persisted : BOOLEAN] /\ cooldown'.persisted = cooldown.persisted
    BY <1>2, <2>2
  <2>4. Import!Shapes' /\ Ids'
    BY <1>2, <1>8, <2>1, <2>2, <2>3
  <2>5. Fetched'
    BY <1>4, <2>2, <2>3
  <2> QED
    BY <2>4, <2>5 DEF Import!ImportInv, Ids, Fetched
<1>10. ASSUME NEW c \in ImportClients, Import!Claim(c) PROVE Import!ImportInv'
  <2>1. PICK s \in {"idle", "mark"} : client' = [client EXCEPT ![c] = [pc |-> s]]
    BY <1>10 DEF Import!Claim, Import!Grant
  <2>2. UNCHANGED <<queue, chain>>
    BY <1>10 DEF Import!Claim
  <2>3. CASE cooldown.persisted
    <3>1. UNCHANGED <<granted, cooldown>>
      BY <1>10, <2>3 DEF Import!Claim
    <3>2. Import!Shapes' /\ Ids'
      BY <1>2, <1>8, <2>1, <2>2, <3>1
    <3>3. Fetched'
      BY <1>4, <3>1
    <3> QED
      BY <3>2, <3>3 DEF Import!ImportInv, Ids, Fetched
  <2>4. CASE ~cooldown.persisted
    <3>1. /\ cooldown' = [cooldown EXCEPT !.persisted = TRUE]
          /\ granted' = [granted EXCEPT !.count = IF @ < 2 THEN @ + 1 ELSE @]
      BY <1>10, <2>4 DEF Import!Claim, Import!Grant
    <3>2. cooldown' \in [memory : BOOLEAN, persisted : BOOLEAN] /\ cooldown'.persisted
      BY <1>2, <3>1
    <3>3. /\ granted' \in [count : 0 .. 2, blind : BOOLEAN] /\ granted'.blind = granted.blind
          /\ granted.count = 0 => granted'.count = 1
      BY <1>2, <3>1
    <3>4. granted.count \in 0 .. 2 /\ (granted.count > 0 => granted.blind)
      BY <1>1, <1>2, <2>4 DEF Fetched, Import!GrantIsPersisted
    <3>5. granted'.count <= 1 \/ granted'.blind
      <4>1. CASE granted.count = 0
        BY <3>3, <4>1
      <4>2. CASE granted.count > 0
        BY <3>3, <3>4, <4>2
      <4> QED
        BY <3>4, <4>1, <4>2
    <3>6. Fetched'
      BY <3>2, <3>5 DEF Fetched, Import!GrantIsPersisted, Import!OneFetchPerCooldown
    <3>7. Import!Shapes' /\ Ids'
      <4>1. queue' = [row |-> queue'.row, last |-> queue'.last] /\ queue'.last \in Nat /\ queue'.last >= queue.last
        BY <1>2, <2>2
      <4> QED
        BY <1>8, <2>1, <2>2, <3>2, <3>3, <4>1
    <3> QED
      BY <3>6, <3>7 DEF Import!ImportInv, Ids, Fetched
  <2> QED
    BY <2>3, <2>4
<1>11. ASSUME NEW c \in ImportClients, Import!ClaimInMemory(c) PROVE Import!ImportInv'
  <2>1. PICK s \in {"idle", "fetch"} : client' = [client EXCEPT ![c] = [pc |-> s]]
    BY <1>11 DEF Import!ClaimInMemory
  <2>2. /\ UNCHANGED <<queue, chain>>
        /\ granted' = [granted EXCEPT !.blind = TRUE] /\ cooldown' = [cooldown EXCEPT !.memory = TRUE]
    BY <1>11 DEF Import!ClaimInMemory
  <2>3. /\ cooldown' \in [memory : BOOLEAN, persisted : BOOLEAN] /\ granted' \in [count : 0 .. 2, blind : BOOLEAN]
        /\ cooldown'.persisted = cooldown.persisted /\ granted'.count = granted.count /\ granted'.blind
    BY <1>2, <2>2
  <2>4. Import!Shapes' /\ Ids'
    BY <1>2, <1>8, <2>1, <2>2, <2>3
  <2>5. Fetched'
    BY <1>4, <2>3
  <2> QED
    BY <2>4, <2>5 DEF Import!ImportInv, Ids, Fetched
<1>12. ASSUME NEW c \in ImportClients, Import!Create(c) PROVE Import!ImportInv'
  <2> DEFINE made == Import!CreateIfAbsent("push")
  <2>1. /\ made.queue = [row |-> made.queue.row, last |-> made.queue.last] /\ made.queue.last \in Nat
        /\ made.queue.last >= queue.last
        /\ made.created => made.id = queue.last + 1 /\ made.id <= made.queue.last
    BY <1>2 DEF Import!CreateIfAbsent
  <2>2. UNCHANGED <<granted, cooldown, chain>>
    BY <1>12 DEF Import!Create
  <2>3. Fetched'
    BY <1>4, <2>2
  <2>4. CASE queue' = made.queue /\ made.created /\ client' = [client EXCEPT ![c] = [pc |-> "summary", id |-> made.id]]
    <3> DEFINE x == [pc |-> "summary", id |-> made.id]
    <3>1. x = (IF x.pc \in {"summary", "indexed", "hook"} THEN [pc |-> x.pc, id |-> x.id] ELSE [pc |-> x.pc])
          /\ x.id = made.id /\ client' = [client EXCEPT ![c] = x]
      BY <2>4
    <3> HIDE DEF made, x
    <3>2. /\ queue' = [row |-> queue'.row, last |-> queue'.last] /\ queue'.last \in Nat /\ queue'.last >= queue.last
          /\ x.id = queue.last + 1 /\ queue.last + 1 <= queue'.last
      BY <2>1, <2>4, <3>1
    <3>3. chain' = [chain EXCEPT ![c] = chain[c]]
      BY <1>2, <2>2
    <3>8. /\ chain[c] = IF chain[c] # Import!NoChain THEN [pc |-> chain[c].pc, id |-> chain[c].id] ELSE Import!NoChain
          /\ cooldown' \in [memory : BOOLEAN, persisted : BOOLEAN] /\ granted' \in [count : 0 .. 2, blind : BOOLEAN]
      BY <1>2, <1>3, <2>2
    <3>4. Import!Shapes'
      BY <1>1, <3>1, <3>2, <3>3, <3>8, ImportShapes
    <3>5. \A d \in ImportClients : client'[d] = IF d = c THEN x ELSE client[d]
      BY <1>2, <3>1
    <3>6. \A d \in ImportClients : client'[d].pc = "summary" =>
            \/ client[d].pc = "summary" /\ client'[d].id = client[d].id
            \/ d = c /\ client'[c].id = queue.last + 1 /\ queue.last + 1 <= queue'.last
      BY <3>2, <3>5
    <3>7. Ids'
      BY <1>1, <1>2, <2>2, <3>2, <3>6, ImportIds DEF Ids
    <3> QED
      BY <2>3, <3>4, <3>7 DEF Import!ImportInv, Ids, Fetched
  <2>5. CASE queue' \in {queue, made.queue} /\ client' = [client EXCEPT ![c] = [pc |-> "idle"]]
    <3>1. queue' = [row |-> queue'.row, last |-> queue'.last] /\ queue'.last \in Nat /\ queue'.last >= queue.last
      BY <1>2, <2>1, <2>5
    <3>2. Import!Shapes' /\ Ids'
      BY <1>2, <1>8, <2>2, <2>5, <3>1
    <3> QED
      BY <2>3, <3>2 DEF Import!ImportInv, Ids, Fetched
  <2>6. \/ queue' = made.queue /\ client' = [client EXCEPT ![c] = IF made.created THEN [pc |-> "summary", id |-> made.id] ELSE [pc |-> "idle"]]
        \/ queue' = queue /\ client' = [client EXCEPT ![c] = [pc |-> "idle"]]
    BY <1>12 DEF Import!Create
  <2> HIDE DEF made
  <2> QED
    BY <2>4, <2>5, <2>6
<1>13. ASSUME NEW c \in ImportClients, Import!StartChain(c) PROVE Import!ImportInv'
  <2>1. /\ client[c].pc = "summary" /\ client' = [client EXCEPT ![c] = [pc |-> "idle"]]
        /\ UNCHANGED <<cooldown, granted, queue>>
        /\ chain' = [chain EXCEPT ![c] = [pc |-> "index", id |-> client[c].id]] \/ chain' = chain
    BY <1>13 DEF Import!StartChain
  <2>2. Fetched'
    BY <1>4, <2>1
  <2>3. /\ queue' = [row |-> queue'.row, last |-> queue'.last] /\ queue'.last \in Nat /\ queue'.last >= queue.last
        /\ cooldown' \in [memory : BOOLEAN, persisted : BOOLEAN] /\ granted' \in [count : 0 .. 2, blind : BOOLEAN]
    BY <1>2, <2>1
  <2>4. CASE chain' = chain
    <3>2. PICK s \in {"idle"} : client' = [client EXCEPT ![c] = [pc |-> s]]
      BY <2>1
    <3>1. Import!Shapes' /\ Ids'
      BY <1>8, <2>3, <2>4, <3>2
    <3> QED
      BY <2>2, <3>1 DEF Import!ImportInv, Ids, Fetched
  <2>5. CASE chain' = [chain EXCEPT ![c] = [pc |-> "index", id |-> client[c].id]]
    <3> DEFINE x == [pc |-> "idle"]
               y == [pc |-> "index", id |-> client[c].id]
    <3>1. /\ x = IF x.pc \in {"summary", "indexed", "hook"} THEN [pc |-> x.pc, id |-> x.id] ELSE [pc |-> x.pc]
          /\ y = IF y # Import!NoChain THEN [pc |-> y.pc, id |-> y.id] ELSE Import!NoChain
          /\ x.pc # "summary" /\ y.id = client[c].id
          /\ client' = [client EXCEPT ![c] = x] /\ chain' = [chain EXCEPT ![c] = y]
      BY <2>1, <2>5 DEF Import!NoChain
    <3> HIDE DEF x, y
    <3>2. Import!Shapes'
      BY <1>1, <2>3, <3>1, ImportShapes
    <3>3. \A d \in ImportClients : client'[d] = (IF d = c THEN x ELSE client[d]) /\ chain'[d] = (IF d = c THEN y ELSE chain[d])
      BY <1>2, <3>1
    <3>4. \A d \in ImportClients : client'[d].pc = "summary" => client[d].pc = "summary" /\ client'[d].id = client[d].id
      BY <3>1, <3>3
    <3>5. \A d \in ImportClients : chain'[d] # Import!NoChain =>
            \/ chain[d] # Import!NoChain /\ chain'[d].id = chain[d].id
            \/ d = c /\ client[c].pc = "summary" /\ chain'[c].id = client[c].id /\ client'[c].pc # "summary"
      BY <2>1, <3>1, <3>3
    <3>6. Ids'
      BY <1>1, <1>2, <2>3, <3>4, <3>5, ImportIds DEF Ids
    <3> QED
      BY <2>2, <3>2, <3>6 DEF Import!ImportInv, Ids, Fetched
  <2> QED
    BY <2>1, <2>4, <2>5
\* A chain writes the state of its row and goes on, or ends.
<1>14. ASSUME NEW c \in ImportClients, Import!Indexed(c) \/ Import!Preflight(c) \/ Import!Publish(c) \/ Import!TimeOut(c)
       PROVE  Import!ImportInv'
  <2> USE DEF Import!SetState, Import!Goes, Import!Ends
  <2>1. UNCHANGED <<cooldown, granted, client>>
    BY <1>14 DEF Import!Indexed, Import!Preflight, Import!Publish, Import!TimeOut
  <2>2. queue' = [row |-> queue'.row, last |-> queue.last]
    BY <1>2, <1>14 DEF Import!Indexed, Import!Preflight, Import!Publish, Import!TimeOut
  <2>3. chain[c] # Import!NoChain
    BY <1>14 DEF Import!Indexed, Import!Preflight, Import!Publish, Import!TimeOut, Import!NoChain
  <2>4. \/ chain' = [chain EXCEPT ![c] = Import!NoChain]
        \/ chain' = [chain EXCEPT ![c].pc = "preflight"]
        \/ chain' = [chain EXCEPT ![c].pc = "publish"]
    BY <1>14 DEF Import!Indexed, Import!Preflight, Import!Publish, Import!TimeOut
  <2>5. chain[c] = [pc |-> chain[c].pc, id |-> chain[c].id]
    BY <1>3, <2>3
  <2>6. PICK y \in {Import!NoChain, [pc |-> "preflight", id |-> chain[c].id], [pc |-> "publish", id |-> chain[c].id]} :
          chain' = [chain EXCEPT ![c] = y]
    <3>1. ASSUME NEW p PROVE [chain[c] EXCEPT !.pc = p] = [pc |-> p, id |-> chain[c].id]
      BY <2>5
    <3>2. ASSUME NEW p PROVE [chain EXCEPT ![c].pc = p] = [chain EXCEPT ![c] = [chain[c] EXCEPT !.pc = p]]
      OBVIOUS
    <3> QED
      BY <2>4, <3>1, <3>2
  <2>7. /\ y = IF y # Import!NoChain THEN [pc |-> y.pc, id |-> y.id] ELSE Import!NoChain
        /\ y # Import!NoChain => y.id = chain[c].id
    BY <2>6 DEF Import!NoChain
  <2>8. cooldown' \in [memory : BOOLEAN, persisted : BOOLEAN] /\ granted' \in [count : 0 .. 2, blind : BOOLEAN]
    BY <1>2, <2>1
  <2>9. Import!Shapes' /\ Ids'
    BY <1>7, <2>1, <2>2, <2>3, <2>6, <2>7, <2>8
  <2>10. Fetched'
    BY <1>4, <2>1
  <2> QED
    BY <2>9, <2>10 DEF Import!ImportInv, Ids, Fetched
<1>15. ASSUME NEW c \in ImportClients, Import!ManualCreate(c) \/ Import!ManualIndexed(c) \/ Import!ManualPublish(c)
       PROVE  Import!ImportInv'
  <2> DEFINE made == Import!CreateIfAbsent("manual")
  <2>1. made.queue = [row |-> made.queue.row, last |-> made.queue.last] /\ made.queue.last \in Nat
        /\ made.queue.last >= queue.last
    BY <1>2 DEF Import!CreateIfAbsent
  <2>2. UNCHANGED <<cooldown, granted, chain>>
    BY <1>15 DEF Import!ManualCreate, Import!ManualIndexed, Import!ManualPublish
  <2>3. queue' = [row |-> queue'.row, last |-> queue'.last] /\ queue'.last \in Nat /\ queue'.last >= queue.last
    BY <1>2, <1>15, <2>1 DEF Import!ManualCreate, Import!ManualIndexed, Import!ManualPublish, Import!SetState
  <2>4. cooldown' \in [memory : BOOLEAN, persisted : BOOLEAN] /\ granted' \in [count : 0 .. 2, blind : BOOLEAN]
    BY <1>2, <2>2
  <2>5. PICK x : /\ client' = [client EXCEPT ![c] = x] /\ x.pc # "summary"
                 /\ x = IF x.pc \in {"summary", "indexed", "hook"} THEN [pc |-> x.pc, id |-> x.id] ELSE [pc |-> x.pc]
    <3>1. CASE Import!ManualCreate(c)
      <4> DEFINE z == [pc |-> "indexed", id |-> made.id]
      <4>1. client' = [client EXCEPT ![c] = z] /\ z.pc = "indexed" /\ z = [pc |-> z.pc, id |-> z.id]
        BY <3>1 DEF Import!ManualCreate
      <4> HIDE DEF z
      <4> QED
        BY <4>1
    <3>2. CASE Import!ManualIndexed(c)
      <4> DEFINE z == [client[c] EXCEPT !.pc = "hook"]
      <4>1. client' = [client EXCEPT ![c] = z] /\ client[c].pc = "indexed"
        BY <3>2 DEF Import!ManualIndexed
      <4>2. client[c] = [pc |-> client[c].pc, id |-> client[c].id]
        BY <1>3, <4>1
      <4>3. z.pc = "hook" /\ z = [pc |-> z.pc, id |-> z.id]
        BY <4>2
      <4> HIDE DEF z
      <4> QED
        BY <4>1, <4>3
    <3>3. CASE Import!ManualPublish(c)
      <4> DEFINE z == [pc |-> "idle"]
      <4>1. client' = [client EXCEPT ![c] = z] /\ z.pc = "idle" /\ z = [pc |-> z.pc]
        BY <3>3 DEF Import!ManualPublish
      <4> HIDE DEF z
      <4> QED
        BY <4>1
    <3> QED
      BY <1>15, <3>1, <3>2, <3>3
  <2>6. Import!Shapes' /\ Ids'
    BY <1>6, <2>2, <2>3, <2>4, <2>5
  <2>7. Fetched'
    BY <1>4, <2>2
  <2> QED
    BY <2>6, <2>7 DEF Import!ImportInv, Ids, Fetched
<1>16. ASSUME NEW k \in Import!Keys, Import!Cancel(k) \/ Import!Delete(k) PROVE Import!ImportInv'
  <2>1. UNCHANGED <<cooldown, granted, client, chain>> /\ queue' = [row |-> queue'.row, last |-> queue.last]
    BY <1>2, <1>16 DEF Import!Cancel, Import!Delete, Import!SetState
  <2>2. Import!Shapes' /\ Ids'
    BY <1>2, <1>5, <2>1
  <2>3. Fetched'
    BY <1>4, <2>1
  <2> QED
    BY <2>2, <2>3 DEF Import!ImportInv, Ids, Fetched
<1>17. CASE Import!Lapse
  <2>1. UNCHANGED <<queue, client, chain>>
    BY <1>17 DEF Import!Lapse
  <2>2. CASE cooldown' = [cooldown EXCEPT !.memory = FALSE] /\ granted' = granted
    <3>1. cooldown' \in [memory : BOOLEAN, persisted : BOOLEAN] /\ cooldown'.persisted = cooldown.persisted
      BY <1>2, <2>2
    <3>2. Import!Shapes' /\ Ids'
      BY <1>2, <1>5, <2>1, <2>2, <3>1
    <3>3. Fetched'
      BY <1>4, <2>2, <3>1
    <3> QED
      BY <3>2, <3>3 DEF Import!ImportInv, Ids, Fetched
  <2>3. CASE cooldown' = [cooldown EXCEPT !.persisted = FALSE] /\ granted' = [count |-> 0, blind |-> FALSE]
    <3>1. granted' \in [count : 0 .. 2, blind : BOOLEAN] /\ granted'.count = 0
      BY <2>3
    <3>4. cooldown' \in [memory : BOOLEAN, persisted : BOOLEAN]
      BY <1>2, <2>3
    <3>2. Import!Shapes' /\ Ids'
      BY <1>2, <1>5, <2>1, <3>1, <3>4
    <3>3. Fetched'
      BY <3>1 DEF Fetched, Import!GrantIsPersisted, Import!OneFetchPerCooldown
    <3> QED
      BY <3>2, <3>3 DEF Import!ImportInv, Ids, Fetched
  <2> QED
    BY <1>17, <2>2, <2>3 DEF Import!Lapse
<1>18. CASE Import!Restart
  <2>1. /\ cooldown' = [cooldown EXCEPT !.memory = FALSE] /\ granted' = granted
        /\ queue' = [row |-> queue'.row, last |-> queue.last]
        /\ client' = [c \in ImportClients |-> [pc |-> "idle"]] /\ chain' = [c \in ImportClients |-> Import!NoChain]
    BY <1>2, <1>18 DEF Import!Restart
  <2>2. cooldown' \in [memory : BOOLEAN, persisted : BOOLEAN] /\ cooldown'.persisted = cooldown.persisted
    BY <1>2, <2>1
  <2>3. Import!Shapes'
    BY <1>2, <2>1, <2>2 DEF Import!Shapes, Import!Runs
  <2>4. Ids'
    BY <2>1 DEF Ids, Import!Runs, Import!Announced, Import!IdsAreGiven, Import!AnnouncedOnce, Import!OneChainPerDocument
  <2>5. Fetched'
    BY <1>4, <2>1, <2>2
  <2> QED
    BY <2>3, <2>4, <2>5 DEF Import!ImportInv, Ids, Fetched
<1> QED
  BY <1>9, <1>10, <1>11, <1>12, <1>13, <1>14, <1>15, <1>16, <1>17, <1>18 DEF Import!Next

-----------------------------------------------------------------------------
(* SegmentCheck: a verdict on what was heard *)

\* No check has begun.
LEMMA StatBegins == ASSUME Stat!Init PROVE Stat!SegmentInv
<1> USE StatAssumption DEF Stat!Init, Stat!NoCheck, Stat!Resting
<1>1. Stat!Shapes
  BY DEF Stat!Shapes, Stat!Indexes
<1>2. Stat!NoneOverlooked /\ Stat!HeardMissing /\ Stat!VerdictIsProven
  BY DEF Stat!NoneOverlooked, Stat!HeardMissing, Stat!VerdictIsProven
<1> QED
  BY <1>1, <1>2 DEF Stat!SegmentInv

\* Every step of the checks keeps what VerdictIsProven rests on.
LEMMA StatSteps ==
  ASSUME Stat!SegmentInv, Stat!Next
  PROVE  Stat!SegmentInv'
<1> DEFINE article == v1  check == v2  asker == v3  answered == v4
           Asker == [pc : {"free", "gone"}, at : 0 .. StatArticles] \cup [pc : {"ask", "pause"}, at : 1 .. StatArticles]
           Check == [mode : {"none", "preflight", "full", "passed", "failed", "undecided"}, next : 1 .. StatArticles + 1,
                     taken : SUBSET (1 .. StatArticles), found : 0 .. StatArticles, cancelled : BOOLEAN, over : BOOLEAN]
           Answered == [missing : [1 .. StatArticles -> 0 .. 2], asked : SUBSET (1 .. StatArticles)]
<1> USE StatAssumption DEF Stat!Indexes
<1>1. Stat!Shapes <=> /\ article \in [Stat!Indexes -> {"there", "gone", "flaky"}] /\ check \in Check
                      /\ asker \in [StatAskers -> Asker] /\ answered \in Answered
  BY DEF Stat!Shapes
<1>2. Stat!Shapes' <=> /\ article' \in [Stat!Indexes -> {"there", "gone", "flaky"}] /\ check' \in Check
                       /\ asker' \in [StatAskers -> Asker] /\ answered' \in Answered
  BY DEF Stat!Shapes
<1>3. /\ article \in [Stat!Indexes -> {"there", "gone", "flaky"}] /\ check \in Check
      /\ asker \in [StatAskers -> Asker] /\ answered \in Answered
  BY <1>1 DEF Stat!SegmentInv
<1>4. Stat!NoneOverlooked /\ Stat!HeardMissing /\ Stat!VerdictIsProven
  BY DEF Stat!SegmentInv
<1>5. ASSUME NEW mode \in {"preflight", "full"}, Stat!Begin(mode), UNCHANGED article PROVE Stat!SegmentInv'
  <2>1. /\ check' \in Check /\ check'.mode = mode /\ check'.next = 1 /\ check'.taken = {} /\ check'.found = 0
        /\ ~check'.cancelled
    <3>1. check' = [mode |-> mode, next |-> 1, taken |-> {}, found |-> 0, cancelled |-> FALSE, over |-> FALSE]
      BY <1>5 DEF Stat!Begin, Stat!NoCheck
    <3>2. mode \in {"none", "preflight", "full", "passed", "failed", "undecided"} /\ 1 \in 1 .. StatArticles + 1
          /\ 0 \in 0 .. StatArticles
      BY <1>5
    <3> QED
      BY <3>1, <3>2
  <2>2. /\ asker' = [a \in StatAskers |-> [pc |-> "free", at |-> 0]] /\ asker' \in [StatAskers -> Asker]
        /\ answered' \in Answered
    BY <1>5 DEF Stat!Begin, Stat!Resting
  <2>3. Stat!Shapes'
    BY <1>2, <1>3, <1>5, <2>1, <2>2
  <2>4. Stat!NoneOverlooked'
    BY <2>1, <2>2 DEF Stat!NoneOverlooked, Stat!CameTo
  <2>5. Stat!HeardMissing' /\ Stat!VerdictIsProven'
    BY <2>1, <2>2 DEF Stat!HeardMissing, Stat!VerdictIsProven
  <2> QED
    BY <2>3, <2>4, <2>5 DEF Stat!SegmentInv
<1>6. ASSUME UNCHANGED <<article, check, asker, answered>> PROVE Stat!SegmentInv'
  BY <1>3, <1>4, <1>6 DEF Stat!SegmentInv, Stat!Shapes, Stat!NoneOverlooked, Stat!HeardMissing, Stat!VerdictIsProven,
     Stat!CameTo, Stat!AskedFor, Stat!Ended
<1>7. CASE Stat!Preflight \/ Stat!FullCheck
  <2>1. PICK mode \in {"preflight", "full"} : Stat!Begin(mode) /\ UNCHANGED article
    BY <1>7 DEF Stat!Preflight, Stat!FullCheck
  <2> QED
    BY <1>5, <2>1
<1>8. CASE Stat!Report \/ Stat!CooldownEnds
  <2>1. UNCHANGED article /\ (Stat!Begin("full") \/ UNCHANGED <<check, asker, answered>>)
    BY <1>8 DEF Stat!Report, Stat!CooldownEnds
  <2> QED
    BY <1>5, <1>6, <2>1
<1>9. CASE Stat!DeadlinePasses
  <2>1. /\ check' \in Check /\ check'.mode = check.mode /\ check'.next = check.next /\ check'.taken = check.taken
        /\ check'.found = check.found /\ check'.cancelled = check.cancelled /\ check'.over
        /\ check.mode # "passed" /\ UNCHANGED <<article, asker, answered>>
    BY <1>3, <1>9 DEF Stat!DeadlinePasses
  <2>2. Stat!Shapes'
    BY <1>2, <1>3, <2>1
  <2>3. Stat!NoneOverlooked'
    BY <1>4, <2>1 DEF Stat!NoneOverlooked, Stat!CameTo, Stat!AskedFor, Stat!Ended
  <2>4. Stat!HeardMissing' /\ Stat!VerdictIsProven'
    BY <1>4, <2>1 DEF Stat!HeardMissing, Stat!VerdictIsProven
  <2> QED
    BY <2>2, <2>3, <2>4 DEF Stat!SegmentInv
\* One asker goes to another place.
<1>10. ASSUME NEW a \in StatAskers, NEW x \in Asker, asker' = [asker EXCEPT ![a] = x]
       PROVE  asker' \in [StatAskers -> Asker] /\ \A b \in StatAskers : asker'[b] = IF b = a THEN x ELSE asker[b]
  BY <1>3, <1>10
<1>12. ASSUME NEW a \in StatAskers, NEW p PROVE [asker[a] EXCEPT !.pc = p] = [pc |-> p, at |-> asker[a].at]
  <2>1. asker[a] \in Asker
    BY <1>3
  <2>2. asker[a] = [pc |-> asker[a].pc, at |-> asker[a].at]
    BY <2>1
  <2> QED
    BY <2>2
<1>13. ASSUME NEW a \in StatAskers, NEW p, asker' = [asker EXCEPT ![a].pc = p]
       PROVE  asker' = [asker EXCEPT ![a] = [pc |-> p, at |-> asker[a].at]]
  <2>1. asker' = [asker EXCEPT ![a] = [asker[a] EXCEPT !.pc = p]]
    BY <1>13
  <2> QED
    BY <1>12, <2>1
<1>11. ASSUME NEW a \in StatAskers, Stat!TakeNext(a) PROVE Stat!SegmentInv'
  <2>1. check.mode = "full" /\ asker[a].pc = "free" /\ UNCHANGED <<article, answered>> /\ asker[a] \in Asker
    BY <1>3, <1>11 DEF Stat!TakeNext
  <2>2. CASE check' = check /\ asker' = [asker EXCEPT ![a] = [pc |-> "gone", at |-> asker[a].at]]
             /\ (check.next > StatArticles \/ Stat!Ended)
    <3> DEFINE x == [pc |-> "gone", at |-> asker[a].at]
    <3>1. x \in Asker /\ x.pc = "gone" /\ asker' = [asker EXCEPT ![a] = x]
      BY <2>1, <2>2
    <3> HIDE DEF x
    <3>2. asker' \in [StatAskers -> Asker] /\ \A b \in StatAskers : asker'[b] = IF b = a THEN x ELSE asker[b]
      BY <1>10, <3>1
    <3>3. Stat!Shapes'
      BY <1>2, <1>3, <2>1, <2>2, <3>2
    <3>4. \A i \in Stat!Indexes : Stat!AskedFor(i) => Stat!AskedFor(i)'
      BY <2>1, <3>1, <3>2 DEF Stat!AskedFor
    <3>5. Stat!NoneOverlooked'
      BY <1>4, <2>1, <2>2, <3>1, <3>2, <3>4 DEF Stat!NoneOverlooked, Stat!CameTo, Stat!Ended
    <3>6. Stat!HeardMissing' /\ Stat!VerdictIsProven'
      BY <1>4, <2>1, <2>2, <3>1, <3>2 DEF Stat!HeardMissing, Stat!VerdictIsProven
    <3> QED
      BY <3>3, <3>5, <3>6 DEF Stat!SegmentInv
  <2>3. CASE ~Stat!Ended /\ check.next <= StatArticles
    <3> DEFINE x == [pc |-> "ask", at |-> check.next]
    <3>1. check.next \in 1 .. StatArticles /\ ~ check.next > StatArticles
      BY <1>3, <2>3
    <3>2. x \in Asker /\ x.pc = "ask" /\ x.at = check.next /\ asker' = [asker EXCEPT ![a] = x]
      BY <1>11, <2>3, <3>1 DEF Stat!TakeNext
    <3>3. /\ check' = [check EXCEPT !.next = check.next + 1]
      BY <1>11, <2>3, <3>1 DEF Stat!TakeNext
    <3>0. PICK n \in 1 .. StatArticles : n = check.next
      BY <3>1
    <3>12. n + 1 \in 1 .. StatArticles + 1 /\ check' = [check EXCEPT !.next = n + 1]
      BY <3>0, <3>3
    <3>13. check' \in Check
      BY <1>3, <3>12
    <3>4. /\ check'.next = n + 1 /\ check'.mode = "full"
          /\ check'.cancelled = check.cancelled /\ check'.over = check.over /\ check'.found = check.found
      BY <1>3, <2>1, <3>12
    <3> HIDE DEF x
    <3>5. asker' \in [StatAskers -> Asker] /\ \A b \in StatAskers : asker'[b] = IF b = a THEN x ELSE asker[b]
      BY <1>10, <3>2
    <3>6. Stat!Shapes'
      BY <1>2, <1>3, <2>1, <3>13, <3>5
    <3>7. \A i \in Stat!Indexes : Stat!AskedFor(i) => Stat!AskedFor(i)'
      BY <2>1, <3>2, <3>5 DEF Stat!AskedFor
    <3>8. Stat!AskedFor(n)'
      BY <3>0, <3>2, <3>5 DEF Stat!AskedFor
    <3>9. \A i \in Stat!CameTo' : i \in Stat!CameTo \/ i = n
      BY <2>1, <3>0, <3>4 DEF Stat!CameTo
    <3>14. \A i \in Stat!CameTo' : Stat!AskedFor(i)'
      <4>1. ASSUME NEW i \in Stat!CameTo' PROVE i \in Stat!Indexes
        BY <4>1, <3>4 DEF Stat!CameTo
      <4> QED
        BY <1>4, <2>1, <3>7, <3>8, <3>9, <4>1 DEF Stat!NoneOverlooked
    <3>15. \A b \in StatAskers : asker'[b].pc # "gone"
      BY <1>4, <2>1, <2>3, <3>2, <3>5, <3>1 DEF Stat!NoneOverlooked
    <3>10. Stat!NoneOverlooked'
      BY <3>4, <3>14, <3>15 DEF Stat!NoneOverlooked
    <3>11. Stat!HeardMissing' /\ Stat!VerdictIsProven'
      BY <1>4, <2>1, <3>2, <3>4, <3>5 DEF Stat!HeardMissing, Stat!VerdictIsProven
    <3> QED
      BY <3>6, <3>10, <3>11 DEF Stat!SegmentInv
  <2>4. CASE ~Stat!Ended /\ check.next > StatArticles
    <3>1. check.next = StatArticles + 1
      BY <1>3, <2>4
    <3>2. check' = [check EXCEPT !.next = check.next] /\ asker' = [asker EXCEPT ![a] = [asker[a] EXCEPT !.pc = "gone"]]
      BY <1>11, <2>4, <3>1 DEF Stat!TakeNext
    <3>3. check' = check
      BY <1>3, <3>2
    <3>4. asker' = [asker EXCEPT ![a] = [pc |-> "gone", at |-> asker[a].at]]
      BY <1>12, <3>2
    <3> QED
      BY <2>2, <2>4, <3>3, <3>4
  <2>5. CASE Stat!Ended
    <3>1. check' = check /\ asker' = [asker EXCEPT ![a].pc = "gone"]
      BY <1>11, <2>5 DEF Stat!TakeNext
    <3>2. asker' = [asker EXCEPT ![a] = [pc |-> "gone", at |-> asker[a].at]]
      BY <1>13, <3>1
    <3> QED
      BY <2>2, <2>5, <3>1, <3>2
  <2> QED
    BY <1>3, <2>3, <2>4, <2>5
<1>14. ASSUME NEW a \in StatAskers, NEW i \in Stat!Indexes, Stat!TakePlace(a, i) PROVE Stat!SegmentInv'
  <2> DEFINE x == [pc |-> "ask", at |-> i]
  <2>1. /\ check.mode = "preflight" /\ asker[a].pc = "free" /\ check' = [check EXCEPT !.taken = @ \cup {i}]
        /\ UNCHANGED <<article, answered>>
        /\ x \in Asker /\ x.pc = "ask" /\ x.at = i /\ asker' = [asker EXCEPT ![a] = x]
    BY <1>14 DEF Stat!TakePlace
  <2> HIDE DEF x
  <2>2. asker' \in [StatAskers -> Asker] /\ \A b \in StatAskers : asker'[b] = IF b = a THEN x ELSE asker[b]
    BY <1>10, <2>1
  <2>3. check' \in Check
    BY <1>3, <2>1
  <2>4. /\ check'.mode = "preflight" /\ check'.taken = check.taken \cup {i} /\ check'.found = check.found
        /\ check'.cancelled = check.cancelled /\ check'.over = check.over
    BY <1>3, <2>1
  <2>5. Stat!Shapes'
    BY <1>2, <1>3, <2>1, <2>2, <2>3
  <2>6. \A j \in Stat!Indexes : Stat!AskedFor(j) => Stat!AskedFor(j)'
    BY <2>1, <2>2 DEF Stat!AskedFor
  <2>7. Stat!AskedFor(i)'
    BY <2>1, <2>2 DEF Stat!AskedFor
  <2>8. \A j \in check.taken : j \in Stat!Indexes /\ (Stat!AskedFor(j) \/ Stat!Ended)
    BY <1>3, <1>4, <2>1 DEF Stat!NoneOverlooked, Stat!CameTo
  <2>9. Stat!Ended' <=> Stat!Ended
    BY <2>4 DEF Stat!Ended
  <2>10. Stat!NoneOverlooked'
    BY <2>4, <2>6, <2>7, <2>8, <2>9 DEF Stat!NoneOverlooked, Stat!CameTo
  <2>11. Stat!HeardMissing' /\ Stat!VerdictIsProven'
    BY <1>4, <2>4 DEF Stat!HeardMissing, Stat!VerdictIsProven
  <2> QED
    BY <2>5, <2>10, <2>11 DEF Stat!SegmentInv
<1>15. ASSUME NEW i \in Stat!Indexes, Stat!LeaveUnasked(i) PROVE Stat!SegmentInv'
  <2>1. /\ check.mode = "preflight" /\ Stat!Ended /\ check' = [check EXCEPT !.taken = @ \cup {i}]
        /\ UNCHANGED <<article, asker, answered>>
    BY <1>15 DEF Stat!LeaveUnasked
  <2>2. check' \in Check
    BY <1>3, <2>1
  <2>3. /\ check'.mode = "preflight" /\ check'.found = check.found
        /\ check'.cancelled = check.cancelled /\ check'.over = check.over
    BY <1>3, <2>1
  <2>4. Stat!Shapes'
    BY <1>2, <1>3, <2>1, <2>2
  <2>5. Stat!NoneOverlooked'
    BY <2>1, <2>3 DEF Stat!NoneOverlooked, Stat!Ended
  <2>6. Stat!HeardMissing' /\ Stat!VerdictIsProven'
    BY <1>4, <2>3 DEF Stat!HeardMissing, Stat!VerdictIsProven
  <2> QED
    BY <2>4, <2>5, <2>6 DEF Stat!SegmentInv
\* An answer is written down.
<1>16. ASSUME NEW i \in Stat!Indexes, NEW answer, Stat!Heard(i, answer)
       PROVE  /\ answered' \in Answered /\ answered'.asked = answered.asked \cup {i}
              /\ \A j \in Stat!Indexes : answered.missing[j] = 2 => answered'.missing[j] = 2
              /\ \A j \in Stat!Indexes : answered.missing[j] > 0 => answered'.missing[j] > 0
              /\ answer = "missing" => answered'.missing[i] > 0
              /\ answer = "missing" /\ answered.missing[i] > 0 => answered'.missing[i] = 2
  <2> DEFINE m == answered.missing
             n == IF answer = "missing" /\ m[i] < 2 THEN m[i] + 1 ELSE m[i]
  <2>1. m \in [1 .. StatArticles -> 0 .. 2] /\ answered.asked \subseteq 1 .. StatArticles /\ n \in 0 .. 2
    BY <1>3
  <2>2. answered' = [missing |-> [m EXCEPT ![i] = n], asked |-> answered.asked \cup {i}]
    BY <1>16 DEF Stat!Heard
  <2>3. answered' \in Answered /\ answered'.asked = answered.asked \cup {i}
    BY <2>1, <2>2
  <2>4. \A j \in Stat!Indexes : answered'.missing[j] = IF j = i THEN n ELSE m[j]
    BY <2>1, <2>2
  <2>5. /\ m[i] = 2 => n = 2
        /\ m[i] > 0 => n > 0
        /\ answer = "missing" => n > 0
        /\ answer = "missing" /\ m[i] > 0 => n = 2
    BY <2>1
  <2> HIDE DEF n
  <2> QED
    BY <2>3, <2>4, <2>5
<1> DEFINE Moves(a, answer) ==
             /\ check' \in Check /\ check'.mode = check.mode
             /\ check'.next = check.next /\ check'.taken = check.taken /\ check'.over = check.over
             /\ \/ check' = check
                \/ /\ check'.cancelled /\ check'.found \in {check.found, asker[a].at} /\ check'.found > 0
                   /\ check.mode = "full" => answer = "missing" /\ asker[a].pc = "pause"
\* An asker hears the answer, and the check goes on, or stops for the article it heard of.
<1> DEFINE Hears(a, x, answer) ==
             /\ x \in Asker /\ asker[a].pc \in {"ask", "pause"} /\ asker' = [asker EXCEPT ![a] = x]
             /\ Stat!Heard(asker[a].at, answer) /\ article' = article /\ check.mode \in {"full", "preflight"}
             /\ check.mode = "full" => x.pc \in {"free", "pause"} \/ (x.pc = "gone" /\ check'.cancelled)
             /\ x.pc = "pause" => x.at = asker[a].at /\ answer = "missing"
<1>17. ASSUME NEW a \in StatAskers, NEW x, NEW answer, Moves(a, answer), Hears(a, x, answer)
       PROVE  Stat!SegmentInv'
  <2>1. asker' \in [StatAskers -> Asker] /\ \A b \in StatAskers : asker'[b] = IF b = a THEN x ELSE asker[b]
    BY <1>10, <1>17
  <2>2. PICK i \in Stat!Indexes : i = asker[a].at
    BY <1>3, <1>17
  <2>3. /\ answered' \in Answered /\ answered'.asked = answered.asked \cup {i}
        /\ \A j \in Stat!Indexes : answered.missing[j] = 2 => answered'.missing[j] = 2
        /\ \A j \in Stat!Indexes : answered.missing[j] > 0 => answered'.missing[j] > 0
        /\ answer = "missing" => answered'.missing[i] > 0
        /\ answer = "missing" /\ answered.missing[i] > 0 => answered'.missing[i] = 2
    BY <1>16, <1>17, <2>2
  <2>4. Stat!Shapes'
    BY <1>2, <1>3, <1>17, <2>1, <2>3
  <2>5. \A j \in Stat!Indexes : Stat!AskedFor(j) => Stat!AskedFor(j)'
    BY <2>1, <2>2, <2>3 DEF Stat!AskedFor
  <2>6. Stat!Ended => Stat!Ended'
    BY <1>17 DEF Stat!Ended
  <2>7. Stat!CameTo' = Stat!CameTo /\ \A j \in Stat!CameTo : j \in Stat!Indexes
    BY <1>3, <1>17 DEF Stat!CameTo
  <2>8. check.mode = "full" => \A b \in StatAskers : asker'[b].pc = "gone" => check'.next > StatArticles \/ Stat!Ended'
    BY <1>4, <1>17, <2>1, <2>6 DEF Stat!NoneOverlooked, Stat!Ended
  <2>9. Stat!NoneOverlooked'
    BY <1>4, <1>17, <2>5, <2>6, <2>7, <2>8 DEF Stat!NoneOverlooked
  <2>10. Stat!HeardMissing'
    <3>1. check'.cancelled => check'.found > 0
      BY <1>4, <1>17 DEF Stat!HeardMissing
    <3>2. ASSUME check.mode = "full", NEW b \in StatAskers, asker'[b].pc = "pause"
          PROVE  answered'.missing[asker'[b].at] > 0
      <4>1. CASE b = a
        BY <1>17, <2>1, <2>2, <2>3, <3>2, <4>1
      <4>2. CASE b # a
        <5>1. asker'[b] = asker[b] /\ asker[b].at \in Stat!Indexes
          BY <1>3, <2>1, <3>2, <4>2
        <5> QED
          BY <1>4, <2>3, <3>2, <5>1 DEF Stat!HeardMissing
      <4> QED
        BY <4>1, <4>2
    <3> QED
      BY <1>17, <3>1, <3>2 DEF Stat!HeardMissing
  <2>11. Stat!VerdictIsProven'
    <3>1. CASE check.mode = "preflight"
      BY <1>17, <3>1 DEF Stat!VerdictIsProven
    <3>2. CASE check.mode = "full"
      <4>1. check.found > 0 => check.found \in Stat!Indexes /\ answered.missing[check.found] = 2
        BY <1>3, <1>4, <3>2 DEF Stat!VerdictIsProven
      <4>2. CASE check' = check
        BY <1>17, <2>3, <3>2, <4>1, <4>2 DEF Stat!VerdictIsProven
      <4>3. CASE check'.found \in {check.found, i} /\ check'.found > 0 /\ answer = "missing" /\ asker[a].pc = "pause"
        <5>1. answered'.missing[i] = 2
          BY <1>4, <2>2, <2>3, <3>2, <4>3 DEF Stat!HeardMissing
        <5> QED
          BY <1>17, <2>3, <3>2, <4>1, <4>3, <5>1 DEF Stat!VerdictIsProven
      <4> QED
        BY <1>17, <2>2, <3>2, <4>2, <4>3
    <3> QED
      BY <1>17, <3>1, <3>2
  <2> QED
    BY <2>4, <2>9, <2>10, <2>11 DEF Stat!SegmentInv
<1>22. ASSUME NEW a, NEW answer, check' = check PROVE Moves(a, answer)
  BY <1>3, <1>22
<1>23. ASSUME NEW a, NEW answer, NEW n \in 0 .. StatArticles, check' = [check EXCEPT !.found = n, !.cancelled = TRUE],
              n \in {check.found, asker[a].at}, n > 0,
              check.mode = "full" => answer = "missing" /\ asker[a].pc = "pause"
       PROVE  Moves(a, answer) /\ check'.cancelled
  <2>1. check' \in Check
    BY <1>3, <1>23
  <2>2. /\ check'.mode = check.mode /\ check'.next = check.next /\ check'.taken = check.taken
        /\ check'.over = check.over /\ check'.cancelled /\ check'.found = n
    BY <1>3, <1>23
  <2> QED
    BY <1>23, <2>1, <2>2
<1> HIDE DEF Moves, Hears
<1>18. ASSUME NEW a \in StatAskers, Stat!AskFull(a) PROVE Stat!SegmentInv'
  <2>1. /\ check.mode = "full" /\ asker[a].pc = "ask" /\ asker[a].at \in Stat!Indexes
        /\ UNCHANGED <<article, check>>
    BY <1>3, <1>18 DEF Stat!AskFull
  <2>2. PICK answer :
          /\ Stat!Heard(asker[a].at, answer)
          /\ asker' = [asker EXCEPT ![a] = IF answer = "missing" THEN [@ EXCEPT !.pc = "pause"] ELSE Stat!Resting]
    BY <1>18 DEF Stat!AskFull
  <2> DEFINE x == IF answer = "missing" THEN [pc |-> "pause", at |-> asker[a].at] ELSE [pc |-> "free", at |-> 0]
  <2>3. asker' = [asker EXCEPT ![a] = x]
    <3>1. asker' = [asker EXCEPT ![a] = IF answer = "missing" THEN [asker[a] EXCEPT !.pc = "pause"] ELSE [pc |-> "free", at |-> 0]]
      BY <2>2 DEF Stat!Resting
    <3> QED
      BY <1>12, <3>1
  <2>4. x \in Asker /\ x.pc \in {"free", "pause"} /\ (x.pc = "pause" => x.at = asker[a].at /\ answer = "missing")
    BY <2>1
  <2>5. Moves(a, answer)
    BY <1>22, <2>1
  <2> HIDE DEF x
  <2>6. Hears(a, x, answer)
    BY <2>1, <2>2, <2>3, <2>4 DEF Hears
  <2> QED
    BY <1>17, <2>5, <2>6
<1>19. ASSUME NEW a \in StatAskers, Stat!AskAgain(a) PROVE Stat!SegmentInv'
  <2>1. /\ check.mode = "full" /\ asker[a].pc = "pause" /\ asker[a].at \in Stat!Indexes /\ article' = article
    BY <1>3, <1>19 DEF Stat!AskAgain
  <2>2. CASE Stat!Ended
    <3> DEFINE x == [pc |-> "gone", at |-> asker[a].at]
    <3>1. UNCHANGED <<check, answered>> /\ asker' = [asker EXCEPT ![a].pc = "gone"]
      BY <1>19, <2>2 DEF Stat!AskAgain
    <3>2. x \in Asker /\ x.pc = "gone" /\ asker' = [asker EXCEPT ![a] = x]
      <4>1. x \in [pc : {"free", "gone"}, at : 0 .. StatArticles] /\ x.pc = "gone"
        BY <2>1
      <4> QED
        BY <1>13, <3>1, <4>1
    <3> HIDE DEF x
    <3>3. asker' \in [StatAskers -> Asker] /\ \A b \in StatAskers : asker'[b] = IF b = a THEN x ELSE asker[b]
      BY <1>10, <3>2
    <3>4. Stat!Shapes'
      BY <1>2, <1>3, <2>1, <3>1, <3>3
    <3>5. \A i \in Stat!Indexes : Stat!AskedFor(i) => Stat!AskedFor(i)'
      BY <2>1, <3>1, <3>3 DEF Stat!AskedFor
    <3>6. Stat!NoneOverlooked'
      BY <1>4, <2>1, <2>2, <3>1, <3>5 DEF Stat!NoneOverlooked, Stat!CameTo, Stat!Ended
    <3>7. Stat!HeardMissing' /\ Stat!VerdictIsProven'
      BY <1>4, <2>1, <3>1, <3>2, <3>3 DEF Stat!HeardMissing, Stat!VerdictIsProven
    <3> QED
      BY <3>4, <3>6, <3>7 DEF Stat!SegmentInv
  <2>3. CASE ~Stat!Ended
    <3>1. PICK answer :
            /\ Stat!Heard(asker[a].at, answer)
            /\ IF answer = "missing"
               THEN /\ check' = [check EXCEPT !.found = IF @ = 0 \/ asker[a].at < @ THEN asker[a].at ELSE @,
                                              !.cancelled = TRUE]
                    /\ asker' = [asker EXCEPT ![a].pc = "gone"]
               ELSE asker' = [asker EXCEPT ![a] = Stat!Resting] /\ UNCHANGED check
      BY <1>19, <2>3 DEF Stat!AskAgain
    <3>2. CASE answer = "missing"
      <4> DEFINE x == [pc |-> "gone", at |-> asker[a].at]
                 n == IF check.found = 0 \/ asker[a].at < check.found THEN asker[a].at ELSE check.found
      <4>1. x \in [pc : {"free", "gone"}, at : 0 .. StatArticles] /\ x.pc = "gone"
        BY <2>1
      <4>2. asker' = [asker EXCEPT ![a] = x]
        BY <1>13, <3>1, <3>2
      <4>3. check' = [check EXCEPT !.found = n, !.cancelled = TRUE]
        BY <3>1, <3>2
      <4>4. n \in 0 .. StatArticles /\ n \in {check.found, asker[a].at} /\ n > 0
        BY <1>3, <2>1
      <4> HIDE DEF n, x
      <4>5. Moves(a, answer) /\ check'.cancelled
        BY <1>23, <2>1, <3>2, <4>3, <4>4
      <4>6. x \in Asker
        BY <4>1
      <4>7. Hears(a, x, answer)
        BY <2>1, <3>1, <4>1, <4>2, <4>5, <4>6 DEF Hears
      <4> QED
        BY <1>17, <4>5, <4>7
    <3>3. CASE answer # "missing"
      <4> DEFINE x == [pc |-> "free", at |-> 0]
      <4>1. x \in Asker /\ x.pc = "free" /\ asker' = [asker EXCEPT ![a] = x] /\ check' = check
        BY <3>1, <3>3 DEF Stat!Resting
      <4>2. Moves(a, answer)
        BY <1>22, <4>1
      <4> HIDE DEF x
      <4>3. Hears(a, x, answer)
        BY <2>1, <3>1, <4>1 DEF Hears
      <4> QED
        BY <1>17, <4>2, <4>3
    <3> QED
      BY <3>2, <3>3
  <2> QED
    BY <2>2, <2>3
<1>20. ASSUME NEW a \in StatAskers, Stat!AskPreflight(a) PROVE Stat!SegmentInv'
  <2>1. /\ check.mode = "preflight" /\ asker[a].pc = "ask" /\ asker[a].at \in Stat!Indexes /\ article' = article
    BY <1>3, <1>20 DEF Stat!AskPreflight
  <2>2. PICK answer :
          /\ Stat!Heard(asker[a].at, answer)
          /\ asker' = [asker EXCEPT ![a] = Stat!Resting]
          /\ check' = IF answer = "ok" THEN check
                      ELSE [check EXCEPT !.found = IF @ = 0 THEN asker[a].at ELSE @, !.cancelled = TRUE]
    BY <1>20 DEF Stat!AskPreflight
  <2> DEFINE x == [pc |-> "free", at |-> 0]
             n == IF check.found = 0 THEN asker[a].at ELSE check.found
  <2>3. x \in Asker /\ x.pc = "free" /\ asker' = [asker EXCEPT ![a] = x]
    BY <2>2 DEF Stat!Resting
  <2>4. n \in 0 .. StatArticles /\ n \in {check.found, asker[a].at} /\ n > 0
    BY <1>3, <2>1
  <2>5. check' = check \/ check' = [check EXCEPT !.found = n, !.cancelled = TRUE]
    BY <2>2
  <2> HIDE DEF n, x
  <2>6. Moves(a, answer)
    BY <1>22, <1>23, <2>1, <2>4, <2>5
  <2>7. Hears(a, x, answer)
    BY <2>1, <2>2, <2>3 DEF Hears
  <2> QED
    BY <1>17, <2>6, <2>7
<1>21. CASE Stat!Return
  <2> DEFINE m == IF check.found > 0 THEN "failed" ELSE IF check.mode = "full" /\ check.over THEN "undecided" ELSE "passed"
  <2>1. /\ check' = [check EXCEPT !.mode = m] /\ UNCHANGED <<article, asker, answered>>
        /\ \/ check.mode = "full" /\ \A a \in StatAskers : asker[a].pc = "gone"
           \/ check.mode = "preflight" /\ check.taken = Stat!Indexes /\ \A a \in StatAskers : asker[a].pc = "free"
    BY <1>21 DEF Stat!Return, Stat!Resting
  <2>2. m \in {"failed", "undecided", "passed"} /\ (m = "passed" => ~(check.found > 0) /\ ~(check.mode = "full" /\ check.over))
    OBVIOUS
  <2> HIDE DEF m
  <2>3. check' \in Check
    BY <1>3, <2>1, <2>2
  <2>4. check'.mode = m /\ check'.found = check.found /\ check'.cancelled = check.cancelled /\ check'.over = check.over
    BY <1>3, <2>1
  <2>5. Stat!Shapes'
    BY <1>2, <1>3, <2>1, <2>3
  <2>6. Stat!NoneOverlooked' /\ Stat!HeardMissing'
    BY <1>4, <2>2, <2>4 DEF Stat!NoneOverlooked, Stat!HeardMissing
  <2>7. ASSUME m = "passed", ~check.over PROVE answered.asked = Stat!Indexes
    <3>1. ~Stat!Ended
      BY <1>4, <2>2, <2>7 DEF Stat!HeardMissing, Stat!Ended
    <3>2. \A i \in Stat!Indexes : Stat!AskedFor(i) => i \in answered.asked
      BY <2>1 DEF Stat!AskedFor
    <3>3. CASE check.mode = "full"
      <4>1. check.next > StatArticles
        BY <1>4, <2>1, <3>1, <3>3 DEF Stat!NoneOverlooked
      <4>2. Stat!CameTo = Stat!Indexes
        BY <1>3, <3>3, <4>1 DEF Stat!CameTo
      <4> QED
        BY <1>3, <1>4, <3>2, <3>3, <4>2 DEF Stat!NoneOverlooked
    <3>4. CASE check.mode = "preflight"
      BY <1>3, <1>4, <2>1, <3>1, <3>2, <3>4 DEF Stat!NoneOverlooked, Stat!CameTo
    <3> QED
      BY <2>1, <3>3, <3>4
  <2>8. Stat!VerdictIsProven'
    BY <2>1, <2>2, <2>4, <2>7 DEF Stat!VerdictIsProven
  <2> QED
    BY <2>5, <2>6, <2>8 DEF Stat!SegmentInv
<1> QED
  BY <1>7, <1>8, <1>9, <1>11, <1>14, <1>15, <1>18, <1>19, <1>20, <1>21, Zenon DEF Stat!Next

-----------------------------------------------------------------------------
(* Calibration: sizes that were decoded *)

\* Nothing is written, and nothing runs.
LEMMA OffsetsBegin == ASSUME Offsets!Init PROVE Offsets!CalibrationInv
<1> USE OffsetsAssumption DEF Offsets!Init, Offsets!Resting, Offsets!Ends
<1>1. Offsets!Shapes
  BY DEF Offsets!Shapes
<1>2. Offsets!SizesAreHeard /\ Offsets!NothingWritten /\ Offsets!CalibratedOnEvidence
  BY DEF Offsets!SizesAreHeard, Offsets!NothingWritten, Offsets!CalibratedOnEvidence
<1> QED
  BY <1>1, <1>2 DEF Offsets!CalibrationInv

\* Every step of a calibration keeps what CalibratedOnEvidence rests on.
LEMMA OffsetsStep ==
  ASSUME Offsets!CalibrationInv, Offsets!Next
  PROVE  Offsets!CalibrationInv'
<1> DEFINE posted == v1  stored == v2  run == v3  proven == v5
           Run == [pc : {"idle", "decode", "confirm", "stat", "rescale"}, end : {"first", "last"},
                   sizes : [{"first", "last"} -> {0, OffsetsFirst} \cup OffsetsLast]]
           Known(x) == /\ x.end = "last" => x.sizes["first"] = OffsetsFirst
                       /\ x.pc = "rescale" =>
                            /\ x.end = "last"
                            /\ x.sizes["last"] = posted.last \/ (x.sizes["last"] = 0 /\ "last" \in proven')
           Stored == stored = [calibrated |-> stored.calibrated, size |-> stored.size, guess |-> stored.guess]
                     /\ stored.calibrated \in BOOLEAN
<1> USE OffsetsAssumption DEF Offsets!Ends
<1>1. posted.last \in OffsetsLast /\ run \in [OffsetsRuns -> Run] /\ Stored
  BY DEF Offsets!CalibrationInv, Offsets!Shapes
<1>2. Offsets!SizesAreHeard /\ Offsets!NothingWritten /\ Offsets!CalibratedOnEvidence
  BY DEF Offsets!CalibrationInv
\* One calibration goes on, and may have seen what it writes proven.
<1>3. ASSUME posted' = posted, proven \subseteq proven', NEW c \in OffsetsRuns, NEW x \in Run, Known(x),
             run' = [run EXCEPT ![c] = x]
      PROVE  Offsets!SizesAreHeard' /\ run' \in [OffsetsRuns -> Run]
  <2>1. run' \in [OffsetsRuns -> Run] /\ \A d \in OffsetsRuns : run'[d] = IF d = c THEN x ELSE run[d]
    BY <1>1, <1>3
  <2>2. ASSUME NEW d \in OffsetsRuns
        PROVE  /\ run'[d].end = "last" => run'[d].sizes["first"] = OffsetsFirst
               /\ run'[d].pc = "rescale" =>
                    /\ run'[d].end = "last"
                    /\ run'[d].sizes["last"] = posted'.last \/ (run'[d].sizes["last"] = 0 /\ "last" \in proven')
    <3>1. CASE d = c
      BY <1>3, <2>1, <3>1
    <3>2. CASE d # c
      BY <1>2, <1>3, <2>1, <3>2 DEF Offsets!SizesAreHeard
    <3> QED
      BY <3>1, <3>2
  <2> QED
    BY <2>1, <2>2 DEF Offsets!SizesAreHeard
\* What is written stays as it is.
<1>4. ASSUME UNCHANGED <<posted, stored>>, proven \subseteq proven',
             Offsets!SizesAreHeard', run' \in [OffsetsRuns -> Run]
      PROVE  Offsets!CalibrationInv'
  <2>1. Offsets!Shapes'
    BY <1>1, <1>4 DEF Offsets!Shapes
  <2>2. Offsets!NothingWritten' /\ Offsets!CalibratedOnEvidence'
    BY <1>2, <1>4 DEF Offsets!NothingWritten, Offsets!CalibratedOnEvidence, Offsets!calibratedDirectNZBSize
  <2> QED
    BY <1>4, <2>1, <2>2 DEF Offsets!CalibrationInv
<1>5. Offsets!Resting \in Run /\ Known(Offsets!Resting)
  BY DEF Offsets!Resting
<1>6. ASSUME NEW c \in OffsetsRuns, Offsets!Begin(c) PROVE Offsets!CalibrationInv'
  <2> DEFINE x == [Offsets!Resting EXCEPT !.pc = "decode"]
  <2>1. x \in Run /\ Known(x)
    BY DEF Offsets!Resting
  <2>2. run' = [run EXCEPT ![c] = x] /\ UNCHANGED <<posted, stored, proven>>
    BY <1>6 DEF Offsets!Begin
  <2> HIDE DEF x
  <2> QED
    BY <1>3, <1>4, <2>1, <2>2
<1>7. ASSUME NEW c \in OffsetsRuns, Offsets!LeaveForLater(c) PROVE Offsets!CalibrationInv'
  BY <1>3, <1>4, <1>5, <1>7 DEF Offsets!LeaveForLater
\* A size was decoded, or the last one is to be guessed for good reason.
<1>8. ASSUME NEW c \in OffsetsRuns, NEW size, Offsets!Known(c, size), proven \subseteq proven',
             \/ size = Offsets!SizeOf(run[c].end)
             \/ run[c].end = "last" /\ size = 0 /\ "last" \in proven'
      PROVE  Offsets!CalibrationInv'
  <2>1. run[c] \in Run /\ run[c].sizes \in [{"first", "last"} -> {0, OffsetsFirst} \cup OffsetsLast]
        /\ UNCHANGED <<posted, stored>>
    BY <1>1, <1>8 DEF Offsets!Known
  <2>2. CASE run[c].end = "first"
    <3>1. size = OffsetsFirst
      BY <1>8, <2>2 DEF Offsets!SizeOf
    <3> DEFINE x == [run[c] EXCEPT !.pc = "decode", !.end = "last", !.sizes["first"] = OffsetsFirst]
    <3>2. x \in Run /\ x.pc = "decode" /\ x.end = "last" /\ x.sizes["first"] = OffsetsFirst
      BY <2>1
    <3>3. run' = [run EXCEPT ![c] = x]
      BY <1>8, <2>2, <3>1 DEF Offsets!Known
    <3> HIDE DEF x
    <3> QED
      BY <1>3, <1>4, <1>8, <2>1, <3>2, <3>3
  <2>3. CASE run[c].end = "last"
    <3>1. size \in {0, OffsetsFirst} \cup OffsetsLast /\ (size = posted.last \/ (size = 0 /\ "last" \in proven'))
      BY <1>1, <1>8, <2>3 DEF Offsets!SizeOf
    <3> DEFINE x == [run[c] EXCEPT !.pc = "rescale", !.sizes["last"] = size]
    <3>2. x \in Run /\ x.pc = "rescale" /\ x.end = "last" /\ x.sizes["last"] = size
          /\ x.sizes["first"] = OffsetsFirst
      BY <1>2, <2>1, <2>3, <3>1 DEF Offsets!SizesAreHeard
    <3>3. run' = [run EXCEPT ![c] = x]
      BY <1>8, <2>3 DEF Offsets!Known
    <3> HIDE DEF x
    <3> QED
      BY <1>3, <1>4, <1>8, <2>1, <3>1, <3>2, <3>3
  <2> QED
    BY <2>1, <2>2, <2>3
<1>9. ASSUME NEW c \in OffsetsRuns, Offsets!Gone(c), Offsets!Proves(c) PROVE Offsets!CalibrationInv'
  <2>1. proven \subseteq proven' /\ run[c].end \in proven'
    BY <1>9 DEF Offsets!Proves
  <2>2. CASE run[c].end = "first"
    <3>1. stored' = [stored EXCEPT !.calibrated = TRUE] /\ run' = [run EXCEPT ![c] = Offsets!Resting]
          /\ posted' = posted
      BY <1>9, <2>2 DEF Offsets!Gone
    <3>2. stored' = [calibrated |-> TRUE, size |-> stored.size, guess |-> stored.guess]
      BY <1>1, <3>1
    <3>3. Offsets!SizesAreHeard' /\ run' \in [OffsetsRuns -> Run]
      BY <1>3, <1>5, <2>1, <3>1
    <3>4. Offsets!Shapes'
      BY <1>1, <3>1, <3>2, <3>3 DEF Offsets!Shapes
    <3>5. Offsets!NothingWritten' /\ Offsets!CalibratedOnEvidence'
      BY <1>2, <2>1, <2>2, <3>1, <3>2 DEF Offsets!NothingWritten, Offsets!CalibratedOnEvidence, Offsets!calibratedDirectNZBSize
    <3> QED
      BY <3>3, <3>4, <3>5 DEF Offsets!CalibrationInv
  <2>3. CASE run[c].end # "first"
    <3>1. run[c].end = "last"
      BY <1>1, <2>3
    <3> QED
      BY <1>8, <1>9, <2>1, <2>3, <3>1 DEF Offsets!Gone
  <2> QED
    BY <2>2, <2>3
<1>10. ASSUME NEW c \in OffsetsRuns, Offsets!Decode(c) PROVE Offsets!CalibrationInv'
  <2>1. CASE Offsets!Known(c, Offsets!SizeOf(run[c].end)) /\ UNCHANGED proven
    BY <1>8, <2>1
  <2>2. ASSUME NEW p \in {"confirm", "stat"}, run' = [run EXCEPT ![c].pc = p], UNCHANGED <<posted, stored, proven>>
        PROVE  Offsets!CalibrationInv'
    <3> DEFINE x == [run[c] EXCEPT !.pc = p]
    <3>1. run[c] \in Run /\ (run[c].end = "last" => run[c].sizes["first"] = OffsetsFirst)
      BY <1>1, <1>2 DEF Offsets!SizesAreHeard
    <3>2. x \in Run /\ Known(x)
      BY <2>2, <3>1
    <3>3. run' = [run EXCEPT ![c] = x]
      BY <2>2
    <3> HIDE DEF x
    <3> QED
      BY <1>3, <1>4, <2>2, <3>2, <3>3
  <2>3. \/ Offsets!Known(c, Offsets!SizeOf(run[c].end)) /\ UNCHANGED proven
        \/ \E p \in {"confirm", "stat"} : run' = [run EXCEPT ![c].pc = p] /\ UNCHANGED <<posted, stored, proven>>
    BY <1>10 DEF Offsets!Decode
  <2> QED
    BY <2>1, <2>2, <2>3
<1>11. ASSUME NEW c \in OffsetsRuns, Offsets!Confirm(c) PROVE Offsets!CalibrationInv'
  <2>1. \/ Offsets!LeaveForLater(c)
        \/ UNCHANGED <<posted, stored, run, proven>>
        \/ Offsets!Gone(c) /\ Offsets!Proves(c)
    BY <1>11 DEF Offsets!Confirm
  <2>2. CASE UNCHANGED <<posted, stored, run, proven>>
    BY <1>1, <1>2, <1>4, <2>2 DEF Offsets!SizesAreHeard
  <2> QED
    BY <1>7, <1>9, <2>1, <2>2
<1>12. ASSUME NEW c \in OffsetsRuns, Offsets!Stat(c) PROVE Offsets!CalibrationInv'
  BY <1>7, <1>9, <1>12 DEF Offsets!Stat
<1>13. ASSUME NEW c \in OffsetsRuns, Offsets!Rescale(c) PROVE Offsets!CalibrationInv'
  <2> DEFINE guessed == {e \in Offsets!Ends : run[c].sizes[e] = 0}
             last == IF run[c].sizes["last"] = 0 THEN run[c].sizes["first"] ELSE run[c].sizes["last"]
  <2>1. /\ run[c].sizes["first"] = OffsetsFirst
        /\ run[c].sizes["last"] = posted.last \/ (run[c].sizes["last"] = 0 /\ "last" \in proven)
    BY <1>2, <1>13 DEF Offsets!Rescale, Offsets!SizesAreHeard
  <2>2. /\ stored' = [calibrated |-> TRUE, size |-> Offsets!calibratedDirectNZBSize(OffsetsFirst, last), guess |-> guessed]
        /\ run' = [run EXCEPT ![c] = Offsets!Resting] /\ UNCHANGED <<posted, proven>>
    BY <1>13, <2>1 DEF Offsets!Rescale
  <2>3. "first" \notin guessed /\ ("last" \in guessed => "last" \in proven)
        /\ ("last" \notin guessed => last = posted.last)
    BY <1>1, <2>1
  <2> HIDE DEF guessed, last
  <2>4. Offsets!SizesAreHeard' /\ run' \in [OffsetsRuns -> Run]
    BY <1>3, <1>5, <2>2
  <2>5. Offsets!Shapes'
    BY <1>1, <2>2, <2>4 DEF Offsets!Shapes
  <2>6. Offsets!NothingWritten'
    BY <2>2 DEF Offsets!NothingWritten
  <2>7. Offsets!CalibratedOnEvidence'
    BY <2>2, <2>3 DEF Offsets!CalibratedOnEvidence, Offsets!calibratedDirectNZBSize
  <2> QED
    BY <2>4, <2>5, <2>6, <2>7 DEF Offsets!CalibrationInv
<1> QED
  BY <1>6, <1>7, <1>10, <1>11, <1>12, <1>13 DEF Offsets!Next, Offsets!Stop

-----------------------------------------------------------------------------
(* SystemRestore: a failed restore is undone *)

\* The service runs with what it began with.
LEMMA BackupBegins == ASSUME Backup!Init PROVE Backup!RestoreInv
<1> USE BackupAssumption DEF Backup!Init, Backup!Process
<1>1. Backup!Shapes
  BY DEF Backup!Shapes
<1>2. Backup!DbIsKept /\ Backup!SettingsAreKept /\ Backup!LinksAreMarked
  BY DEF Backup!DbIsKept, Backup!SettingsAreKept, Backup!LinksAreMarked, Backup!Untouched,
    Backup!Writing, Backup!Back, Backup!Service
<1> QED
  BY <1>1, <1>2 DEF Backup!RestoreInv

\* Every step of a restore keeps what FailureIsUndone and LinksComeBack rest on.
LEMMA BackupSteps ==
  ASSUME Backup!RestoreInv, Backup!Next
  PROVE  Backup!RestoreInv'
<1> DEFINE db == v1  settings == v2  links == v3  marker == v5  proc == v7  before == v8  left == v9
           Kept == Backup!DbIsKept /\ Backup!SettingsAreKept /\ Backup!LinksAreMarked
<1> USE DEF Backup!At, Backup!Goes, Backup!Process, Backup!Untouched, Backup!Writing, Backup!Back,
      Backup!Service, Backup!Forward, Backup!Serving
<1>1. Backup!Shapes /\ (left.crashes = BackupCrashes => Kept)
  BY DEF Backup!RestoreInv
<1>2. ASSUME left' = left \/ left'.crashes = left.crashes, Backup!Shapes', Kept => Kept'
      PROVE  Backup!RestoreInv'
  BY <1>1, <1>2 DEF Backup!RestoreInv
<1>3. ASSUME UNCHANGED <<v1, v2, v3, v7, v8, v9>>,
             marker' = [pending |-> marker'.pending, rebuild |-> marker.rebuild, fatal |-> marker'.fatal]
      PROVE  Backup!RestoreInv'
  BY <1>1, <1>3 DEF Backup!RestoreInv, Backup!Shapes, Backup!DbIsKept, Backup!SettingsAreKept, Backup!LinksAreMarked
<1>4. ASSUME Backup!Change
      PROVE  Backup!RestoreInv'
  <2>1. Backup!Shapes' /\ left'.crashes = left.crashes
    BY <1>1, <1>4 DEF Backup!Shapes, Backup!Change
  <2>2. Kept => Kept'
    BY <1>1, <1>4 DEF Backup!Shapes, Backup!Change, Backup!DbIsKept, Backup!SettingsAreKept, Backup!LinksAreMarked
  <2> QED
    BY <1>2, <2>1, <2>2
<1>5. ASSUME Backup!Rebuilt
      PROVE  Backup!RestoreInv'
  <2>1. Backup!Shapes' /\ left' = left
    BY <1>1, <1>5 DEF Backup!Shapes, Backup!Rebuilt
  <2>2. Kept => Kept'
    BY <1>1, <1>5 DEF Backup!Shapes, Backup!Rebuilt, Backup!DbIsKept, Backup!SettingsAreKept, Backup!LinksAreMarked
  <2> QED
    BY <1>2, <2>1, <2>2
<1>6. ASSUME Backup!Stop
      PROVE  Backup!RestoreInv'
  <2>1. Backup!Shapes' /\ left' = left
    BY <1>1, <1>6 DEF Backup!Shapes, Backup!Stop
  <2>2. Kept => Kept'
    BY <1>1, <1>6 DEF Backup!Shapes, Backup!Stop, Backup!DbIsKept, Backup!SettingsAreKept, Backup!LinksAreMarked
  <2> QED
    BY <1>2, <2>1, <2>2
<1>7. ASSUME Backup!Create \/ Backup!StageRestore
             \/ \E n \in BackupNames : Backup!StartCreate(n) \/ Backup!Delete(n) \/ Backup!StartRestore(n)
      PROVE  Backup!RestoreInv'
  <2>1. UNCHANGED <<v1, v2, v3, v7, v8, v9>>
    BY <1>7 DEF Backup!Create, Backup!StageRestore, Backup!StartCreate, Backup!Delete, Backup!StartRestore
  <2>2. marker' = [pending |-> marker'.pending, rebuild |-> marker.rebuild, fatal |-> marker'.fatal]
    BY <1>1, <1>7 DEF Backup!Create, Backup!StageRestore, Backup!StartCreate, Backup!Delete, Backup!StartRestore, Backup!Shapes
  <2> QED
    BY <1>3, <2>1, <2>2
<1>8. ASSUME Backup!Apply
      PROVE  Backup!RestoreInv'
  <2>1. Backup!Shapes' /\ left' = left
    BY <1>1, <1>8 DEF Backup!Shapes, Backup!Apply
  <2>2. Kept => Kept'
    BY <1>1, <1>8 DEF Backup!Shapes, Backup!Apply, Backup!DbIsKept, Backup!SettingsAreKept, Backup!LinksAreMarked
  <2> QED
    BY <1>2, <2>1, <2>2
<1>9. ASSUME Backup!Prepared
      PROVE  Backup!RestoreInv'
  <2>1. Backup!Shapes' /\ left' = left
    BY <1>1, <1>9 DEF Backup!Shapes, Backup!Prepared, Backup!Prepare
  <2>2. Kept => Kept'
    BY <1>1, <1>9 DEF Backup!Shapes, Backup!Prepared, Backup!Prepare, Backup!DbIsKept, Backup!SettingsAreKept, Backup!LinksAreMarked
  <2> QED
    BY <1>2, <2>1, <2>2
<1>10. ASSUME Backup!NotPrepared
       PROVE  Backup!RestoreInv'
  <2>1. \E n : left' = [left EXCEPT !.faults = @ - n]
    BY <1>10 DEF Backup!NotPrepared
  <2>2. left' = [changes |-> left.changes, faults |-> left'.faults, crashes |-> left.crashes]
    BY <1>1, <2>1 DEF Backup!Shapes
  <2>3. \E to : proc' = [proc EXCEPT !.at = to]
    BY <1>10 DEF Backup!NotPrepared
  <2>4. marker' = [pending |-> marker'.pending, rebuild |-> marker.rebuild, fatal |-> marker'.fatal]
    BY <1>1, <1>10 DEF Backup!Shapes, Backup!NotPrepared
  <2>5. Backup!Shapes' /\ left'.crashes = left.crashes
    BY <1>1, <1>10, <2>2, <2>3, <2>4 DEF Backup!Shapes, Backup!NotPrepared
  <2>6. Kept => Kept'
    BY <1>1, <1>10 DEF Backup!Shapes, Backup!NotPrepared, Backup!DbIsKept, Backup!SettingsAreKept, Backup!LinksAreMarked
  <2> QED
    BY <1>2, <2>5, <2>6
<1>11. ASSUME Backup!Restoring
       PROVE  Backup!RestoreInv'
  <2>1. Backup!Shapes' /\ left' = left
    BY <1>1, <1>11 DEF Backup!Shapes, Backup!Restoring, Backup!Command
  <2>2. Kept => Kept'
    BY <1>1, <1>11 DEF Backup!Shapes, Backup!Restoring, Backup!Command, Backup!DbIsKept, Backup!SettingsAreKept, Backup!LinksAreMarked
  <2> QED
    BY <1>2, <2>1, <2>2
<1>12. ASSUME Backup!CommandFails
       PROVE  Backup!RestoreInv'
  <2>1. left' = [changes |-> left.changes, faults |-> left.faults - 1, crashes |-> left.crashes]
    BY <1>1, <1>12 DEF Backup!Shapes, Backup!CommandFails, Backup!Fault
  <2>2. Backup!Shapes'
    BY <1>1, <1>12, <2>1 DEF Backup!Shapes, Backup!CommandFails
  <2>3. Kept => Kept'
    BY <1>1, <1>12 DEF Backup!Shapes, Backup!CommandFails, Backup!DbIsKept, Backup!SettingsAreKept, Backup!LinksAreMarked
  <2> QED
    BY <1>2, <2>1, <2>2, <2>3
<1>13. ASSUME Backup!RollingBack
       PROVE  Backup!RestoreInv'
  <2>1. Backup!Shapes' /\ left' = left
    BY <1>1, <1>13 DEF Backup!Shapes, Backup!RollingBack, Backup!RollbackCommand
  <2>2. Kept => Kept'
    BY <1>1, <1>13 DEF Backup!Shapes, Backup!RollingBack, Backup!RollbackCommand, Backup!DbIsKept, Backup!SettingsAreKept, Backup!LinksAreMarked
  <2> QED
    BY <1>2, <2>1, <2>2
<1>14. ASSUME Backup!RollbackFails
       PROVE  Backup!RestoreInv'
  <2>1. left' = [changes |-> left.changes, faults |-> left.faults - 1, crashes |-> left.crashes]
    BY <1>1, <1>14 DEF Backup!Shapes, Backup!RollbackFails, Backup!Fault
  <2>2. Backup!Shapes'
    <3>1. marker' = [pending |-> marker.pending, rebuild |-> marker.rebuild, fatal |-> TRUE]
      BY <1>1, <1>14 DEF Backup!Shapes, Backup!RollbackFails
    <3>2. proc' = [at |-> "stopped", copy |-> [db |-> proc.copy.db, settings |-> proc.copy.settings]]
      BY <1>1, <1>14 DEF Backup!Shapes, Backup!RollbackFails
    <3>3. before' = [db |-> before.db, settings |-> before.settings] /\ left.crashes \in 0 .. BackupCrashes
      BY <1>1, <1>14 DEF Backup!Shapes, Backup!RollbackFails
    <3> QED
      BY <2>1, <3>1, <3>2, <3>3 DEF Backup!Shapes
  <2>3. Kept => Kept'
    BY <1>1, <1>14 DEF Backup!Shapes, Backup!RollbackFails, Backup!DbIsKept, Backup!SettingsAreKept, Backup!LinksAreMarked
  <2> QED
    BY <1>2, <2>1, <2>2, <2>3
<1>15. ASSUME Backup!Crash
       PROVE  Backup!RestoreInv'
  <2>1. Backup!Shapes' /\ left'.crashes < left.crashes
    BY <1>1, <1>15, BackupAssumption DEF Backup!Shapes, Backup!Crash
  <2> QED
    BY <1>1, <2>1, BackupAssumption DEF Backup!RestoreInv, Backup!Shapes
<1> QED
  BY <1>4, <1>5, <1>6, <1>7, <1>8, <1>9, <1>10, <1>11, <1>12, <1>13, <1>14, <1>15 DEF Backup!Next

-----------------------------------------------------------------------------
(* A step that leaves a service's variables alone keeps its invariant. *)

\* A session at rest.
LEMMA SessionStays == ASSUME Session!SessionInv, UNCHANGED <<v1, v2, v3, v4, v5, v6>> PROVE Session!SessionInv'
BY DEF Session!SessionInv, Session!TypeOK, Session!Exclusive, Session!HasConnection, Session!Honest,
  Session!IsHonest, Session!Accepted, Session!Accepts, Session!AnswerIsOwn

\* An import at rest.
LEMMA ImportStays == ASSUME Import!ImportInv, UNCHANGED <<v1, v2, v3, v5, v6>> PROVE Import!ImportInv'
BY DEF Import!ImportInv, Import!Shapes, Import!IdsAreGiven, Import!AnnouncedOnce, Import!Announced,
  Import!Runs, Import!GrantIsPersisted, Import!OneChainPerDocument, Import!OneFetchPerCooldown

\* A check at rest.
LEMMA StatStays == ASSUME Stat!SegmentInv, UNCHANGED <<v1, v2, v3, v4, v5>> PROVE Stat!SegmentInv'
BY DEF Stat!SegmentInv, Stat!Shapes, Stat!NoneOverlooked, Stat!CameTo, Stat!AskedFor, Stat!Ended,
  Stat!HeardMissing, Stat!VerdictIsProven

\* A calibration at rest.
LEMMA OffsetsStay == ASSUME Offsets!CalibrationInv, UNCHANGED <<v1, v2, v3, v4, v5, v6>> PROVE Offsets!CalibrationInv'
BY DEF Offsets!CalibrationInv, Offsets!Shapes, Offsets!SizesAreHeard, Offsets!NothingWritten,
  Offsets!CalibratedOnEvidence, Offsets!calibratedDirectNZBSize

\* A restore at rest.
LEMMA BackupStays == ASSUME Backup!RestoreInv, UNCHANGED <<v1, v2, v3, v5, v7, v8, v9>> PROVE Backup!RestoreInv'
BY DEF Backup!RestoreInv, Backup!Shapes, Backup!DbIsKept, Backup!SettingsAreKept, Backup!LinksAreMarked

-----------------------------------------------------------------------------
(* HydraClient: no result of a server that had been replaced *)

\* Nobody has called, and nothing is cached.
LEMMA HydraBegins == ASSUME Hydra!Init PROVE Hydra!HydraInv
BY DEF Hydra!Init, Hydra!HydraInv, Hydra!Calls, Hydra!Waiting, Hydra!IsOfItsTime

\* A step that changes one call, for one that is of its time, and neither the
\* configuration nor a cache.
LEMMA HydraCallMoves ==
  ASSUME Hydra!HydraInv, NEW c \in HydraCallers, NEW x \in Hydra!Calls, Hydra!IsOfItsTime(x),
         v6' = [v6 EXCEPT ![c] = x], UNCHANGED <<v1, v2>>
  PROVE  Hydra!HydraInv'
<1>1. v6' \in [HydraCallers -> Hydra!Calls] /\ \A d \in HydraCallers : v6'[d] = IF d = c THEN x ELSE v6[d]
  BY DEF Hydra!HydraInv
<1>2. \A y : Hydra!IsOfItsTime(y) => Hydra!IsOfItsTime(y)'
  BY DEF Hydra!IsOfItsTime
<1>3. \A d \in HydraCallers : Hydra!IsOfItsTime(v6'[d])
  BY <1>1 DEF Hydra!HydraInv
<1> QED
  BY <1>1, <1>3 DEF Hydra!HydraInv, Hydra!IsOfItsTime

\* Every step of the client.
LEMMA HydraSteps == ASSUME Hydra!HydraInv, Hydra!Next PROVE Hydra!HydraInv'
<1> DEFINE call == v6
<1>1. v1 \in Nat /\ call \in [HydraCallers -> Hydra!Calls]
  BY DEF Hydra!HydraInv
<1>2. CASE Hydra!SetConfig
  BY <1>1, <1>2 DEF Hydra!SetConfig, Hydra!HydraInv, Hydra!IsOfItsTime, Hydra!Calls
<1>3. CASE Hydra!Lapse
  BY <1>3 DEF Hydra!Lapse, Hydra!HydraInv, Hydra!IsOfItsTime
<1>4. ASSUME NEW c \in HydraCallers, NEW asked \in Hydra!Asked, Hydra!Call(c, asked)
      PROVE  Hydra!HydraInv'
  <2> DEFINE x == [pc |-> "look", kind |-> asked.kind, priority |-> asked.priority, since |-> v1, key |-> v1]
  <2>1. x \in Hydra!Calls /\ Hydra!IsOfItsTime(x)
    BY <1>1 DEF Hydra!Calls, Hydra!Asked, Hydra!IsOfItsTime
  <2> QED
    BY <1>4, <2>1, HydraCallMoves DEF Hydra!Call, Hydra!versionedCacheKey
<1>5. ASSUME NEW c \in HydraCallers,
             \/ Hydra!Lookup(c) \/ Hydra!Join(c) \/ Hydra!Leave(c) \/ Hydra!TakeSlot(c) \/ Hydra!Throttle(c)
             \/ Hydra!Ask(c) \/ Hydra!Store(c) \/ Hydra!Land(c) \/ Hydra!Return(c)
      PROVE  Hydra!HydraInv'
  <2> DEFINE l == call[c]
  <2>1. l \in Hydra!Calls /\ Hydra!IsOfItsTime(l)
    BY <1>1 DEF Hydra!HydraInv
  <2>2. ASSUME NEW p \in {"join", "ride", "slot", "throttle"}, l.pc \in {"look", "join", "slot"},
               call' = [call EXCEPT ![c].pc = p], UNCHANGED <<v1, v2>>
        PROVE  Hydra!HydraInv'
    <3> DEFINE x == [l EXCEPT !.pc = p]
    <3>1. l \in [pc : {"look", "join", "ride", "slot", "throttle"}, kind : Hydra!Kinds, priority : BOOLEAN, since : Nat, key : Nat]
      BY <2>1, <2>2 DEF Hydra!Calls
    <3>2. x \in Hydra!Calls
      BY <3>1 DEF Hydra!Calls
    <3>3. x.pc = p /\ x.key = l.key /\ x.since = l.since
      BY <3>1
    <3>4. Hydra!IsOfItsTime(x)
      BY <2>1, <2>2, <3>3 DEF Hydra!IsOfItsTime
    <3>5. call' = [call EXCEPT ![c] = x]
      BY <1>1, <2>2
    <3> QED
      BY <2>2, <3>2, <3>4, <3>5, HydraCallMoves
  <2>3. ASSUME call' = [call EXCEPT ![c] = Hydra!Waiting], UNCHANGED <<v1, v2>>
        PROVE  Hydra!HydraInv'
    <3>1. Hydra!Waiting \in Hydra!Calls /\ Hydra!IsOfItsTime(Hydra!Waiting)
      BY DEF Hydra!Calls, Hydra!Waiting, Hydra!IsOfItsTime
    <3> QED
      BY <2>3, <3>1, HydraCallMoves
  <2>4. ASSUME l.pc \in {"look", "ride", "land"}, NEW result \in Nat, result = Hydra!NoResult \/ result >= l.since
        PROVE  Hydra!Done(l, result) \in Hydra!Calls /\ Hydra!IsOfItsTime(Hydra!Done(l, result))
    BY <2>1, <2>4 DEF Hydra!Calls, Hydra!IsOfItsTime, Hydra!Done
  <2>5. CASE Hydra!Lookup(c)
    <3>1. l.pc = "look" /\ UNCHANGED <<v1, v2>>
      BY <1>5, <2>5 DEF Hydra!Lookup
    <3>2. CASE call' = [call EXCEPT ![c].pc = "join"]
      BY <2>2, <3>1, <3>2
    <3>3. ASSUME NEW e \in v2, e.key = l.key, call' = [call EXCEPT ![c] = Hydra!Done(l, e.server)]
          PROVE  Hydra!HydraInv'
      <4>1. e.server \in Nat /\ e.server >= l.since
        BY <2>1, <3>1, <3>3 DEF Hydra!HydraInv, Hydra!IsOfItsTime
      <4> QED
        BY <2>4, <3>1, <3>3, <4>1, HydraCallMoves
    <3> QED
      BY <2>5, <3>2, <3>3 DEF Hydra!Lookup
  <2>6. CASE Hydra!Join(c)
    BY <2>2, <2>6 DEF Hydra!Join
  <2>7. CASE Hydra!Leave(c) \/ Hydra!Return(c)
    BY <2>3, <2>7 DEF Hydra!Leave, Hydra!Return
  <2>8. CASE Hydra!TakeSlot(c)
    BY <2>2, <2>8 DEF Hydra!TakeSlot
  <2>9. CASE Hydra!Throttle(c)
    <3> DEFINE x == IF v5.cooling THEN [pc |-> "land", kind |-> l.kind, priority |-> l.priority,
                                        key |-> l.key, since |-> l.since, result |-> Hydra!NoResult]
                    ELSE [pc |-> "ask", kind |-> l.kind, priority |-> l.priority,
                          key |-> l.key, since |-> l.since, server |-> v1]
    <3>1. l.pc = "throttle"
      BY <2>9 DEF Hydra!Throttle
    <3>2. x \in Hydra!Calls /\ Hydra!IsOfItsTime(x)
      BY <1>1, <2>1, <3>1 DEF Hydra!Calls, Hydra!IsOfItsTime, Hydra!NoResult
    <3>3. call' = [call EXCEPT ![c] = x] /\ UNCHANGED <<v1, v2>>
      BY <2>9 DEF Hydra!Throttle
    <3> QED
      BY <3>2, <3>3, HydraCallMoves
  <2>10. CASE Hydra!Ask(c)
    <3> DEFINE x(p, result) == [pc |-> p, kind |-> l.kind, priority |-> l.priority,
                                key |-> l.key, since |-> l.since, result |-> result]
    <3>1. l.pc = "ask" /\ l.server \in Nat
      BY <2>1, <2>10 DEF Hydra!Ask, Hydra!Calls
    <3>2. /\ x("land", Hydra!NoResult) \in Hydra!Calls /\ Hydra!IsOfItsTime(x("land", Hydra!NoResult))
          /\ x("store", l.server) \in Hydra!Calls /\ Hydra!IsOfItsTime(x("store", l.server))
      BY <2>1, <3>1 DEF Hydra!Calls, Hydra!IsOfItsTime, Hydra!NoResult
    <3>3. /\ UNCHANGED <<v1, v2>>
          /\ \/ call' = [call EXCEPT ![c] = x("land", Hydra!NoResult)]
             \/ call' = [call EXCEPT ![c] = x("store", l.server)]
      BY <2>10 DEF Hydra!Ask
    <3> HIDE DEF x
    <3> QED
      BY <3>2, <3>3, HydraCallMoves
  <2>11. CASE Hydra!Store(c)
    <3> DEFINE x == [l EXCEPT !.pc = "land"]
               new == [kind |-> l.kind, key |-> l.key, server |-> l.result]
    <3>1. l.pc = "store"
      BY <2>11 DEF Hydra!Store
    <3>2. l \in [pc : {"store", "land"}, kind : Hydra!Kinds, priority : BOOLEAN, key : Nat, since : Nat, result : Nat]
      BY <2>1, <3>1 DEF Hydra!Calls
    <3>3. x \in [pc : {"store", "land"}, kind : Hydra!Kinds, priority : BOOLEAN, key : Nat, since : Nat, result : Nat]
          /\ x.pc = "land" /\ x.key = l.key /\ x.since = l.since /\ x.result = l.result
      BY <3>2
    <3>4. x \in Hydra!Calls /\ Hydra!IsOfItsTime(x)
      BY <2>1, <3>1, <3>3 DEF Hydra!Calls, Hydra!IsOfItsTime
    <3>5. new \in [kind : Hydra!Kinds, key : Nat, server : Nat] /\ new.server >= new.key
      BY <2>1, <3>1, <3>2 DEF Hydra!IsOfItsTime
    <3>6. v2' \subseteq v2 \cup {new} /\ v1' = v1 /\ call' = [call EXCEPT ![c] = x]
      BY <1>1, <2>11 DEF Hydra!Store
    <3>7. call' \in [HydraCallers -> Hydra!Calls] /\ \A d \in HydraCallers : call'[d] = IF d = c THEN x ELSE call[d]
      BY <1>1, <3>4, <3>6
    <3>8. \A d \in HydraCallers : Hydra!IsOfItsTime(call'[d])
      BY <3>4, <3>7 DEF Hydra!HydraInv
    <3> HIDE DEF x, new
    <3> QED
      BY <3>5, <3>6, <3>7, <3>8 DEF Hydra!HydraInv, Hydra!IsOfItsTime
  <2>12. CASE Hydra!Land(c)
    <3> DEFINE rides(d) == call[d].pc = "ride" /\ Hydra!FlightOf(call[d]) = Hydra!FlightOf(l)
    <3>1. l.pc = "land" /\ l.result \in Nat /\ l.key = l.since
      BY <2>1, <2>12 DEF Hydra!Land, Hydra!Calls, Hydra!IsOfItsTime
    <3>2. call' = [d \in HydraCallers |-> IF d = c \/ rides(d) THEN Hydra!Done(call[d], l.result) ELSE call[d]]
          /\ UNCHANGED <<v1, v2>>
      BY <2>12 DEF Hydra!Land
    <3>3. ASSUME NEW d \in HydraCallers
          PROVE  call'[d] \in Hydra!Calls /\ Hydra!IsOfItsTime(call'[d])
      <4>1. call[d] \in Hydra!Calls /\ Hydra!IsOfItsTime(call[d])
        BY <1>1 DEF Hydra!HydraInv
      <4>2. CASE d = c \/ rides(d)
        <5>1. call[d].pc \in {"ride", "land"} /\ call[d].since = l.since
          BY <2>1, <3>1, <4>1, <4>2 DEF Hydra!FlightOf, Hydra!IsOfItsTime
        <5>2. Hydra!Done(call[d], l.result) \in Hydra!Calls /\ Hydra!IsOfItsTime(Hydra!Done(call[d], l.result))
          BY <2>1, <3>1, <4>1, <5>1 DEF Hydra!Calls, Hydra!IsOfItsTime, Hydra!Done
        <5> QED
          BY <3>2, <4>2, <5>2
      <4> QED
        BY <3>2, <4>1, <4>2
    <3> HIDE DEF rides
    <3> QED
      BY <3>2, <3>3 DEF Hydra!HydraInv, Hydra!IsOfItsTime
  <2> QED
    BY <1>5, <2>5, <2>6, <2>7, <2>8, <2>9, <2>10, <2>11, <2>12
<1> QED
  BY <1>2, <1>3, <1>4, <1>5 DEF Hydra!Next

LEMMA HydraStays == ASSUME Hydra!HydraInv, UNCHANGED <<v1, v2, v6>> PROVE Hydra!HydraInv'
BY DEF Hydra!HydraInv, Hydra!IsOfItsTime

-----------------------------------------------------------------------------
(* ProfileCache: what is saved takes hold *)

\* A set of naturals that is not empty has a least element.
LEMMA LeastNumber ==
  ASSUME NEW I \in SUBSET Nat, I # {}
  PROVE  \E n \in I : \A m \in I : n <= m
<1> DEFINE R == {ss \in Nat \X Nat : ss[1] < ss[2]}
<1>1. IsWellFoundedOn(R, Nat)
  BY NatLessThanWellFounded DEF OpToRel
<1>2. \E n \in I : \A m \in I : ~ (<<m, n>> \in R)
  BY <1>1, WFMin
<1>3. \A m, n \in Nat : <<m, n>> \in R <=> m < n
  OBVIOUS
<1> HIDE DEF R
<1>4. PICK n \in I : \A m \in I : ~ (<<m, n>> \in R)
  BY <1>2
<1>5. ASSUME NEW m \in I PROVE n <= m
  <2>1. m \in Nat /\ n \in Nat /\ ~ (m < n)
    BY <1>3, <1>4
  <2> QED
    BY <2>1
<1> QED
  BY <1>5

-----------------------------------------------------------------------------
(* ProfileCache: what is saved takes hold *)

\* The default profile is one of the saved ones, or the built-in one.
LEMMA DefaultIsASource == Profiles!Shapes => Profiles!DefaultSource \in Profiles!Sources
<1> SUFFICES ASSUME Profiles!Shapes PROVE Profiles!DefaultSource \in Profiles!Sources
  OBVIOUS
<1>1. v1 \in [ProfileIds -> [name : ProfileIds \cup {0}, default : BOOLEAN, version : ProfileVersions]]
  BY DEF Profiles!Shapes
<1>2. ASSUME NEW ids \in SUBSET ProfileIds, ids # {} PROVE Profiles!First(ids) \in ids
  <2> DEFINE names == {v1[i].name : i \in ids}
  <2>1. names \in SUBSET Nat /\ names # {}
    <3>1. \A i \in ids : v1[i].name \in Nat
      <4> TAKE i \in ids
      <4>1. i \in ProfileIds
        OBVIOUS
      <4>2. v1[i] \in [name : ProfileIds \cup {0}, default : BOOLEAN, version : ProfileVersions]
        BY <1>1, <4>1
      <4>3. v1[i].name \in ProfileIds \cup {0}
        BY <4>2
      <4>4. ProfileIds \cup {0} \subseteq Nat
        BY ProfilesAssumption
      <4> QED
        BY <4>3, <4>4
    <3> QED
      BY <1>2, <3>1
  <2>2. PICK n \in names : \A m \in names : n <= m
    BY <2>1, LeastNumber
  <2>3. PICK i \in ids : v1[i].name = n
    BY <2>2
  <2>4. \A j \in ids : v1[i].name <= v1[j].name
    BY <2>2, <2>3
  <2> QED
    BY <2>4 DEF Profiles!First
<1>3. Profiles!Present \subseteq ProfileIds
  BY DEF Profiles!Present
<1>4. Profiles!GetDefaultQualityProfile \subseteq ProfileIds
  BY <1>2, <1>3 DEF Profiles!GetDefaultQualityProfile
<1>5. \A n : Profiles!GetQualityProfileByName(n) \subseteq ProfileIds
  BY <1>3 DEF Profiles!GetQualityProfileByName
<1>6. \A i \in ProfileIds : Profiles!Source(i) \in Profiles!Sources
  BY <1>1 DEF Profiles!Source, Profiles!Sources
<1>7. Profiles!BuiltIn \in Profiles!Sources
  BY ProfilesAssumption DEF Profiles!BuiltIn, Profiles!Sources
<1>8. \A S \in SUBSET ProfileIds : S # {} => (CHOOSE i \in S : TRUE) \in ProfileIds
  OBVIOUS
<1> DEFINE named == IF ProfileNamed = 0 THEN {} ELSE Profiles!GetQualityProfileByName(ProfileNamed)
           found == IF named # {} THEN named ELSE Profiles!GetDefaultQualityProfile
<1>9. found \in SUBSET ProfileIds
  BY <1>4, <1>5
<1>10. Profiles!DefaultSource = IF found = {} THEN Profiles!BuiltIn ELSE Profiles!Source(CHOOSE i \in found : TRUE)
  BY DEF Profiles!DefaultSource
<1> HIDE DEF found
<1> QED
  BY <1>6, <1>7, <1>8, <1>9, <1>10

\* ... after a step as well.
LEMMA DefaultStaysASource == Profiles!Shapes' => (Profiles!DefaultSource \in Profiles!Sources)'
BY DefaultIsASource, PTL

\* Nothing has been searched for, and nothing is copied.
LEMMA ProfilesBegin == ASSUME Profiles!Init PROVE Profiles!ProfilesInv
<1>1. PICK v \in [ProfileIds -> BOOLEAN] : v1 = [i \in ProfileIds |-> [name |-> i, default |-> v[i], version |-> 0]]
  BY DEF Profiles!Init
<1>2. v1 \in [ProfileIds -> [name : ProfileIds \cup {0}, default : BOOLEAN, version : ProfileVersions]]
  BY <1>1, ProfilesAssumption
<1>3. Profiles!Old \in Nat
  BY ProfilesAssumption DEF Profiles!Old
<1>4. Profiles!BuiltIn \in Profiles!Sources
  BY ProfilesAssumption DEF Profiles!BuiltIn, Profiles!Sources
<1>5. v8 \in [lists : [ProfileLists -> [ProfileVersions -> Nat]], profile : [Profiles!Sources -> Nat]]
  BY <1>3 DEF Profiles!Init
<1>6. Profiles!Shapes
  BY <1>2, <1>4, <1>5, ProfilesAssumption DEF Profiles!Init, Profiles!Shapes, Profiles!NoCopy, Profiles!NoPrefs, Profiles!Unjudged,
    Profiles!NoLists, Profiles!InPrefs
<1>7. Profiles!ReadsAreCurrent
  BY <1>6, DefaultIsASource, ProfilesAssumption DEF Profiles!Init, Profiles!ReadsAreCurrent
<1>8. Profiles!CopiesAreYoung
  BY ProfilesAssumption DEF Profiles!Init, Profiles!CopiesAreYoung, Profiles!NoCopy, Profiles!NoPrefs
<1>9. Profiles!SavedTakesHold
  BY DEF Profiles!Init, Profiles!SavedTakesHold, Profiles!Unjudged
<1> QED
  BY <1>6, <1>7, <1>8, <1>9 DEF Profiles!ProfilesInv

\* A step after which everything was given no longer ago than before leaves copies and the
\* last search as good as they were.
LEMMA YoungerIsAsGood ==
  ASSUME Profiles!ProfilesInv, Profiles!Shapes', UNCHANGED <<v4, v5, v6>>,
         \A l \in ProfileLists, v \in ProfileVersions : v8'.lists[l][v] <= v8.lists[l][v],
         \A s \in Profiles!Sources : v8'.profile[s] <= v8.profile[s]
  PROVE  Profiles!CopiesAreYoung' /\ Profiles!SavedTakesHold'
<1> USE ProfilesAssumption DEF Profiles!ProfilesInv
<1>1. /\ v4 \in [ProfileLists -> [value : ProfileVersions, age : Nat]]
      /\ v5 \in [profile : Profiles!Sources, lists : [Profiles!InPrefs -> ProfileVersions], age : Nat]
      /\ v6 \in [profile : Profiles!Sources, own : BOOLEAN, lists : [ProfileLists -> ProfileVersions]]
      /\ Profiles!InPrefs \subseteq ProfileLists
  BY DEF Profiles!Shapes, Profiles!InPrefs
<1>2. /\ \A l \in ProfileLists, v \in ProfileVersions : v8.lists[l][v] \in Nat /\ v8'.lists[l][v] \in Nat
      /\ \A s \in Profiles!Sources : v8.profile[s] \in Nat /\ v8'.profile[s] \in Nat
  BY DEF Profiles!Shapes
<1>3. ASSUME NEW l \in ProfileLists, v4[l].age < ProfileTTL PROVE v8'.lists[l][v4[l].value] <= v4[l].age
  <2>1. v4[l].value \in ProfileVersions /\ v4[l].age \in Nat
    BY <1>1
  <2>2. v8.lists[l][v4[l].value] <= v4[l].age
    BY <1>3 DEF Profiles!CopiesAreYoung
  <2> QED
    BY <1>2, <2>1, <2>2
<1>4. ASSUME v5.age < ProfileTTL
      PROVE  /\ v8'.profile[v5.profile] <= v5.age
             /\ \A l \in Profiles!InPrefs : v8'.lists[l][v5.lists[l]] <= v5.age + ProfileTTL - 1
  <2>1. v5.profile \in Profiles!Sources /\ v5.age \in Nat /\ \A l \in Profiles!InPrefs : v5.lists[l] \in ProfileVersions
    BY <1>1
  <2>2. v8.profile[v5.profile] <= v5.age /\ \A l \in Profiles!InPrefs : v8.lists[l][v5.lists[l]] <= v5.age + ProfileTTL - 1
    BY <1>4 DEF Profiles!CopiesAreYoung
  <2>3. v8'.profile[v5.profile] <= v5.age
    BY <1>2, <2>1, <2>2
  <2>4. ASSUME NEW l \in Profiles!InPrefs PROVE v8'.lists[l][v5.lists[l]] <= v5.age + ProfileTTL - 1
    <3>1. v8'.lists[l][v5.lists[l]] <= v8.lists[l][v5.lists[l]] /\ v8.lists[l][v5.lists[l]] <= v5.age + ProfileTTL - 1
          /\ v8.lists[l][v5.lists[l]] \in Nat /\ v8'.lists[l][v5.lists[l]] \in Nat
      BY <1>1, <1>2, <2>1, <2>2
    <3> QED
      BY <2>1, <3>1
  <2> QED
    BY <2>3, <2>4
<1>5. Profiles!SavedTakesHold'
  <2> DEFINE bound(l) == IF v6.own \/ l = "policies" THEN ProfileTTL - 1 ELSE 2 * (ProfileTTL - 1)
  <2> SUFFICES ASSUME v6.profile # Profiles!BuiltIn
               PROVE  /\ ~ v6.own => v8'.profile[v6.profile] <= ProfileTTL - 1
                      /\ \A l \in ProfileLists : v8'.lists[l][v6.lists[l]] <= bound(l)
    BY DEF Profiles!SavedTakesHold
  <2>1. v6.profile \in Profiles!Sources /\ \A l \in ProfileLists : v6.lists[l] \in ProfileVersions /\ bound(l) \in Int
    BY <1>1
  <2>2. /\ ~ v6.own => v8.profile[v6.profile] <= ProfileTTL - 1
        /\ \A l \in ProfileLists : v8.lists[l][v6.lists[l]] <= bound(l)
    BY DEF Profiles!SavedTakesHold
  <2> HIDE DEF bound
  <2>3. ~ v6.own => v8'.profile[v6.profile] <= ProfileTTL - 1
    BY <1>2, <2>1, <2>2
  <2>4. ASSUME NEW l \in ProfileLists PROVE v8'.lists[l][v6.lists[l]] <= bound(l)
    <3>1. v8'.lists[l][v6.lists[l]] <= v8.lists[l][v6.lists[l]] /\ v8.lists[l][v6.lists[l]] <= bound(l)
          /\ v8.lists[l][v6.lists[l]] \in Nat /\ v8'.lists[l][v6.lists[l]] \in Nat
      BY <1>2, <2>1, <2>2
    <3> QED
      BY <2>1, <3>1
  <2> QED
    BY <2>3, <2>4
<1> QED
  BY <1>3, <1>4, <1>5 DEF Profiles!CopiesAreYoung

\* The administrator's edits.
LEMMA ProfilesEdited ==
  ASSUME Profiles!ProfilesInv,
         \/ \E i \in ProfileIds, name \in ProfileIds, default \in BOOLEAN, v \in ProfileVersions : Profiles!UpsertQualityProfile(i, name, default, v)
         \/ \E i \in ProfileIds : Profiles!DeleteQualityProfile(i)
         \/ \E l \in ProfileLists, v \in ProfileVersions : Profiles!SaveList(l, v)
  PROVE  Profiles!ProfilesInv'
<1> USE ProfilesAssumption
<1>1. Profiles!Shapes
  BY DEF Profiles!ProfilesInv
<1>2. v1' \in [ProfileIds -> [name : ProfileIds \cup {0}, default : BOOLEAN, version : ProfileVersions]]
  <2>1. Profiles!Absent \in [name : ProfileIds \cup {0}, default : BOOLEAN, version : ProfileVersions]
    BY DEF Profiles!Absent
  <2> QED
    BY <1>1, <2>1 DEF Profiles!Shapes, Profiles!UpsertQualityProfile, Profiles!DeleteQualityProfile, Profiles!SaveList
<1>3. v2' \in [ProfileLists -> ProfileVersions] /\ v3' \in ProfileIds \cup {0} /\ UNCHANGED <<v4, v5, v6>>
  BY <1>1 DEF Profiles!Shapes, Profiles!UpsertQualityProfile, Profiles!DeleteQualityProfile, Profiles!SaveList
<1>4. v8' = [lists |-> [l \in ProfileLists |-> [v \in ProfileVersions |-> IF v = v2'[l] THEN 0 ELSE v8.lists[l][v]]],
             profile |-> [s \in Profiles!Sources |-> IF s = Profiles!DefaultSource' THEN 0 ELSE v8.profile[s]]]
  BY DEF Profiles!Given, Profiles!UpsertQualityProfile, Profiles!DeleteQualityProfile, Profiles!SaveList
<1>5. /\ \A l \in ProfileLists, v \in ProfileVersions : v8.lists[l][v] \in Nat
      /\ \A s \in Profiles!Sources : v8.profile[s] \in Nat
  BY <1>1 DEF Profiles!Shapes
<1>6. v8' \in [lists : [ProfileLists -> [ProfileVersions -> Nat]], profile : [Profiles!Sources -> Nat]]
  BY <1>4, <1>5
<1>7. Profiles!Shapes'
  BY <1>1, <1>2, <1>3, <1>6 DEF Profiles!Shapes, Profiles!Sources, Profiles!InPrefs
<1>8. /\ \A l \in ProfileLists, v \in ProfileVersions : v8'.lists[l][v] <= v8.lists[l][v]
      /\ \A s \in Profiles!Sources : v8'.profile[s] <= v8.profile[s]
  BY <1>4, <1>5
<1>9. Profiles!DefaultSource' \in Profiles!Sources
  BY <1>7, DefaultStaysASource DEF Profiles!Sources
<1>10. Profiles!ReadsAreCurrent'
  BY <1>3, <1>4, <1>9 DEF Profiles!ReadsAreCurrent
<1> QED
  BY <1>3, <1>7, <1>8, <1>10, YoungerIsAsGood DEF Profiles!ProfilesInv

\* What a list's loader returns was saved, or failed to load, within a lifetime, and so
\* was what it leaves in the cache.
LEMMA ListsAreFetched ==
  ASSUME Profiles!ProfilesInv, NEW failing \in SUBSET ProfileLists, NEW read \in SUBSET ProfileLists, Profiles!Reads(read, failing)
  PROVE  /\ v4' \in [ProfileLists -> [value : ProfileVersions, age : Nat]]
         /\ v8' \in [lists : [ProfileLists -> [ProfileVersions -> Nat]], profile : [Profiles!Sources -> Nat]]
         /\ v8'.profile = v8.profile
         /\ \A l \in ProfileLists, v \in ProfileVersions : v8'.lists[l][v] <= v8.lists[l][v]
         /\ \A l \in ProfileLists : v4'[l].age < ProfileTTL => v8'.lists[l][v4'[l].value] <= v4'[l].age
         /\ \A l \in read : Profiles!Loader(l, failing).value \in ProfileVersions
         /\ \A l \in read : v8'.lists[l][Profiles!Loader(l, failing).value] <= ProfileTTL - 1
<1> USE ProfilesAssumption
<1>1. Profiles!Shapes
  BY DEF Profiles!ProfilesInv
<1> DEFINE stamp(l) == IF l \in read \cap failing THEN [v8.lists[l] EXCEPT ![0] = 0] ELSE v8.lists[l]
<1>2. /\ v8 \in [lists : [ProfileLists -> [ProfileVersions -> Nat]], profile : [Profiles!Sources -> Nat]]
      /\ v2 \in [ProfileLists -> ProfileVersions]
      /\ v4 \in [ProfileLists -> [value : ProfileVersions, age : Nat]]
  BY <1>1 DEF Profiles!Shapes
<1>3. v8' = [v8 EXCEPT !.lists = [l \in ProfileLists |-> stamp(l)]]
  BY DEF Profiles!Reads
<1>4. \A l \in ProfileLists : stamp(l) \in [ProfileVersions -> Nat]
  BY <1>2
<1>5. v8'.profile = v8.profile /\ v8'.lists = [l \in ProfileLists |-> stamp(l)]
      /\ v8' \in [lists : [ProfileLists -> [ProfileVersions -> Nat]], profile : [Profiles!Sources -> Nat]]
  BY <1>2, <1>3, <1>4
<1>6. ASSUME NEW l \in ProfileLists, NEW v \in ProfileVersions
      PROVE  v8'.lists[l][v] \in Nat /\ v8'.lists[l][v] <= v8.lists[l][v] /\ (l \in read \cap failing => v8'.lists[l][0] = 0)
  BY <1>2, <1>4, <1>5
<1>7. ASSUME NEW l \in ProfileLists
      PROVE  Profiles!Loader(l, failing) = Profiles!Fetched(l, failing)
  BY DEF Profiles!Loader, Profiles!loadTierSizeLimits, Profiles!loadCustomFormats, Profiles!loadBlockRules, Profiles!loadIndexerPolicyMap
<1>8. ASSUME NEW l \in read
      PROVE  /\ Profiles!Loader(l, failing).value \in ProfileVersions
             /\ v8'.lists[l][Profiles!Loader(l, failing).value] <= ProfileTTL - 1
             /\ Profiles!Loader(l, failing).cache \in [value : ProfileVersions, age : Nat]
             /\ Profiles!Loader(l, failing).cache.age < ProfileTTL
                  => v8'.lists[l][Profiles!Loader(l, failing).cache.value] <= Profiles!Loader(l, failing).cache.age
    <2> DEFINE value == IF v4[l].age < ProfileTTL THEN v4[l].value ELSE IF l \in failing THEN 0 ELSE v2[l]
               kept == v4[l].age < ProfileTTL \/ l \in failing \/ (value = 0 /\ l \in {"formats", "rules"})
    <2>1. value \in ProfileVersions /\ v4[l] \in [value : ProfileVersions, age : Nat]
      BY <1>2
    <2>2. Profiles!Loader(l, failing).value = value
      BY <1>7 DEF Profiles!Fetched
    <2>3. Profiles!Loader(l, failing).cache = IF kept THEN v4[l] ELSE [value |-> value, age |-> 0]
      BY <1>7 DEF Profiles!Fetched
    <2>4. v4[l].age < ProfileTTL => v8'.lists[l][v4[l].value] <= v4[l].age
      <3> SUFFICES ASSUME v4[l].age < ProfileTTL PROVE v8'.lists[l][v4[l].value] <= v4[l].age
        OBVIOUS
      <3>1. v8.lists[l][v4[l].value] <= v4[l].age
        BY DEF Profiles!ProfilesInv, Profiles!CopiesAreYoung
      <3>2. v8'.lists[l][v4[l].value] <= v8.lists[l][v4[l].value] /\ v8'.lists[l][v4[l].value] \in Nat /\ v8.lists[l][v4[l].value] \in Nat
        <4> DEFINE w == v4[l].value
        <4>1. w \in ProfileVersions /\ v8.lists[l] \in [ProfileVersions -> Nat]
          BY <1>2, <2>1
        <4> HIDE DEF w
        <4>2. v8'.lists[l][w] <= v8.lists[l][w] /\ v8'.lists[l][w] \in Nat /\ v8.lists[l][w] \in Nat
          BY <1>6, <4>1
        <4> QED
          BY <4>2 DEF w
      <3> QED
        BY <2>1, <3>1, <3>2
    <2>5. v4[l].age >= ProfileTTL => v8'.lists[l][value] = 0
      <3> SUFFICES ASSUME v4[l].age >= ProfileTTL PROVE v8'.lists[l][value] = 0
        OBVIOUS
      <3>1. value = IF l \in failing THEN 0 ELSE v2[l]
        BY <2>1
      <3>2. CASE l \in failing
        BY <1>6, <3>1, <3>2
      <3>3. CASE l \notin failing
        BY <1>5, <3>1, <3>3 DEF Profiles!ProfilesInv, Profiles!ReadsAreCurrent
      <3> QED
        BY <3>2, <3>3
    <2> HIDE DEF kept
    <2>6. v8'.lists[l][value] <= ProfileTTL - 1
      <3>1. CASE v4[l].age < ProfileTTL
        <4>1. value = v4[l].value /\ v8'.lists[l][value] \in Nat
          BY <1>6, <2>1, <3>1
        <4> QED
          BY <2>1, <2>4, <3>1, <4>1
      <3>2. CASE v4[l].age >= ProfileTTL
        BY <2>5, <3>2
      <3> QED
        BY <2>1, <3>1, <3>2
    <2>7. CASE v4[l].age < ProfileTTL
      BY <2>1, <2>2, <2>3, <2>4, <2>6, <2>7 DEF kept
    <2>8. CASE v4[l].age >= ProfileTTL
      BY <2>1, <2>2, <2>3, <2>5, <2>6, <2>8
    <2> QED
      BY <2>1, <2>7, <2>8
<1>9. v4' = [l \in ProfileLists |-> IF l \in read THEN Profiles!Loader(l, failing).cache ELSE v4[l]]
  BY DEF Profiles!Reads
<1>10. ASSUME NEW l \in ProfileLists
       PROVE  v4'[l] \in [value : ProfileVersions, age : Nat] /\ (v4'[l].age < ProfileTTL => v8'.lists[l][v4'[l].value] <= v4'[l].age)
  <2>1. CASE l \in read
    BY <1>8, <1>9, <2>1
  <2>2. CASE l \notin read
    <3>1. v4'[l] = v4[l] /\ v8'.lists[l] = v8.lists[l]
      BY <1>5, <1>9, <2>2
    <3> QED
      BY <1>2, <3>1 DEF Profiles!ProfilesInv, Profiles!CopiesAreYoung
  <2> QED
    BY <2>1, <2>2
<1> QED
  BY <1>5, <1>6, <1>8, <1>9, <1>10

\* Nothing that was read changes what a copy of the whole is worth; the lists keep theirs.
LEMMA CopyStaysYoung ==
  ASSUME Profiles!ProfilesInv, UNCHANGED v5,
         v8' \in [lists : [ProfileLists -> [ProfileVersions -> Nat]], profile : [Profiles!Sources -> Nat]],
         \A l \in ProfileLists, v \in ProfileVersions : v8'.lists[l][v] <= v8.lists[l][v],
         v8'.profile = v8.profile, v5.age < ProfileTTL
  PROVE  /\ v8'.profile[v5.profile] <= v5.age
         /\ \A l \in Profiles!InPrefs : v8'.lists[l][v5.lists[l]] <= v5.age + ProfileTTL - 1
<1> USE ProfilesAssumption
<1>1. /\ v5.profile \in Profiles!Sources /\ v5.age \in Nat /\ \A l \in Profiles!InPrefs : v5.lists[l] \in ProfileVersions
      /\ Profiles!InPrefs \subseteq ProfileLists
      /\ \A l \in ProfileLists, v \in ProfileVersions : v8.lists[l][v] \in Nat /\ v8'.lists[l][v] \in Nat
  BY DEF Profiles!ProfilesInv, Profiles!Shapes, Profiles!InPrefs
<1>2. v8.profile[v5.profile] <= v5.age /\ \A l \in Profiles!InPrefs : v8.lists[l][v5.lists[l]] <= v5.age + ProfileTTL - 1
  BY DEF Profiles!ProfilesInv, Profiles!CopiesAreYoung
<1>3. ASSUME NEW l \in Profiles!InPrefs PROVE v8'.lists[l][v5.lists[l]] <= v5.age + ProfileTTL - 1
  <2>1. v8'.lists[l][v5.lists[l]] <= v8.lists[l][v5.lists[l]] /\ v8.lists[l][v5.lists[l]] <= v5.age + ProfileTTL - 1
        /\ v8.lists[l][v5.lists[l]] \in Nat /\ v8'.lists[l][v5.lists[l]] \in Nat
    BY <1>1, <1>2
  <2> QED
    BY <1>1, <2>1
<1> QED
  BY <1>2, <1>3

\* The invariant, of what a step leaves: the shapes of what it changed, and the two claims.
LEMMA ProfilesKept ==
  ASSUME Profiles!ProfilesInv, UNCHANGED <<v1, v2>>, v3' \in ProfileIds \cup {0},
         v4' \in [ProfileLists -> [value : ProfileVersions, age : Nat]],
         v5' \in [profile : Profiles!Sources, lists : [Profiles!InPrefs -> ProfileVersions], age : Nat],
         v6' \in [profile : Profiles!Sources, own : BOOLEAN, lists : [ProfileLists -> ProfileVersions]],
         v8' \in [lists : [ProfileLists -> [ProfileVersions -> Nat]], profile : [Profiles!Sources -> Nat]],
         \A l \in ProfileLists : v8'.lists[l][v2[l]] = 0, v8'.profile[Profiles!DefaultSource] = 0,
         Profiles!CopiesAreYoung', Profiles!SavedTakesHold'
  PROVE  Profiles!ProfilesInv'
<1>1. Profiles!Shapes'
  BY DEF Profiles!ProfilesInv, Profiles!Shapes, Profiles!Sources, Profiles!InPrefs
<1> DEFINE some(p) == {i \in ProfileIds : p[i] # Profiles!Absent}
           first(p, ids) == CHOOSE i \in ids : \A j \in ids : p[i].name <= p[j].name
           defaults(p) == {i \in some(p) : p[i].default}
           chosen(p) == IF defaults(p) # {} THEN {first(p, defaults(p))} ELSE IF some(p) # {} THEN {first(p, some(p))} ELSE {}
           named(p) == IF ProfileNamed = 0 THEN {} ELSE {i \in some(p) : p[i].name = ProfileNamed}
           found(p) == IF named(p) # {} THEN named(p) ELSE chosen(p)
           source(p) == IF found(p) = {} THEN Profiles!BuiltIn
                        ELSE [id |-> CHOOSE i \in found(p) : TRUE, version |-> p[CHOOSE i \in found(p) : TRUE].version]
<1>2. Profiles!DefaultSource' = Profiles!DefaultSource
  <2>1. Profiles!DefaultSource = source(v1)
    BY DEF Profiles!DefaultSource, Profiles!GetDefaultQualityProfile, Profiles!GetQualityProfileByName, Profiles!Present,
      Profiles!First, Profiles!Source
  <2>2. Profiles!DefaultSource' = source(v1')
    BY DEF Profiles!DefaultSource, Profiles!GetDefaultQualityProfile, Profiles!GetQualityProfileByName, Profiles!Present,
      Profiles!First, Profiles!Source, Profiles!Absent, Profiles!BuiltIn
  <2> HIDE DEF source
  <2> QED
    BY <2>1, <2>2
<1>3. Profiles!ReadsAreCurrent'
  BY <1>2 DEF Profiles!ReadsAreCurrent
<1> QED
  BY <1>1, <1>3 DEF Profiles!ProfilesInv

\* A search, by the item's profile, the copy, what is read, or none.
LEMMA ProfilesSearched ==
  ASSUME Profiles!ProfilesInv, NEW failing \in SUBSET ProfileLists, Profiles!Search(failing)
  PROVE  Profiles!ProfilesInv'
<1> USE ProfilesAssumption
<1>1. Profiles!Shapes /\ Profiles!DefaultSource \in Profiles!Sources /\ Profiles!InPrefs \subseteq ProfileLists
      /\ ProfileLists \ Profiles!InPrefs \subseteq ProfileLists
  BY DefaultIsASource DEF Profiles!ProfilesInv, Profiles!InPrefs
<1>2. UNCHANGED <<v1, v2, v3>>
  BY DEF Profiles!Search, Profiles!SearchWithOwn, Profiles!SearchWithCopy, Profiles!SearchWithDefault, Profiles!SearchWithout
<1> DEFINE Fetch(read) ==
         /\ v4' \in [ProfileLists -> [value : ProfileVersions, age : Nat]]
         /\ v8' \in [lists : [ProfileLists -> [ProfileVersions -> Nat]], profile : [Profiles!Sources -> Nat]]
         /\ v8'.profile = v8.profile
         /\ \A l \in ProfileLists, v \in ProfileVersions : v8'.lists[l][v] <= v8.lists[l][v]
         /\ \A l \in ProfileLists : v4'[l].age < ProfileTTL => v8'.lists[l][v4'[l].value] <= v4'[l].age
         /\ \A l \in read : Profiles!Loader(l, failing).value \in ProfileVersions
         /\ \A l \in read : v8'.lists[l][Profiles!Loader(l, failing).value] <= ProfileTTL - 1
       Left == /\ v5' \in [profile : Profiles!Sources, lists : [Profiles!InPrefs -> ProfileVersions], age : Nat]
               /\ v6' \in [profile : Profiles!Sources, own : BOOLEAN, lists : [ProfileLists -> ProfileVersions]]
               /\ v5'.age < ProfileTTL =>
                    /\ v8'.profile[v5'.profile] <= v5'.age
                    /\ \A l \in Profiles!InPrefs : v8'.lists[l][v5'.lists[l]] <= v5'.age + ProfileTTL - 1
               /\ v6'.profile # Profiles!BuiltIn =>
                    /\ ~ v6'.own => v8'.profile[v6'.profile] <= ProfileTTL - 1
                    /\ \A l \in ProfileLists :
                         v8'.lists[l][v6'.lists[l]] <= IF v6'.own \/ l = "policies" THEN ProfileTTL - 1 ELSE 2 * (ProfileTTL - 1)
<1>3. ASSUME NEW read \in SUBSET ProfileLists, Profiles!Reads(read, failing) PROVE Fetch(read)
  BY <1>3, ListsAreFetched
<1>4. v8.profile \in [Profiles!Sources -> Nat] /\ v8.profile[Profiles!DefaultSource] = 0
      /\ v5 \in [profile : Profiles!Sources, lists : [Profiles!InPrefs -> ProfileVersions], age : Nat]
  BY <1>1 DEF Profiles!Shapes, Profiles!ProfilesInv, Profiles!ReadsAreCurrent
<1>5. ASSUME NEW read \in SUBSET ProfileLists, Fetch(read), Left PROVE Profiles!ProfilesInv'
  <2>1. \A l \in ProfileLists : v8'.lists[l][v2[l]] = 0
    <3>0. v8'.lists \in [ProfileLists -> [ProfileVersions -> Nat]]
      BY <1>5
    <3> TAKE l \in ProfileLists
    <3>1. v2[l] \in ProfileVersions /\ v8.lists[l][v2[l]] = 0
      BY <1>1 DEF Profiles!Shapes, Profiles!ProfilesInv, Profiles!ReadsAreCurrent
    <3>2. v8'.lists[l][v2[l]] \in Nat
      BY <3>0, <3>1
    <3>3. v8'.lists[l][v2[l]] <= v8.lists[l][v2[l]]
      BY <1>5, <3>1
    <3> QED
      BY <3>1, <3>2, <3>3
  <2>2. v8'.profile[Profiles!DefaultSource] = 0
    BY <1>4, <1>5
  <2>3. Profiles!CopiesAreYoung'
    BY <1>5 DEF Profiles!CopiesAreYoung, Profiles!InPrefs
  <2>4. Profiles!SavedTakesHold'
    BY <1>5 DEF Profiles!SavedTakesHold, Profiles!BuiltIn
  <2>5. v3' \in ProfileIds \cup {0}
    BY <1>1, <1>2 DEF Profiles!Shapes
  <2> QED
    BY <1>2, <1>5, <2>1, <2>2, <2>3, <2>4, <2>5, ProfilesKept
<1>6. CASE Profiles!SearchWithOwn(failing)
  <2>1. Profiles!Reads(ProfileLists, failing) /\ UNCHANGED v5
        /\ v6' = [profile |-> Profiles!Source(v3), own |-> TRUE, lists |-> [l \in ProfileLists |-> Profiles!Loader(l, failing).value]]
        /\ v3 # 0
    BY <1>6 DEF Profiles!SearchWithOwn, Profiles!Values
  <2>2. Fetch(ProfileLists)
    BY <1>3, <2>1
  <2>3. Profiles!Source(v3) \in Profiles!Sources
    BY <1>1, <2>1 DEF Profiles!Source, Profiles!Sources, Profiles!Shapes
  <2>4. v6' \in [profile : Profiles!Sources, own : BOOLEAN, lists : [ProfileLists -> ProfileVersions]]
    BY <2>1, <2>2, <2>3
  <2>5. v5'.age < ProfileTTL =>
          /\ v8'.profile[v5'.profile] <= v5'.age
          /\ \A l \in Profiles!InPrefs : v8'.lists[l][v5'.lists[l]] <= v5'.age + ProfileTTL - 1
    BY <2>1, <2>2, CopyStaysYoung
  <2>6. v6'.own /\ \A l \in ProfileLists : v8'.lists[l][v6'.lists[l]] <= ProfileTTL - 1
    BY <2>1, <2>2
  <2> QED
    BY <1>4, <1>5, <2>1, <2>2, <2>4, <2>5, <2>6
<1>7. CASE Profiles!SearchWithCopy(failing)
  <2> DEFINE rest == ProfileLists \ Profiles!InPrefs
  <2>1. Profiles!Reads(rest, failing) /\ UNCHANGED v5 /\ v5.age < ProfileTTL
        /\ v6' = [profile |-> v5.profile, own |-> FALSE,
                  lists |-> [l \in ProfileLists |-> IF l \in Profiles!InPrefs THEN v5.lists[l] ELSE Profiles!Loader(l, failing).value]]
    BY <1>7 DEF Profiles!SearchWithCopy
  <2>2. Fetch(rest)
    BY <1>1, <1>3, <2>1
  <2>3. v6' \in [profile : Profiles!Sources, own : BOOLEAN, lists : [ProfileLists -> ProfileVersions]]
    BY <1>4, <2>1, <2>2
  <2>4. /\ v8'.profile[v5.profile] <= v5.age
        /\ \A l \in Profiles!InPrefs : v8'.lists[l][v5.lists[l]] <= v5.age + ProfileTTL - 1
    BY <2>1, <2>2, CopyStaysYoung
  <2>5. v5.age \in Nat /\ v5.profile \in Profiles!Sources /\ v8'.profile[v5.profile] \in Nat
    BY <1>4, <2>2
  <2>6. v6'.profile = v5.profile /\ ~ v6'.own /\ v8'.profile[v6'.profile] <= ProfileTTL - 1
    BY <2>1, <2>4, <2>5
  <2>7. ASSUME NEW l \in ProfileLists
        PROVE  v8'.lists[l][v6'.lists[l]] <= IF v6'.own \/ l = "policies" THEN ProfileTTL - 1 ELSE 2 * (ProfileTTL - 1)
    <3>1. CASE l = "policies"
      <4>1. l \in rest /\ v6'.lists[l] = Profiles!Loader(l, failing).value
        BY <2>1, <3>1 DEF Profiles!InPrefs
      <4> QED
        BY <2>2, <3>1, <4>1
    <3>2. CASE l # "policies"
      <4>1. l \in Profiles!InPrefs /\ v6'.lists[l] = v5.lists[l] /\ v5.lists[l] \in ProfileVersions
        BY <1>4, <2>1, <3>2 DEF Profiles!InPrefs
      <4>2. v8'.lists[l][v6'.lists[l]] <= v5.age + ProfileTTL - 1 /\ v8'.lists[l][v6'.lists[l]] \in Nat
        BY <2>2, <2>4, <4>1
      <4> QED
        BY <2>1, <2>5, <2>6, <3>2, <4>2
    <3> QED
      BY <3>1, <3>2
  <2> QED
    BY <1>1, <1>4, <1>5, <2>1, <2>2, <2>3, <2>4, <2>6, <2>7
<1>8. CASE Profiles!SearchWithDefault(failing)
  <2>1. Profiles!Reads(ProfileLists, failing)
        /\ v5' = [profile |-> Profiles!DefaultSource, lists |-> [l \in Profiles!InPrefs |-> Profiles!Loader(l, failing).value], age |-> 0]
        /\ v6' = [profile |-> Profiles!DefaultSource, own |-> FALSE, lists |-> [l \in ProfileLists |-> Profiles!Loader(l, failing).value]]
    BY <1>8 DEF Profiles!SearchWithDefault, Profiles!Values
  <2>2. Fetch(ProfileLists)
    BY <1>3, <2>1
  <2>3. v6' \in [profile : Profiles!Sources, own : BOOLEAN, lists : [ProfileLists -> ProfileVersions]]
        /\ v5' \in [profile : Profiles!Sources, lists : [Profiles!InPrefs -> ProfileVersions], age : Nat]
    BY <1>1, <2>1, <2>2
  <2>4. v8'.profile[Profiles!DefaultSource] = 0
    BY <1>4, <2>2
  <2>5. /\ v8'.profile[v5'.profile] <= v5'.age
        /\ \A l \in Profiles!InPrefs : v8'.lists[l][v5'.lists[l]] <= v5'.age + ProfileTTL - 1
    <3>1. v8'.profile[v5'.profile] <= v5'.age
      BY <2>1, <2>4
    <3>2. ASSUME NEW l \in Profiles!InPrefs PROVE v8'.lists[l][v5'.lists[l]] <= v5'.age + ProfileTTL - 1
      <4>1. v5'.lists[l] = Profiles!Loader(l, failing).value /\ v5'.age = 0 /\ l \in ProfileLists
        BY <1>1, <2>1
      <4> QED
        BY <2>2, <4>1
    <3> QED
      BY <3>1, <3>2
  <2>6. v6'.profile = Profiles!DefaultSource /\ ~ v6'.own /\ \A l \in ProfileLists : v8'.lists[l][v6'.lists[l]] <= ProfileTTL - 1
    BY <2>1, <2>2
  <2>7. ASSUME NEW l \in ProfileLists
        PROVE  v8'.lists[l][v6'.lists[l]] <= IF v6'.own \/ l = "policies" THEN ProfileTTL - 1 ELSE 2 * (ProfileTTL - 1)
    <3>1. v6'.lists[l] \in ProfileVersions
      BY <2>3
    <3>2. v8'.lists \in [ProfileLists -> [ProfileVersions -> Nat]]
      BY <2>2
    <3>3. v8'.lists[l][v6'.lists[l]] \in Nat
      BY <3>1, <3>2
    <3>4. v8'.lists[l][v6'.lists[l]] <= ProfileTTL - 1
      BY <2>6
    <3> QED
      BY <3>3, <3>4
  <2> HIDE DEF Left, Fetch
  <2>8. v8'.profile[v6'.profile] <= ProfileTTL - 1
    BY <2>4, <2>6
  <2>9. Left
    BY <2>3, <2>5, <2>7, <2>8 DEF Left
  <2> QED
    BY <1>5, <2>2, <2>9
<1>9. CASE Profiles!SearchWithout(failing)
  <2> DEFINE rest == ProfileLists \ Profiles!InPrefs
  <2>1. Profiles!Reads(rest, failing) /\ UNCHANGED v5 /\ v6' = Profiles!Unjudged
    BY <1>9 DEF Profiles!SearchWithout
  <2>2. Fetch(rest)
    BY <1>1, <1>3, <2>1
  <2>3. v6' \in [profile : Profiles!Sources, own : BOOLEAN, lists : [ProfileLists -> ProfileVersions]] /\ v6'.profile = Profiles!BuiltIn
    BY <2>1 DEF Profiles!Unjudged, Profiles!NoLists, Profiles!BuiltIn, Profiles!Sources
  <2>4. v5'.age < ProfileTTL =>
          /\ v8'.profile[v5'.profile] <= v5'.age
          /\ \A l \in Profiles!InPrefs : v8'.lists[l][v5'.lists[l]] <= v5'.age + ProfileTTL - 1
    BY <2>1, <2>2, CopyStaysYoung
  <2> QED
    BY <1>1, <1>4, <1>5, <2>1, <2>2, <2>3, <2>4
<1> QED
  BY <1>6, <1>7, <1>8, <1>9 DEF Profiles!Search

\* A copy that ages is as stale as it is old.
LEMMA ProfilesTick == ASSUME Profiles!ProfilesInv, Profiles!Tick PROVE Profiles!ProfilesInv'
<1> USE ProfilesAssumption
<1>1. Profiles!Shapes /\ Profiles!DefaultSource \in Profiles!Sources /\ Profiles!InPrefs \subseteq ProfileLists
      /\ Profiles!Old \in Nat
  BY DefaultIsASource DEF Profiles!ProfilesInv, Profiles!InPrefs, Profiles!Old
<1>2. UNCHANGED <<v1, v2, v3>> /\ v6' = Profiles!Unjudged
      /\ v4' = [l \in ProfileLists |-> Profiles!Aged(v4[l], Profiles!NoCopy)]
      /\ v5' = Profiles!Aged(v5, Profiles!NoPrefs)
      /\ v8' = [lists |-> [l \in ProfileLists |-> [v \in ProfileVersions |-> IF v = v2[l] THEN 0 ELSE Profiles!Sooner(v8.lists[l][v])]],
                profile |-> [s \in Profiles!Sources |-> IF s = Profiles!DefaultSource THEN 0 ELSE Profiles!Sooner(v8.profile[s])]]
  BY DEF Profiles!Tick
<1>3. \A n \in Nat : Profiles!Sooner(n) \in Nat /\ Profiles!Sooner(n) <= n + 1
  BY <1>1 DEF Profiles!Sooner
<1>4. /\ \A l \in ProfileLists, v \in ProfileVersions : v8.lists[l][v] \in Nat
      /\ \A s \in Profiles!Sources : v8.profile[s] \in Nat
  BY <1>1 DEF Profiles!Shapes
<1>5. v8' \in [lists : [ProfileLists -> [ProfileVersions -> Nat]], profile : [Profiles!Sources -> Nat]]
  BY <1>2, <1>3, <1>4
<1>6. /\ \A l \in ProfileLists, v \in ProfileVersions : v8'.lists[l][v] \in Nat /\ v8'.lists[l][v] <= v8.lists[l][v] + 1
      /\ \A s \in Profiles!Sources : v8'.profile[s] \in Nat /\ v8'.profile[s] <= v8.profile[s] + 1
  BY <1>2, <1>3, <1>4
<1>7. /\ \A l \in ProfileLists : v4[l].age \in Nat /\ v4[l].value \in ProfileVersions /\ v4[l] \in [value : ProfileVersions, age : Nat]
      /\ v5 \in [profile : Profiles!Sources, lists : [Profiles!InPrefs -> ProfileVersions], age : Nat]
  BY <1>1 DEF Profiles!Shapes
<1>8. ASSUME NEW l \in ProfileLists
      PROVE  v4'[l] \in [value : ProfileVersions, age : Nat] /\ (v4'[l].age < ProfileTTL => v8'.lists[l][v4'[l].value] <= v4'[l].age)
  <2>1. CASE v4[l].age >= ProfileTTL - 1
    <3>1. v4'[l] = [value |-> 0, age |-> ProfileTTL]
      BY <1>2, <2>1 DEF Profiles!Aged, Profiles!NoCopy
    <3> QED
      BY <3>1
  <2>2. CASE ~ (v4[l].age >= ProfileTTL - 1)
    <3>1. v4'[l] = [v4[l] EXCEPT !.age = @ + 1]
      BY <1>2, <2>2 DEF Profiles!Aged
    <3>2. v4'[l].value = v4[l].value /\ v4'[l].age = v4[l].age + 1 /\ v4'[l] \in [value : ProfileVersions, age : Nat]
      BY <1>7, <3>1
    <3>3. v8.lists[l][v4[l].value] <= v4[l].age
      <4>1. v4[l].age < ProfileTTL
        BY <1>7, <2>2
      <4> QED
        BY <4>1 DEF Profiles!ProfilesInv, Profiles!CopiesAreYoung
    <3>4. v8'.lists[l][v4[l].value] <= v8.lists[l][v4[l].value] + 1 /\ v8'.lists[l][v4[l].value] \in Nat /\ v8.lists[l][v4[l].value] \in Nat
      BY <1>4, <1>6, <1>7
    <3>5. v8'.lists[l][v4[l].value] <= v4[l].age + 1
      BY <1>7, <3>3, <3>4
    <3> QED
      BY <3>2, <3>5
  <2> QED
    BY <2>1, <2>2
<1>9. /\ v5' \in [profile : Profiles!Sources, lists : [Profiles!InPrefs -> ProfileVersions], age : Nat]
      /\ v5'.age < ProfileTTL =>
           /\ v8'.profile[v5'.profile] <= v5'.age
           /\ \A l \in Profiles!InPrefs : v8'.lists[l][v5'.lists[l]] <= v5'.age + ProfileTTL - 1
  <2>1. CASE v5.age >= ProfileTTL - 1
    <3>1. v5' = [profile |-> Profiles!BuiltIn, lists |-> [l \in Profiles!InPrefs |-> 0], age |-> ProfileTTL]
      BY <1>2, <2>1 DEF Profiles!Aged, Profiles!NoPrefs, Profiles!NoLists
    <3>2. Profiles!BuiltIn \in Profiles!Sources
      BY DEF Profiles!BuiltIn, Profiles!Sources
    <3> QED
      BY <3>1, <3>2
  <2>2. CASE ~ (v5.age >= ProfileTTL - 1)
    <3>1. v5' = [v5 EXCEPT !.age = @ + 1]
      BY <1>2, <2>2 DEF Profiles!Aged
    <3>2. v5'.profile = v5.profile /\ v5'.lists = v5.lists /\ v5'.age = v5.age + 1
          /\ v5' \in [profile : Profiles!Sources, lists : [Profiles!InPrefs -> ProfileVersions], age : Nat]
      BY <1>7, <3>1
    <3>3. v5.age \in Nat /\ v5.profile \in Profiles!Sources /\ \A l \in Profiles!InPrefs : v5.lists[l] \in ProfileVersions /\ l \in ProfileLists
      BY <1>1, <1>7
    <3>4. v8.profile[v5.profile] <= v5.age /\ \A l \in Profiles!InPrefs : v8.lists[l][v5.lists[l]] <= v5.age + ProfileTTL - 1
      BY <2>2, <3>3 DEF Profiles!ProfilesInv, Profiles!CopiesAreYoung
    <3>5. v8'.profile[v5.profile] <= v5.age + 1
      <4>1. v8'.profile[v5.profile] <= v8.profile[v5.profile] + 1 /\ v8'.profile[v5.profile] \in Nat /\ v8.profile[v5.profile] \in Nat
        BY <1>4, <1>6, <3>3
      <4> QED
        BY <3>3, <3>4, <4>1
    <3>6. ASSUME NEW l \in Profiles!InPrefs PROVE v8'.lists[l][v5.lists[l]] <= v5.age + 1 + ProfileTTL - 1
      <4>1. v8'.lists[l][v5.lists[l]] <= v8.lists[l][v5.lists[l]] + 1 /\ v8'.lists[l][v5.lists[l]] \in Nat /\ v8.lists[l][v5.lists[l]] \in Nat
            /\ v8.lists[l][v5.lists[l]] <= v5.age + ProfileTTL - 1
        BY <1>4, <1>6, <3>3, <3>4
      <4> QED
        BY <3>3, <4>1
    <3> QED
      BY <3>2, <3>5, <3>6
  <2> QED
    BY <2>1, <2>2
<1>10. v6' \in [profile : Profiles!Sources, own : BOOLEAN, lists : [ProfileLists -> ProfileVersions]] /\ v6'.profile = Profiles!BuiltIn
  BY <1>2 DEF Profiles!Unjudged, Profiles!NoLists, Profiles!BuiltIn, Profiles!Sources
<1>11. Profiles!CopiesAreYoung'
  BY <1>8, <1>9 DEF Profiles!CopiesAreYoung, Profiles!InPrefs
<1>12. Profiles!SavedTakesHold'
  BY <1>10 DEF Profiles!SavedTakesHold, Profiles!BuiltIn
<1>13. v4' \in [ProfileLists -> [value : ProfileVersions, age : Nat]]
  BY <1>2, <1>8
<1>14. (\A l \in ProfileLists : v8'.lists[l][v2[l]] = 0) /\ v8'.profile[Profiles!DefaultSource] = 0
  BY <1>1, <1>2 DEF Profiles!Shapes
<1>15. v3' \in ProfileIds \cup {0}
  BY <1>1, <1>2 DEF Profiles!Shapes
<1> QED
  BY <1>2, <1>5, <1>9, <1>10, <1>11, <1>12, <1>13, <1>14, <1>15, ProfilesKept

\* Every step of it.
LEMMA ProfilesSteps == ASSUME Profiles!ProfilesInv, Profiles!Next PROVE Profiles!ProfilesInv'
<1>1. ASSUME NEW i \in ProfileIds \cup {0}, Profiles!SetLibraryItemQualityProfile(i) PROVE Profiles!ProfilesInv'
  <2>1. UNCHANGED <<v1, v2, v4, v5, v6, v8>> /\ v3' \in ProfileIds \cup {0}
    BY <1>1 DEF Profiles!SetLibraryItemQualityProfile
  <2>2. Profiles!Shapes /\ Profiles!ReadsAreCurrent /\ Profiles!CopiesAreYoung /\ Profiles!SavedTakesHold
    BY DEF Profiles!ProfilesInv
  <2>3. Profiles!CopiesAreYoung' /\ Profiles!SavedTakesHold'
    BY <2>1, <2>2 DEF Profiles!CopiesAreYoung, Profiles!SavedTakesHold, Profiles!BuiltIn, Profiles!InPrefs
  <2> QED
    BY <2>1, <2>2, <2>3, ProfilesKept DEF Profiles!Shapes, Profiles!ReadsAreCurrent
<1> QED
  BY <1>1, ProfilesEdited, ProfilesSearched, ProfilesTick DEF Profiles!Next

\* Nobody else's step changes what is saved or searched by.
LEMMA ProfilesStay == ASSUME Profiles!ProfilesInv, UNCHANGED <<v1, v2, v3, v4, v5, v6, v8>> PROVE Profiles!ProfilesInv'
<1>1. Profiles!Shapes /\ Profiles!ReadsAreCurrent /\ Profiles!CopiesAreYoung /\ Profiles!SavedTakesHold
  BY DEF Profiles!ProfilesInv
<1>2. Profiles!CopiesAreYoung' /\ Profiles!SavedTakesHold'
  BY <1>1 DEF Profiles!CopiesAreYoung, Profiles!SavedTakesHold, Profiles!BuiltIn, Profiles!InPrefs
<1> QED
  BY <1>1, <1>2, ProfilesKept DEF Profiles!Shapes, Profiles!ReadsAreCurrent

-----------------------------------------------------------------------------
(* HealthSweep: nobody is left out *)

\* No sweep has begun.
LEMMA SweepBegins == ASSUME Sweep!Init PROVE Sweep!SweepInv
<1>1. Sweep!NoProgress \in [after : Int, through : Int]
  BY DEF Sweep!NoProgress
<1>2. v2 \in [last : Nat, live : SUBSET Nat] /\ v2.live \subseteq 1 .. v2.last
  BY DEF Sweep!Init
<1>3. v4 \in [pc : {"idle", "list", "check", "touch", "clear"}, place : [after : Int, through : Int], page : Seq(Nat), processed : Nat]
      /\ v4.pc = "idle" /\ v4.processed = 0 /\ v4.page = <<>>
  BY <1>1 DEF Sweep!Init, Sweep!Idle
<1>4. v3 \in [progress : [after : Int, through : Int], completed : BOOLEAN] /\ v3.progress = Sweep!NoProgress
  BY <1>1 DEF Sweep!Init
<1> QED
  BY <1>2, <1>3, <1>4 DEF Sweep!SweepInv, Sweep!Shapes, Sweep!PlaceIsReached, Sweep!StepIsAtPlace, Sweep!PageIsWhole,
    Sweep!NobodyIsLeft, Sweep!SweepLeavesNoneOut

\* A coordinator goes on from the saved place or begins a sweep.
LEMMA SweepIsTakenUp == ASSUME Sweep!SweepInv, Sweep!LoadOrStart PROVE Sweep!SweepInv'
<1> USE DEF Sweep!SweepInv
<1>1. CASE v3.progress # Sweep!NoProgress
  <2>1. v4' = [pc |-> "list", place |-> v3.progress, page |-> <<>>, processed |-> 0] /\ UNCHANGED <<v2, v3, v5, v6>>
    BY <1>1 DEF Sweep!LoadOrStart, Sweep!Idle
  <2>2. Sweep!Shapes'
    <3>1. v4' \in [pc : {"idle", "list", "check", "touch", "clear"}, place : [after : Int, through : Int], page : Seq(Nat), processed : Nat]
          /\ v4'.processed <= Len(v4'.page) /\ v4'.processed = 0
      BY <2>1 DEF Sweep!Shapes
    <3> QED
      BY <2>1, <3>1 DEF Sweep!Shapes
  <2> QED
    BY <1>1, <2>1, <2>2 DEF Sweep!PlaceIsReached, Sweep!StepIsAtPlace, Sweep!PageIsWhole, Sweep!NobodyIsLeft,
      Sweep!SweepLeavesNoneOut, Sweep!NoProgress
<1>2. CASE v3.progress = Sweep!NoProgress
  <2> DEFINE started == [after |-> 0, through |-> v2.last]
  <2>1. /\ v4' = [pc |-> "list", place |-> started, page |-> <<>>, processed |-> 0]
        /\ v3' = [v3 EXCEPT !.progress = started] /\ v6' = v2.live /\ UNCHANGED v2
    BY <1>2 DEF Sweep!LoadOrStart, Sweep!Idle
  <2>2. v2.last \in Nat /\ v2.live \subseteq 1 .. v2.last /\ started \in [after : Int, through : Int]
    BY DEF Sweep!Shapes
  <2>3. v3' \in [progress : [after : Int, through : Int], completed : BOOLEAN] /\ v3'.progress = started
    BY <2>1, <2>2 DEF Sweep!Shapes
  <2>4. v4' \in [pc : {"idle", "list", "check", "touch", "clear"}, place : [after : Int, through : Int], page : Seq(Nat), processed : Nat]
        /\ v4'.processed <= Len(v4'.page) /\ v4'.processed = 0
    BY <2>1, <2>2
  <2>5. Sweep!Shapes'
    BY <2>1, <2>2, <2>3, <2>4 DEF Sweep!Shapes
  <2>6. started # Sweep!NoProgress
    BY DEF Sweep!NoProgress
  <2>7. Sweep!PlaceIsReached'
    BY <2>1, <2>2, <2>3 DEF Sweep!PlaceIsReached
  <2>8. Sweep!StepIsAtPlace'
    BY <2>1, <2>3, <2>6 DEF Sweep!StepIsAtPlace, Sweep!NoProgress
  <2> QED
    BY <2>1, <2>5, <2>7, <2>8 DEF Sweep!PageIsWhole, Sweep!NobodyIsLeft, Sweep!SweepLeavesNoneOut
<1> QED
  BY <1>1, <1>2

\* A page is listed.
LEMMA SweepListsPage == ASSUME Sweep!SweepInv, Sweep!ListPage PROVE Sweep!SweepInv'
<1> USE DEF Sweep!SweepInv
<1> DEFINE ids == {i \in v2.live : v4.place.after < i /\ i <= v4.place.through}
<1>1. PICK page \in Sweep!CandidatesPage(v4.place) :
        v4' = [v4 EXCEPT !.page = page, !.pc = IF page = <<>> THEN "touch" ELSE "check"]
  BY DEF Sweep!ListPage
<1>2. v4.pc = "list" /\ UNCHANGED <<v2, v3, v5, v6>>
  BY DEF Sweep!ListPage
<1>3. PICK n \in 0 .. SweepPage : page \in [1 .. n -> ids]
  BY DEF Sweep!CandidatesPage
<1>4. /\ \A j, k \in DOMAIN page : j < k => page[j] < page[k]
      /\ \A i \in ids : \/ \E j \in DOMAIN page : page[j] = i
                        \/ Len(page) = SweepPage /\ \A j \in DOMAIN page : page[j] < i
  BY DEF Sweep!CandidatesPage
<1>5. ids \subseteq Nat /\ v2.live \subseteq Nat /\ v6 \subseteq v2.live
  BY <1>2 DEF Sweep!Shapes, Sweep!PlaceIsReached, Sweep!StepIsAtPlace
<1>6. page \in Seq(Nat) /\ Len(page) = n /\ DOMAIN page = 1 .. n /\ n \in Nat
  BY <1>3, <1>5
<1> HIDE DEF ids
<1>7. /\ v4'.page = page /\ v4'.place = v4.place /\ v4'.processed = v4.processed
      /\ v4'.pc = (IF page = <<>> THEN "touch" ELSE "check")
      /\ v4' \in [pc : {"idle", "list", "check", "touch", "clear"}, place : [after : Int, through : Int], page : Seq(Nat), processed : Nat]
  BY <1>1, <1>6 DEF Sweep!Shapes
<1>8. Sweep!Shapes'
  BY <1>2, <1>7 DEF Sweep!Shapes
<1>9. ASSUME NEW k \in 1 .. Len(page), NEW i \in v6, v4.place.after < i, i <= page[k] PROVE \E j \in 1 .. k : page[j] = i
  <2>1. i \in ids
    BY <1>2, <1>9 DEF ids, Sweep!PlaceIsReached, Sweep!StepIsAtPlace
  <2>2. page[k] \in Nat /\ i \in Nat /\ k \in DOMAIN page
    BY <1>3, <1>5, <1>6, <2>1
  <2>3. PICK j \in DOMAIN page : page[j] = i
    BY <1>4, <1>9, <2>1, <2>2
  <2>4. ~ (k < j)
    BY <1>4, <1>9, <2>2, <2>3
  <2> QED
    BY <1>6, <2>3, <2>4
<1>10. ASSUME page = <<>>, NEW i \in v6 PROVE i <= v4.place.after
  <2>1. n = 0
    BY <1>6, <1>10
  <2>2. i \in Nat /\ v4.place.after \in Int
    BY <1>5 DEF Sweep!Shapes
  <2>3. CASE SweepPage # 0
    <3>1. i \notin ids
      BY <1>4, <1>6, <2>1, <2>3
    <3> QED
      BY <1>2, <2>2, <3>1 DEF ids, Sweep!PlaceIsReached, Sweep!StepIsAtPlace
  <2> QED
    BY <2>3, SweepAssumption
<1> QED
  BY <1>2, <1>7, <1>8, <1>9, <1>10 DEF Sweep!PlaceIsReached, Sweep!StepIsAtPlace, Sweep!PageIsWhole, Sweep!NobodyIsLeft,
    Sweep!SweepLeavesNoneOut, Sweep!Shapes

\* What the rows may do: a candidate that was there all along is still one.
RowsMove ==
  /\ v2' \in [last : Nat, live : SUBSET Nat] /\ v2'.live \subseteq 1 .. v2'.last
  /\ \A i \in v6' : i \in v6 /\ (i \in v2.live => i \in v2'.live)

LEMMA SweepRowsMove ==
  ASSUME Sweep!SweepInv, RowsMove, UNCHANGED <<v3, v4, v5>>
  PROVE  Sweep!SweepInv'
<1> USE DEF Sweep!SweepInv
<1>1. Sweep!Shapes'
  BY DEF Sweep!Shapes, RowsMove
<1>2. Sweep!PlaceIsReached'
  BY DEF Sweep!PlaceIsReached, Sweep!NoProgress, RowsMove
<1>3. Sweep!PageIsWhole'
  BY DEF Sweep!PageIsWhole, RowsMove
<1> QED
  BY <1>1, <1>2, <1>3 DEF Sweep!StepIsAtPlace, Sweep!NobodyIsLeft, Sweep!SweepLeavesNoneOut, Sweep!NoProgress, RowsMove

LEMMA SweepLooksAtRow ==
  ASSUME Sweep!SweepInv, RowsMove, UNCHANGED v3, Sweep!LookAt
  PROVE  Sweep!SweepInv'
<1> USE DEF Sweep!SweepInv
<1>1. v4.pc = "check" /\ v4.processed < Len(v4.page) /\ v4' = [v4 EXCEPT !.processed = @ + 1]
      /\ v5' = v5 \cup {v4.page[v4.processed + 1]}
  BY DEF Sweep!LookAt, Sweep!InPage, Sweep!Row
<1>2. v4.page \in Seq(Nat) /\ v4.processed \in Nat /\ Len(v4.page) \in Nat
  BY DEF Sweep!Shapes
<1>3. v4' \in [pc : {"idle", "list", "check", "touch", "clear"}, place : [after : Int, through : Int], page : Seq(Nat), processed : Nat]
      /\ v4'.pc = "check" /\ v4'.page = v4.page /\ v4'.place = v4.place /\ v4'.processed = v4.processed + 1
  <2> DEFINE next == v4.processed + 1
  <2>1. next \in Nat /\ v4' = [v4 EXCEPT !.processed = next]
    BY <1>1, <1>2
  <2> HIDE DEF next
  <2>2. v4'.processed = next
    BY <2>1 DEF Sweep!Shapes
  <2> QED
    BY <1>1, <2>1, <2>2 DEF Sweep!Shapes, next
<1>4. Sweep!Shapes'
  BY <1>1, <1>2, <1>3 DEF Sweep!Shapes, RowsMove
<1>5. Sweep!PlaceIsReached'
  BY <1>1 DEF Sweep!PlaceIsReached, Sweep!NoProgress, RowsMove
<1>6. \A k \in 1 .. v4.processed + 1 : v4.page[k] \in v5'
  BY <1>1, <1>2 DEF Sweep!PageIsWhole
<1>7. Sweep!PageIsWhole'
  BY <1>1, <1>3, <1>6 DEF Sweep!PageIsWhole, RowsMove
<1> QED
  BY <1>1, <1>3, <1>4, <1>5, <1>7 DEF Sweep!StepIsAtPlace, Sweep!NobodyIsLeft, Sweep!SweepLeavesNoneOut, Sweep!NoProgress

\* A place that is moved to a row of the page which was looked at, as those before it were.
LEMMA SweepPlaceMoves ==
  ASSUME Sweep!SweepInv, v4.pc = "check", NEW k \in 1 .. Len(v4.page),
         \A j \in 1 .. k : v4.page[j] \in v5', v5 \subseteq v5', UNCHANGED <<v2, v6>>,
         v3' = [v3 EXCEPT !.progress = [v4.place EXCEPT !.after = v4.page[k]]],
         \/ v4' = Sweep!Idle
         \/ v4' = [Sweep!Idle EXCEPT !.pc = "list", !.place = [v4.place EXCEPT !.after = v4.page[k]]]
  PROVE  Sweep!SweepInv'
<1> USE DEF Sweep!SweepInv
<1> DEFINE place == [v4.place EXCEPT !.after = v4.page[k]]
<1>1. v4.page \in Seq(Nat) /\ v4.page[k] \in Nat /\ v4.place \in [after : Int, through : Int]
  BY DEF Sweep!Shapes
<1>2. place \in [after : Int, through : Int] /\ place.after = v4.page[k] /\ place.through = v4.place.through
  BY <1>1
<1> HIDE DEF place
<1>3. v3' \in [progress : [after : Int, through : Int], completed : BOOLEAN] /\ v3'.progress = place
  BY <1>2 DEF Sweep!Shapes, place
<1>4. v3.progress # Sweep!NoProgress /\ v4.place = v3.progress /\ place # Sweep!NoProgress
  BY <1>1, <1>2 DEF Sweep!StepIsAtPlace, Sweep!NoProgress
<1>5. /\ v4' \in [pc : {"idle", "list", "check", "touch", "clear"}, place : [after : Int, through : Int], page : Seq(Nat), processed : Nat]
      /\ v4'.page = <<>> /\ v4'.processed = 0 /\ v4'.pc \in {"idle", "list"} /\ (v4'.pc = "list" => v4'.place = place)
  <2>1. Sweep!Idle \in [pc : {"idle", "list", "check", "touch", "clear"}, place : [after : Int, through : Int], page : Seq(Nat), processed : Nat]
        /\ Sweep!Idle.page = <<>> /\ Sweep!Idle.processed = 0 /\ Sweep!Idle.pc = "idle"
    BY DEF Sweep!Idle, Sweep!NoProgress
  <2>2. v4' = Sweep!Idle \/ v4' = [[Sweep!Idle EXCEPT !.pc = "list"] EXCEPT !.place = place]
    BY DEF place, Sweep!Idle
  <2> QED
    BY <1>2, <2>1, <2>2
<1>6. Sweep!Shapes'
  <2>1. v4'.processed <= Len(v4'.page)
    BY <1>5
  <2> QED
    BY <1>3, <1>5, <2>1 DEF Sweep!Shapes
<1>7. ASSUME NEW i \in v6, i <= place.after PROVE i \in v5'
  <2>1. i \in v2.live /\ i \in Nat /\ (i <= v4.place.after => i \in v5)
    BY <1>4 DEF Sweep!Shapes, Sweep!PlaceIsReached
  <2>2. CASE i <= v4.place.after
    BY <2>1, <2>2
  <2>3. CASE v4.place.after < i
    <3>1. \E j \in 1 .. k : v4.page[j] = i
      BY <1>2, <1>7, <2>3 DEF Sweep!PageIsWhole
    <3> QED
      BY <3>1
  <2> QED
    BY <1>1, <2>1, <2>2, <2>3
<1>8. Sweep!PlaceIsReached'
  BY <1>2, <1>3, <1>4, <1>7 DEF Sweep!PlaceIsReached
<1> QED
  BY <1>3, <1>4, <1>5, <1>6, <1>8 DEF Sweep!StepIsAtPlace, Sweep!PageIsWhole, Sweep!NobodyIsLeft, Sweep!SweepLeavesNoneOut, Sweep!NoProgress

\* A step that ends where it is.
LEMMA SweepStepEnds ==
  ASSUME Sweep!SweepInv, v4' = Sweep!Idle, UNCHANGED <<v2, v5, v6>>,
         v3' = v3 \/ v3' = [v3 EXCEPT !.progress = Sweep!NoProgress]
  PROVE  Sweep!SweepInv'
<1> USE DEF Sweep!SweepInv
<1>1. v4' \in [pc : {"idle", "list", "check", "touch", "clear"}, place : [after : Int, through : Int], page : Seq(Nat), processed : Nat]
      /\ v4'.processed <= Len(v4'.page) /\ v4'.pc = "idle"
  BY DEF Sweep!Idle, Sweep!NoProgress
<1>2. v3' \in [progress : [after : Int, through : Int], completed : BOOLEAN] /\ (v3'.progress = v3.progress \/ v3'.progress = Sweep!NoProgress)
  <2>1. Sweep!NoProgress \in [after : Int, through : Int]
    BY DEF Sweep!NoProgress
  <2> QED
    BY <2>1 DEF Sweep!Shapes
<1>3. Sweep!Shapes'
  BY <1>1, <1>2 DEF Sweep!Shapes
<1>4. Sweep!PlaceIsReached'
  BY <1>2 DEF Sweep!PlaceIsReached, Sweep!NoProgress
<1> QED
  BY <1>1, <1>3, <1>4 DEF Sweep!StepIsAtPlace, Sweep!PageIsWhole, Sweep!NobodyIsLeft, Sweep!SweepLeavesNoneOut

\* Every step of it.
LEMMA SweepSteps == ASSUME Sweep!SweepInv, Sweep!Next PROVE Sweep!SweepInv'
<1> USE DEF Sweep!SweepInv
<1>1. v2 \in [last : Nat, live : SUBSET Nat] /\ v2.live \subseteq 1 .. v2.last
      /\ v4.page \in Seq(Nat) /\ v4.processed \in Nat /\ v4.processed <= Len(v4.page)
  BY DEF Sweep!Shapes
<1>2. CASE Sweep!HealthCoordinator \/ Sweep!RepairCoordinator
  BY <1>2, SweepIsTakenUp DEF Sweep!HealthCoordinator, Sweep!RepairCoordinator
<1>3. CASE Sweep!ListPage
  BY <1>3, SweepListsPage
<1>4. CASE Sweep!CheckRow
  <2>1. RowsMove
    <3> DEFINE row == Sweep!Row
    <3>1. (v2' = v2 /\ v6' = v6) \/ (v2' = [v2 EXCEPT !.live = @ \ {row}] /\ v6' = v6 \ {row})
      BY <1>4 DEF Sweep!CheckRow
    <3> HIDE DEF row
    <3> QED
      BY <1>1, <3>1 DEF Sweep!Shapes, RowsMove
  <2> QED
    BY <1>4, <2>1, SweepLooksAtRow DEF Sweep!CheckRow
<1>5. CASE Sweep!RepairRow
  <2>1. RowsMove
    <3> DEFINE row == Sweep!Row
    <3>1. \/ v2' = v2 /\ v6' = v6
          \/ v2' = [last |-> v2.last + 1, live |-> (v2.live \ {row}) \cup {v2.last + 1}] /\ v6' = v6 \ {row}
      BY <1>5 DEF Sweep!RepairRow
    <3> HIDE DEF row
    <3>2. CASE v2' = v2 /\ v6' = v6
      BY <1>1, <3>2 DEF RowsMove
    <3>3. CASE v2' = [last |-> v2.last + 1, live |-> (v2.live \ {row}) \cup {v2.last + 1}] /\ v6' = v6 \ {row}
      <4>1. v2'.last = v2.last + 1 /\ v2'.live = (v2.live \ {row}) \cup {v2.last + 1}
        BY <3>3
      <4>2. v2' \in [last : Nat, live : SUBSET Nat] /\ v2'.live \subseteq 1 .. v2'.last
        BY <1>1, <3>3, <4>1
      <4>3. \A i \in v6' : i \in v6 /\ (i \in v2.live => i \in v2'.live)
        BY <3>3, <4>1
      <4> QED
        BY <4>2, <4>3 DEF RowsMove
    <3> QED
      BY <3>1, <3>2, <3>3
  <2> QED
    BY <1>5, <2>1, SweepLooksAtRow DEF Sweep!RepairRow
<1>6. CASE Sweep!Checkpoint
  <2>1. v4.pc = "check" /\ v4.processed > 0 /\ UNCHANGED <<v2, v5, v6>>
    BY <1>6 DEF Sweep!Checkpoint
  <2>2. CASE v3' = v3 /\ v4' = Sweep!Idle
    BY <2>1, <2>2, SweepStepEnds
  <2>3. CASE v3' = [v3 EXCEPT !.progress = Sweep!Place]
             /\ (v4' = Sweep!Idle \/ v4' = [Sweep!Idle EXCEPT !.pc = "list", !.place = Sweep!Place])
    <3>1. Sweep!Place = [v4.place EXCEPT !.after = v4.page[v4.processed]] /\ v4.processed \in 1 .. Len(v4.page)
      BY <1>1, <2>1 DEF Sweep!Place
    <3>2. \A j \in 1 .. v4.processed : v4.page[j] \in v5'
      BY <2>1 DEF Sweep!PageIsWhole
    <3> QED
      BY <2>1, <2>3, <3>1, <3>2, SweepPlaceMoves
  <2> QED
    BY <1>6, <2>2, <2>3 DEF Sweep!Checkpoint
<1>7. CASE Sweep!TouchCompletion
  <2>1. v4.pc = "touch" /\ v3' = [v3 EXCEPT !.completed = TRUE] /\ v4' = [v4 EXCEPT !.pc = "clear"] /\ UNCHANGED <<v2, v5, v6>>
    BY <1>7 DEF Sweep!TouchCompletion
  <2>2. v3' \in [progress : [after : Int, through : Int], completed : BOOLEAN] /\ v3'.progress = v3.progress
    BY <2>1 DEF Sweep!Shapes
  <2>3. v4' \in [pc : {"idle", "list", "check", "touch", "clear"}, place : [after : Int, through : Int], page : Seq(Nat), processed : Nat]
        /\ v4'.pc = "clear" /\ v4'.place = v4.place /\ v4'.page = v4.page /\ v4'.processed = v4.processed
    BY <2>1 DEF Sweep!Shapes
  <2>4. v6 \subseteq v5
    BY <2>1 DEF Sweep!NobodyIsLeft, Sweep!PlaceIsReached, Sweep!StepIsAtPlace
  <2> QED
    BY <2>1, <2>2, <2>3, <2>4 DEF Sweep!Shapes, Sweep!PlaceIsReached, Sweep!StepIsAtPlace, Sweep!PageIsWhole, Sweep!NobodyIsLeft,
      Sweep!SweepLeavesNoneOut, Sweep!NoProgress
<1>8. CASE Sweep!ClearProgress
  BY <1>8, SweepStepEnds DEF Sweep!ClearProgress
<1>9. CASE Sweep!Cancel
  <2>1. /\ v4.pc = "check" /\ v4.processed < Len(v4.page) /\ UNCHANGED <<v2, v6>> /\ v4' = Sweep!Idle
        /\ v3' = [v3 EXCEPT !.progress = [v4.place EXCEPT !.after = v4.page[v4.processed + 1]]]
        /\ v5' = v5 \cup {v4.page[v4.processed + 1]}
    BY <1>9 DEF Sweep!Cancel, Sweep!InPage, Sweep!Row
  <2>2. v4.processed + 1 \in 1 .. Len(v4.page)
    BY <1>1, <2>1
  <2>3. \A j \in 1 .. v4.processed + 1 : v4.page[j] \in v5'
    BY <1>1, <2>1 DEF Sweep!PageIsWhole
  <2>4. v5 \subseteq v5'
    BY <2>1
  <2> QED
    BY <2>1, <2>2, <2>3, <2>4, SweepPlaceMoves
<1>10. CASE Sweep!Crash
  BY <1>10, SweepStepEnds DEF Sweep!Crash
<1>11. CASE Sweep!Added
  BY <1>1, <1>11, SweepRowsMove DEF Sweep!Added, RowsMove
<1>12. ASSUME NEW id \in 1 .. SweepIds, Sweep!Changed(id) PROVE Sweep!SweepInv'
  <2>1. id <= v2.last /\ v2' = [v2 EXCEPT !.live = IF id \in @ THEN @ \ {id} ELSE @ \cup {id}] /\ v6' = v6 \ {id} /\ UNCHANGED <<v3, v4, v5>>
    BY <1>12 DEF Sweep!Changed
  <2>2. id \in 1 .. v2.last
    BY <1>1, <2>1
  <2>3. RowsMove
    BY <1>1, <2>1, <2>2 DEF Sweep!Shapes, RowsMove
  <2> QED
    BY <2>1, <2>3, SweepRowsMove
<1> QED
  BY <1>2, <1>3, <1>4, <1>5, <1>6, <1>7, <1>8, <1>9, <1>10, <1>11, <1>12 DEF Sweep!Next

\* Nobody else's step moves it.
LEMMA SweepStays == ASSUME Sweep!SweepInv, UNCHANGED <<v2, v3, v4, v5, v6>> PROVE Sweep!SweepInv'
BY DEF Sweep!SweepInv, Sweep!Shapes, Sweep!PlaceIsReached, Sweep!StepIsAtPlace, Sweep!PageIsWhole, Sweep!NobodyIsLeft,
  Sweep!SweepLeavesNoneOut, Sweep!NoProgress

-----------------------------------------------------------------------------
(* RecurringTasks: every task has its turn *)

\* What the tasks have in common.
SoundTask(t) ==
  /\ t.intervals \subseteq 1 .. 8 /\ t.delay \in Nat /\ t.ttl \in 0 .. 4 /\ t.budget \in Nat /\ t.longest \in 0 .. 4
  /\ t.budget <= t.longest
  /\ t.startup \in {"always", "due", "later"} /\ t.gate \in {"none", "first", "second"}
  /\ \A i \in t.intervals : t.delay < i
  /\ t.startup = "later" => \A i, j \in t.intervals : i = j
  /\ t.gate # "none" => t.startup = "later"

LEMMA TasksAreSound == ASSUME NEW t \in Schedule!Tasks PROVE SoundTask(t)
<1>1. SoundTask(Schedule!QueueHousekeeping) /\ SoundTask(Schedule!MetadataBackfill)
  BY DEF SoundTask, Schedule!QueueHousekeeping, Schedule!MetadataBackfill
<1>2. SoundTask(Schedule!RecentPass({3, 6})) /\ SoundTask(Schedule!RecentPass({6, 8}))
  BY DEF SoundTask, Schedule!RecentPass
<1>3. SoundTask(Schedule!SyncPlexDetected) /\ SoundTask(Schedule!PublishingMaintenance)
  BY DEF SoundTask, Schedule!SyncPlexDetected, Schedule!PublishingMaintenance
<1>4. SoundTask(Schedule!HealthCheck) /\ SoundTask(Schedule!StorageMaintenance) /\ SoundTask(Schedule!ContentMaintenance)
  BY DEF SoundTask, Schedule!HealthCheck, Schedule!StorageMaintenance, Schedule!ContentMaintenance
<1> QED
  BY <1>1, <1>2, <1>3, <1>4 DEF Schedule!Tasks

\* The sizes of the task that runs.
LEMMA ScheduleSizes ==
  ASSUME Schedule!Shapes
  PROVE  /\ SoundTask(v1) /\ v2 \in v1.intervals /\ v2 \in 1 .. 8 /\ v1.delay < v2
         /\ v1.delay \in Nat /\ v1.longest \in 0 .. 4 /\ v1.budget \in Nat /\ v1.budget <= v1.longest
         /\ Schedule!window \in v2 .. 8
         /\ \A r \in v7 : r.age \in Nat /\ r.since \in Nat /\ r.age <= v1.longest
         /\ v3 \in Int /\ -1 <= v3 /\ v8 \in 0 .. ScheduleHorizon /\ v10 \in 0 .. ScheduleHorizon
         /\ v5 \in -1 .. v2 /\ v6 \in -1 .. v1.delay
<1>1. SoundTask(v1)
  BY TasksAreSound DEF Schedule!Shapes
<1> USE ScheduleAssumption
<1>2. v2 \in v1.intervals /\ v2 \in 1 .. 8 /\ v1.delay < v2 /\ v1.ttl \in 0 .. 4
      /\ v1.delay \in Nat /\ v1.longest \in 0 .. 4 /\ v1.budget \in Nat /\ v1.budget <= v1.longest
  BY <1>1 DEF Schedule!Shapes, SoundTask
<1>3. Schedule!window \in v2 .. 8
  BY <1>2 DEF Schedule!window
<1>4. \A r \in v7 : r.age \in Nat /\ r.since \in Nat /\ r.age <= v1.longest
  BY <1>2 DEF Schedule!Shapes, Schedule!Run
<1> QED
  BY <1>1, <1>2, <1>3, <1>4 DEF Schedule!Shapes, Schedule!Down, Schedule!Off

\* A call that begins.
LEMMA ScheduleCalled ==
  ASSUME Schedule!Shapes, NEW who \in {"loop", "startup", "stale"}
  PROVE  LET r == Schedule!Called(who)
         IN r \in Schedule!Run /\ r.who = who /\ r.age = 0 /\ r.since = v8
            /\ (Schedule!AtGate(r) <=> v1.gate = "first") /\ (r.pc = "gate" <=> v1.gate # "none")
BY ScheduleSizes, ScheduleAssumption DEF Schedule!Called, Schedule!Run, Schedule!AtGate

\* No process is up.
LEMMA ScheduleBegins == ASSUME Schedule!Init PROVE Schedule!ScheduleInv
<1> USE ScheduleAssumption DEF Schedule!Down, Schedule!Off, Schedule!Never
<1>1. v1 \in Schedule!Tasks /\ v2 \in v1.intervals /\ v3 = -1 /\ v4 = FALSE /\ v5 = -1 /\ v6 = -1 /\ v7 = {}
      /\ v8 = ScheduleHorizon /\ v9 = FALSE /\ v10 = 0
  BY DEF Schedule!Init
<1>2. SoundTask(v1)
  BY <1>1, TasksAreSound
<1>3. v1.delay \in Nat /\ v2 \in 1 .. 8 /\ v1.longest \in Nat
  BY <1>1, <1>2 DEF SoundTask
<1>4. Schedule!Shapes
  <2>1. v5 \in -1 .. v2 /\ v6 \in -1 .. v1.delay
    BY <1>1, <1>3
  <2>2. v8 \in 0 .. ScheduleHorizon /\ v10 \in 0 .. ScheduleHorizon
    BY <1>1
  <2>3. v7 \subseteq Schedule!Run /\ \A r \in v7 : r.age <= v1.longest
    BY <1>1
  <2>4. v4 \in BOOLEAN /\ v9 \in BOOLEAN
    BY <1>1
  <2>5. v3 \in Int /\ -1 <= v3
    BY <1>1
  <2> QED
    BY <1>1, <2>1, <2>2, <2>3, <2>4, <2>5 DEF Schedule!Shapes
<1>5. Schedule!LoopWaitsOrRuns /\ Schedule!DelayedIsFirst /\ Schedule!TurnIsDue /\ Schedule!CursorIsOld /\ Schedule!NotRepeated
  BY <1>1 DEF Schedule!LoopWaitsOrRuns, Schedule!DelayedIsFirst, Schedule!TurnIsDue, Schedule!CursorIsOld, Schedule!NotRepeated
<1>6. Schedule!WorkIsNoted
  BY <1>1, <1>3 DEF Schedule!WorkIsNoted
<1> QED
  BY <1>1, <1>4, <1>5, <1>6 DEF Schedule!ScheduleInv, Schedule!OneRunAtATime

\* The process starts: the task runs if it is due, or when its delay is over, or the
\* cursor is young and so is the last run.
LEMMA ScheduleStarts == ASSUME Schedule!ScheduleInv, Schedule!Start PROVE Schedule!ScheduleInv'
<1> USE ScheduleAssumption DEF Schedule!Down, Schedule!Off
<1>1. /\ Schedule!Shapes /\ v3 = -1 /\ v7 = {} /\ v3' = 0 /\ v4' \in BOOLEAN
      /\ UNCHANGED <<v1, v2, v8, v9>> /\ SoundTask(v1)
  BY ScheduleSizes DEF Schedule!ScheduleInv, Schedule!Start, Schedule!Shapes
<1> DEFINE due == v4' \/ v8 >= Schedule!window
           runs == v1.startup = "always" \/ (v1.startup = "due" /\ due)
<1>2. /\ v2 \in v1.intervals /\ v2 \in 1 .. 8 /\ v1.delay < v2 /\ v1.delay \in Nat /\ v1.longest \in 0 .. 4
      /\ Schedule!window \in v2 .. 8 /\ v8 \in 0 .. ScheduleHorizon /\ v10 \in 0 .. ScheduleHorizon
      /\ Schedule!window' = Schedule!window
  BY <1>1, ScheduleSizes DEF Schedule!window
<1>3. /\ runs => v5' = -1 /\ v7' = {Schedule!Called("loop")} /\ v10' = IF v1.gate = "first" THEN v10 ELSE 0
      /\ ~ runs => v5' = v2 /\ v7' = {} /\ v10' = v10
      /\ v6' = IF v1.startup = "later" /\ due THEN v1.delay ELSE -1
  BY <1>1 DEF Schedule!Start, Schedule!shouldRunRecentOnStartup, Schedule!Begin
<1>4. runs => v1.gate = "none" /\ v10' = 0 /\ v1.startup # "later"
  BY <1>1, <1>3 DEF SoundTask
<1>5. LET r == Schedule!Called("loop")
      IN r \in Schedule!Run /\ r.who = "loop" /\ r.age = 0 /\ r.since = v8 /\ (Schedule!AtGate(r) <=> v1.gate = "first")
  BY <1>1, ScheduleCalled
<1> DEFINE call == Schedule!Called("loop")
<1>6. call \in Schedule!Run /\ call.who = "loop" /\ call.age = 0 /\ call.since = v8
  BY <1>5
<1> HIDE DEF call
<1>7. runs => v7' = {call}
  BY <1>3 DEF call
<1> HIDE DEF runs, due
<1>8. Schedule!Shapes'
  <2>1. v10' \in 0 .. ScheduleHorizon /\ v5' \in -1 .. v2 /\ v6' \in -1 .. v1.delay
    BY <1>2, <1>3, <1>4
  <2>2. v7' \subseteq Schedule!Run /\ \A r \in v7' : r.age <= v1.longest
    BY <1>2, <1>3, <1>6, <1>7
  <2>3. v1 \in Schedule!Tasks /\ v9 \in BOOLEAN
    BY <1>1 DEF Schedule!Shapes
  <2>4. v7' \subseteq Schedule!Run'
    BY <2>2 DEF Schedule!Run
  <2> QED
    BY <1>1, <1>2, <2>1, <2>2, <2>3, <2>4 DEF Schedule!Shapes
<1>9. Schedule!LoopWaitsOrRuns'
  BY <1>1, <1>2, <1>3, <1>6, <1>7 DEF Schedule!LoopWaitsOrRuns
<1>10. Schedule!DelayedIsFirst'
  BY <1>1, <1>2, <1>3, <1>4, <1>6, <1>7 DEF Schedule!DelayedIsFirst, due
<1>11. v10 <= v8 + v1.longest
  BY DEF Schedule!ScheduleInv, Schedule!WorkIsNoted
<1>12. Schedule!WorkIsNoted'
  BY <1>1, <1>2, <1>3, <1>4, <1>6, <1>7, <1>11 DEF Schedule!WorkIsNoted
<1>13. Schedule!TurnIsDue'
  <2>1. CASE runs
    BY <1>3, <1>4, <1>6, <1>7, <2>1, <1>1 DEF Schedule!TurnIsDue, Schedule!AtGate
  <2>2. CASE ~ runs
    <3>1. v7' = {} /\ v5' = v2 /\ v10' = v10
      BY <1>3, <2>2
    <3>2. v6' = -1 => ~ due
      BY <1>1, <1>2, <1>3, <2>2 DEF runs, SoundTask
    <3>3. v6' = -1 => v10' + v5' <= Schedule!window + v2 + v1.longest
      BY <1>2, <1>11, <3>1, <3>2 DEF due
    <3> QED
      BY <1>1, <1>2, <3>1, <3>3 DEF Schedule!TurnIsDue, Schedule!Bound
  <2> QED
    BY <2>1, <2>2
<1>14. Schedule!CursorIsOld'
  BY <1>1, <1>2, <1>3 DEF Schedule!CursorIsOld
<1>15. Schedule!NotRepeated'
  <2>1. CASE runs
    <3>1. v1.startup # "always" /\ ~ v4' => v8 >= Schedule!window
      BY <2>1 DEF runs, due
    <3> QED
      BY <1>1, <1>2, <1>6, <1>7, <2>1, <3>1 DEF Schedule!NotRepeated
  <2> QED
    BY <1>3, <2>1 DEF Schedule!NotRepeated
<1> QED
  BY <1>3, <1>7, <1>8, <1>9, <1>10, <1>12, <1>13, <1>14, <1>15 DEF Schedule!ScheduleInv, Schedule!OneRunAtATime

\* The process stops, and all that ran in it.
LEMMA ScheduleStops == ASSUME Schedule!ScheduleInv, Schedule!Stop PROVE Schedule!ScheduleInv'
<1> USE ScheduleAssumption DEF Schedule!Down, Schedule!Off
<1>1. Schedule!Shapes /\ v3' = -1 /\ v5' = -1 /\ v6' = -1 /\ v7' = {} /\ UNCHANGED <<v1, v2, v4, v8, v9, v10>>
  BY DEF Schedule!ScheduleInv, Schedule!Stop
<1>2. v1.delay \in Nat /\ v2 \in 1 .. 8
  BY <1>1, ScheduleSizes
<1>3. v5' \in -1 .. v2' /\ v6' \in -1 .. v1'.delay
  BY <1>1, <1>2
<1>4. Schedule!Shapes'
  BY <1>1, <1>3 DEF Schedule!Shapes
<1>5. Schedule!WorkIsNoted'
  BY <1>1 DEF Schedule!ScheduleInv, Schedule!WorkIsNoted
<1> QED
  BY <1>1, <1>4, <1>5 DEF Schedule!ScheduleInv, Schedule!LoopWaitsOrRuns, Schedule!DelayedIsFirst, Schedule!TurnIsDue,
    Schedule!CursorIsOld, Schedule!NotRepeated, Schedule!OneRunAtATime

\* A turn of the loop: the last one is an interval old, but for the delay and the run.
LEMMA ScheduleFires == ASSUME Schedule!ScheduleInv, Schedule!Fire PROVE Schedule!ScheduleInv'
<1> USE ScheduleAssumption DEF Schedule!Down, Schedule!Off
<1> DEFINE call == Schedule!Called("loop")
<1>1. /\ Schedule!Shapes /\ v5 = 0 /\ v5' = -1 /\ v7' = v7 \cup {call}
      /\ v10' = IF v1.gate = "first" THEN v10 ELSE 0
      /\ UNCHANGED <<v1, v2, v3, v4, v6, v8, v9>>
  BY DEF Schedule!ScheduleInv, Schedule!Fire, Schedule!Begin
<1>2. /\ call \in Schedule!Run /\ call.who = "loop" /\ call.age = 0 /\ call.since = v8
      /\ (call.pc = "gate" <=> v1.gate # "none")
  BY <1>1, ScheduleCalled
<1> HIDE DEF call
<1>3. /\ v2 \in v1.intervals /\ v2 \in 1 .. 8 /\ v1.delay < v2 /\ v1.delay \in Nat /\ v1.longest \in 0 .. 4
      /\ Schedule!window \in v2 .. 8 /\ v8 \in 0 .. ScheduleHorizon /\ v10 \in 0 .. ScheduleHorizon
      /\ v6 \in -1 .. v1.delay /\ v3 \in Int
      /\ \A r \in v7 : r.age \in Nat /\ r.age <= v1.longest
  BY <1>1, ScheduleSizes
<1>4. v3 # -1 /\ v6 = -1 /\ \A r \in v7 : r.who # "loop"
  BY <1>1, <1>3 DEF Schedule!ScheduleInv, Schedule!Shapes, Schedule!DelayedIsFirst, Schedule!LoopWaitsOrRuns
<1>5. Schedule!Shapes'
  <2>1. v10' \in 0 .. ScheduleHorizon /\ v5' \in -1 .. v2
    BY <1>1, <1>3
  <2>2. v7' \subseteq Schedule!Run' /\ \A r \in v7' : r.age <= v1.longest
    BY <1>1, <1>2, <1>3 DEF Schedule!Shapes, Schedule!Run
  <2> QED
    BY <1>1, <1>4, <2>1, <2>2 DEF Schedule!Shapes
<1>6. Schedule!LoopWaitsOrRuns'
  BY <1>1, <1>2, <1>4 DEF Schedule!LoopWaitsOrRuns
<1>7. Schedule!DelayedIsFirst'
  BY <1>1, <1>2, <1>4 DEF Schedule!ScheduleInv, Schedule!DelayedIsFirst
<1>8. Schedule!WorkIsNoted'
  <2>1. v10 <= v8 + v1.longest /\ \A r \in v7 : ~ Schedule!AtGate(r) => v10 <= r.age
    BY DEF Schedule!ScheduleInv, Schedule!WorkIsNoted
  <2>2. ~ Schedule!AtGate(call) => v10' = 0
    BY <1>1, <1>2 DEF Schedule!AtGate
  <2> QED
    BY <1>1, <1>2, <1>3, <2>1, <2>2 DEF Schedule!WorkIsNoted, Schedule!AtGate
<1>9. Schedule!TurnIsDue'
  <2>1. ~ (v9 /\ v1.gate = "first") => v3 <= v1.delay \/ v10 <= Schedule!window + v2 + v1.longest
    BY <1>1, <1>3, <1>4 DEF Schedule!ScheduleInv, Schedule!TurnIsDue, Schedule!Bound
  <2>2. v10' <= v10
    BY <1>1, <1>3
  <2>3. ~ (v9 /\ v1.gate = "first") => v3 <= v1.delay \/ v10' <= Schedule!window + v2 + v1.longest
    BY <1>1, <1>3, <2>1, <2>2
  <2> QED
    BY <1>1, <2>3 DEF Schedule!TurnIsDue, Schedule!Bound, Schedule!window
<1>10. v2 - v1.delay - v1.longest <= v8
  BY <1>1, <1>3 DEF Schedule!ScheduleInv, Schedule!CursorIsOld
<1>11. Schedule!NotRepeated'
  BY <1>1, <1>2, <1>10 DEF Schedule!ScheduleInv, Schedule!NotRepeated
<1>12. (\A i \in v1.intervals : v1.longest < i - v1.delay) => v7 = {}
  BY <1>1, <1>3 DEF Schedule!ScheduleInv, Schedule!CursorIsOld
<1> QED
  BY <1>1, <1>5, <1>6, <1>7, <1>8, <1>9, <1>11, <1>12 DEF Schedule!ScheduleInv, Schedule!CursorIsOld, Schedule!OneRunAtATime

\* The delayed run begins: it is the first of all.
LEMMA ScheduleFiresDelayed == ASSUME Schedule!ScheduleInv, Schedule!FireDelayed PROVE Schedule!ScheduleInv'
<1> USE ScheduleAssumption DEF Schedule!Down, Schedule!Off
<1> DEFINE call == Schedule!Called("startup")
<1>1. /\ Schedule!Shapes /\ v6 = 0 /\ v6' = -1 /\ v7' = v7 \cup {call}
      /\ v10' = IF v1.gate = "first" THEN v10 ELSE 0
      /\ UNCHANGED <<v1, v2, v3, v4, v5, v8, v9>>
  BY DEF Schedule!ScheduleInv, Schedule!FireDelayed, Schedule!Begin
<1>2. /\ call \in Schedule!Run /\ call.who = "startup" /\ call.age = 0 /\ call.since = v8
      /\ (Schedule!AtGate(call) <=> v1.gate = "first")
  BY <1>1, ScheduleCalled
<1> HIDE DEF call
<1>3. /\ v2 \in v1.intervals /\ v2 \in 1 .. 8 /\ v1.delay < v2 /\ v1.delay \in Nat /\ v1.longest \in 0 .. 4
      /\ Schedule!window \in v2 .. 8 /\ v8 \in 0 .. ScheduleHorizon /\ v10 \in 0 .. ScheduleHorizon
      /\ v5 \in -1 .. v2 /\ v3 \in Int
  BY <1>1, ScheduleSizes
<1>4. /\ v1.startup = "later" /\ v7 = {} /\ v3 = v1.delay /\ v5 = v2 - v3 /\ (~ v4 => v8 >= Schedule!window)
  BY <1>1, <1>3 DEF Schedule!ScheduleInv, Schedule!DelayedIsFirst
<1>5. v7' = {call} /\ v3 # -1 /\ v5 # -1
  BY <1>1, <1>3, <1>4
<1>6. Schedule!Shapes'
  <2>1. v10' \in 0 .. ScheduleHorizon /\ v6' \in -1 .. v1.delay
    BY <1>1, <1>3
  <2>2. v7' \subseteq Schedule!Run' /\ \A r \in v7' : r.age <= v1.longest
    BY <1>2, <1>3, <1>5 DEF Schedule!Run
  <2> QED
    BY <1>1, <1>5, <2>1, <2>2 DEF Schedule!Shapes
<1>7. Schedule!LoopWaitsOrRuns'
  BY <1>1, <1>2, <1>5 DEF Schedule!LoopWaitsOrRuns
<1>8. Schedule!DelayedIsFirst'
  BY <1>1, <1>2, <1>4 DEF Schedule!DelayedIsFirst
<1>9. Schedule!WorkIsNoted'
  <2>1. v10 <= v8 + v1.longest
    BY DEF Schedule!ScheduleInv, Schedule!WorkIsNoted
  <2> QED
    BY <1>1, <1>2, <1>3, <1>5, <2>1 DEF Schedule!WorkIsNoted, Schedule!AtGate
<1>10. Schedule!TurnIsDue'
  <2>1. CASE v1.gate = "first"
    <3>1. \E r \in v7' : Schedule!AtGate(r)'
      BY <1>1, <1>2, <1>5, <2>1 DEF Schedule!AtGate
    <3>2. v3' <= v1'.delay
      BY <1>1, <1>3, <1>4
    <3> QED
      BY <3>1, <3>2 DEF Schedule!TurnIsDue
  <2>2. CASE v1.gate # "first"
    <3>1. ~ \E r \in v7' : Schedule!AtGate(r)'
      BY <1>1, <2>2 DEF Schedule!AtGate
    <3>2. v10' = 0 /\ v5 <= Schedule!window + v2 + v1.longest
      BY <1>1, <1>3, <2>2
    <3>3. v10' + v5' <= Schedule!Bound'
      BY <1>1, <1>3, <3>2 DEF Schedule!Bound, Schedule!window
    <3> QED
      BY <3>1, <3>3 DEF Schedule!TurnIsDue
  <2> QED
    BY <2>1, <2>2
<1>11. Schedule!CursorIsOld'
  BY <1>1, <1>2, <1>3, <1>4, <1>5 DEF Schedule!ScheduleInv, Schedule!CursorIsOld
<1>12. Schedule!NotRepeated'
  BY <1>1, <1>2, <1>3, <1>4, <1>5 DEF Schedule!NotRepeated
<1> QED
  BY <1>5, <1>6, <1>7, <1>8, <1>9, <1>10, <1>11, <1>12 DEF Schedule!ScheduleInv, Schedule!OneRunAtATime

\* The interval is changed: the loop begins anew, and its run goes on beside it.
LEMMA ScheduleChanges ==
  ASSUME Schedule!ScheduleInv, NEW new \in v1.intervals, Schedule!Reschedule(new)
  PROVE  Schedule!ScheduleInv'
<1> USE ScheduleAssumption DEF Schedule!Down, Schedule!Off
<1> DEFINE call == Schedule!Called("stale")
           stale(r) == IF r.who = "loop" THEN [r EXCEPT !.who = "stale"] ELSE r
           old == {stale(r) : r \in v7}
<1>1. /\ Schedule!Shapes /\ v3 # -1 /\ new # v2 /\ v2' = new /\ v5' = new /\ v10' = 0
      /\ UNCHANGED <<v1, v3, v4, v6, v8, v9>>
  BY DEF Schedule!ScheduleInv, Schedule!Reschedule
<1>2. v7' = old \/ (v5 = 0 /\ v7' = old \cup {call})
  BY DEF Schedule!Reschedule
<1>3. call \in Schedule!Run /\ call.who = "stale" /\ call.age = 0
  BY <1>1, ScheduleCalled
<1>4. \A r \in v7 : stale(r) \in Schedule!Run /\ stale(r).age = r.age /\ stale(r).who # "loop"
                    /\ stale(r).pc = r.pc /\ stale(r).since = r.since /\ (stale(r).who # "stale" => r = stale(r))
  BY <1>1 DEF Schedule!Shapes, Schedule!Run
<1> HIDE DEF call, stale
<1>5. /\ SoundTask(v1) /\ v2 \in v1.intervals /\ v1.delay \in Nat /\ v1.longest \in 0 .. 4 /\ v8 \in 0 .. ScheduleHorizon
      /\ v6 \in -1 .. v1.delay
      /\ \A r \in v7 : r.age \in Nat /\ r.age <= v1.longest
  BY <1>1, ScheduleSizes
<1>6. new \in 1 .. 8 /\ v1.startup # "later"
  BY <1>1, <1>5 DEF SoundTask
<1>7. v6 = -1
  BY <1>6, <1>5 DEF Schedule!ScheduleInv, Schedule!DelayedIsFirst
<1>8. \A q \in v7' : q = call \/ \E r \in v7 : q = stale(r)
  BY <1>2
<1> HIDE DEF old
<1>9. \A q \in v7' : q \in Schedule!Run /\ q.age \in Nat /\ q.age <= v1.longest /\ q.who # "loop"
  BY <1>3, <1>4, <1>5, <1>8
<1>10. Schedule!Shapes'
  <2>1. v5' \in -1 .. v2' /\ v6' \in -1 .. v1'.delay /\ v10' \in 0 .. ScheduleHorizon
    BY <1>1, <1>5, <1>6
  <2>2. v7' \subseteq Schedule!Run' /\ \A q \in v7' : q.age <= v1'.longest
    BY <1>1, <1>9 DEF Schedule!Run
  <2> QED
    BY <1>1, <2>1, <2>2 DEF Schedule!Shapes
<1>11. Schedule!LoopWaitsOrRuns'
  BY <1>1, <1>6, <1>9 DEF Schedule!LoopWaitsOrRuns
<1>12. \A q \in v7' : q.who = "stale" \/ q \in v7
  BY <1>3, <1>4, <1>8
<1>13. Schedule!DelayedIsFirst'
  BY <1>1, <1>6, <1>7, <1>12 DEF Schedule!ScheduleInv, Schedule!DelayedIsFirst
<1>14. Schedule!WorkIsNoted'
  BY <1>1, <1>5, <1>9 DEF Schedule!WorkIsNoted
<1>15. Schedule!window' \in Nat /\ new <= Schedule!window'
  BY <1>1, <1>5, <1>6 DEF Schedule!window, SoundTask
<1>16. Schedule!TurnIsDue'
  BY <1>1, <1>5, <1>6, <1>15 DEF Schedule!TurnIsDue, Schedule!Bound
<1>17. Schedule!CursorIsOld'
  BY <1>1, <1>5, <1>6, <1>9 DEF Schedule!CursorIsOld
<1>18. Schedule!NotRepeated'
  <2>1. \A q \in v7' : q.who \in {"stale", "startup"} /\ (q.who = "startup" => q \in v7)
    BY <1>9, <1>12 DEF Schedule!Run
  <2>2. \A q \in v7 : q.who # "startup"
    BY <1>6 DEF Schedule!ScheduleInv, Schedule!DelayedIsFirst
  <2> QED
    BY <2>1, <2>2 DEF Schedule!NotRepeated
<1>19. ASSUME \A i \in v1.intervals : v1.longest < i - v1.delay, NEW q \in v7', NEW p \in v7' PROVE q = p
  <2>1. \A r, t \in v7 : r = t
    BY <1>19 DEF Schedule!ScheduleInv, Schedule!OneRunAtATime
  <2>2. v5 = 0 => v7 = {}
    <3> SUFFICES ASSUME v5 = 0, NEW r \in v7 PROVE FALSE
      OBVIOUS
    <3>1. v2 \in 1 .. 8 /\ v1.longest < v2 - v1.delay
      BY <1>1, <1>5, <1>19, ScheduleSizes
    <3>2. v2 - 0 <= v1.delay + r.age /\ r.age \in Nat /\ r.age <= v1.longest
      BY <1>5 DEF Schedule!ScheduleInv, Schedule!CursorIsOld
    <3> QED
      BY <1>5, <3>1, <3>2
  <2> QED
    BY <1>2, <2>1, <2>2 DEF old
<1> QED
  BY <1>1, <1>10, <1>11, <1>13, <1>14, <1>16, <1>17, <1>18, <1>19 DEF Schedule!ScheduleInv, Schedule!OneRunAtATime

\* A run passes its look at the backlog, and sets to work.
LEMMA SchedulePasses ==
  ASSUME Schedule!ScheduleInv, NEW r \in v7, r.pc = "gate",
         v7' = (v7 \ {r}) \cup {[r EXCEPT !.pc = "work"]},
         v10' = IF v1.gate = "first" THEN 0 ELSE v10,
         UNCHANGED <<v1, v2, v3, v4, v5, v6, v8, v9>>
  PROVE  Schedule!ScheduleInv'
<1> USE ScheduleAssumption DEF Schedule!Down, Schedule!Off
<1> DEFINE work == [r EXCEPT !.pc = "work"]
<1>1. Schedule!Shapes /\ r \in Schedule!Run
  BY DEF Schedule!ScheduleInv, Schedule!Shapes
<1>2. work \in Schedule!Run /\ work.who = r.who /\ work.pc = "work" /\ work.age = r.age /\ work.since = r.since
  BY <1>1 DEF Schedule!Run
<1> HIDE DEF work
<1>3. /\ v2 \in 1 .. 8 /\ v1.delay \in Nat /\ v1.longest \in 0 .. 4 /\ v8 \in 0 .. ScheduleHorizon /\ v10 \in 0 .. ScheduleHorizon
      /\ Schedule!window \in v2 .. 8 /\ v5 \in -1 .. v2
      /\ \A q \in v7 : q.age \in Nat /\ q.age <= v1.longest
  BY <1>1, ScheduleSizes
<1>4. v7' = (v7 \ {r}) \cup {work}
  BY DEF work
<1>5. \A q \in v7' : \E t \in v7 : q.who = t.who /\ q.age = t.age /\ q.since = t.since /\ (q = t \/ (q = work /\ t = r))
  BY <1>2, <1>4
<1>6. Schedule!Shapes'
  <2>1. v7' \subseteq Schedule!Run' /\ \A q \in v7' : q.age <= v1.longest
    BY <1>1, <1>2, <1>3, <1>4 DEF Schedule!Shapes, Schedule!Run
  <2> QED
    BY <1>1, <1>3, <2>1 DEF Schedule!Shapes
<1>7. Schedule!LoopWaitsOrRuns'
  <2>1. (\E q \in v7' : q.who = "loop") <=> (\E q \in v7 : q.who = "loop")
    BY <1>2, <1>4
  <2>2. \A q, t \in v7' : q.who = "loop" /\ t.who = "loop" => q = t
    BY <1>2, <1>4 DEF Schedule!ScheduleInv, Schedule!LoopWaitsOrRuns
  <2> QED
    BY <2>1, <2>2 DEF Schedule!ScheduleInv, Schedule!LoopWaitsOrRuns
<1>8. Schedule!DelayedIsFirst'
  BY <1>5 DEF Schedule!ScheduleInv, Schedule!DelayedIsFirst, Schedule!window
<1>9. Schedule!WorkIsNoted'
  <2>1. v10 <= v8 + v1.longest /\ \A q \in v7 : ~ Schedule!AtGate(q) => v10 <= q.age
    BY DEF Schedule!ScheduleInv, Schedule!WorkIsNoted
  <2>2. v10' = 0 \/ (v10' = v10 /\ v1.gate # "first")
    OBVIOUS
  <2>3. v10' = 0 => Schedule!WorkIsNoted'
    <3> SUFFICES ASSUME v10' = 0 PROVE Schedule!WorkIsNoted'
      OBVIOUS
    <3>1. \A q \in v7' : q.age \in Nat
      BY <1>3, <1>5
    <3> QED
      BY <1>3, <3>1 DEF Schedule!WorkIsNoted
  <2> QED
    BY <1>2, <1>4, <2>1, <2>2, <2>3 DEF Schedule!WorkIsNoted, Schedule!AtGate
<1>10. Schedule!TurnIsDue'
  <2>1. CASE v1.gate = "first"
    BY <1>3, <2>1 DEF Schedule!TurnIsDue, Schedule!Bound, Schedule!window
  <2>2. CASE v1.gate # "first"
    BY <1>3, <2>2 DEF Schedule!ScheduleInv, Schedule!TurnIsDue, Schedule!Bound, Schedule!AtGate, Schedule!window
  <2> QED
    BY <2>1, <2>2
<1>11. Schedule!CursorIsOld'
  BY <1>5 DEF Schedule!ScheduleInv, Schedule!CursorIsOld
<1>12. Schedule!NotRepeated'
  BY <1>5 DEF Schedule!ScheduleInv, Schedule!NotRepeated
<1>13. (\A q, t \in v7 : q = t) => \A q, t \in v7' : q = t
  BY <1>4
<1> QED
  BY <1>6, <1>7, <1>8, <1>9, <1>10, <1>11, <1>12, <1>13 DEF Schedule!ScheduleInv, Schedule!OneRunAtATime

\* A run is over: with its work noted, given up, or skipped for the backlog.
LEMMA ScheduleEnds ==
  ASSUME Schedule!ScheduleInv, NEW r \in v7, Schedule!End(r), Schedule!AtGate(r) => v9,
         v8' = v8 \/ (v8' = 0 /\ ~ Schedule!AtGate(r)),
         UNCHANGED <<v1, v2, v3, v4, v6, v9, v10>>
  PROVE  Schedule!ScheduleInv'
<1> USE ScheduleAssumption DEF Schedule!Down, Schedule!Off
<1>1. Schedule!Shapes /\ v7' = v7 \ {r} /\ v5' = IF r.who = "loop" THEN v2 ELSE v5
  BY DEF Schedule!ScheduleInv, Schedule!End
<1>2. /\ v2 \in 1 .. 8 /\ v1.delay \in Nat /\ v1.longest \in 0 .. 4 /\ v8 \in 0 .. ScheduleHorizon /\ v10 \in 0 .. ScheduleHorizon
      /\ Schedule!window \in v2 .. 8 /\ v5 \in -1 .. v2
      /\ \A q \in v7 : q.age \in Nat /\ q.age <= v1.longest
  BY <1>1, ScheduleSizes
<1>3. v3 # -1 /\ v6 = -1
  BY <1>1 DEF Schedule!ScheduleInv, Schedule!Shapes, Schedule!DelayedIsFirst
<1>4. Schedule!Shapes'
  <2>1. v5' \in -1 .. v2 /\ v8' \in 0 .. ScheduleHorizon
    BY <1>1, <1>2
  <2>2. v7' \subseteq Schedule!Run' /\ \A q \in v7' : q.age <= v1.longest
    BY <1>1, <1>2 DEF Schedule!Shapes, Schedule!Run
  <2> QED
    BY <1>1, <1>3, <2>1, <2>2 DEF Schedule!Shapes
<1>5. Schedule!LoopWaitsOrRuns'
  BY <1>1, <1>2, <1>3 DEF Schedule!ScheduleInv, Schedule!LoopWaitsOrRuns
<1>6. Schedule!DelayedIsFirst'
  BY <1>1, <1>3 DEF Schedule!ScheduleInv, Schedule!DelayedIsFirst
<1>7. ~ Schedule!AtGate(r) => v10 <= r.age
  BY DEF Schedule!ScheduleInv, Schedule!WorkIsNoted
<1>8. Schedule!WorkIsNoted'
  <2>1. v10 <= v8 + v1.longest /\ \A q \in v7 : ~ Schedule!AtGate(q) => v10 <= q.age
    BY DEF Schedule!ScheduleInv, Schedule!WorkIsNoted
  <2>2. v10 <= v8' + v1.longest
    BY <1>2, <1>7, <2>1
  <2> QED
    BY <1>1, <2>1, <2>2 DEF Schedule!WorkIsNoted, Schedule!AtGate
<1>9. Schedule!TurnIsDue'
  <2> SUFFICES ASSUME ~ (v9 /\ v1.gate = "first")
      PROVE  IF \E q \in v7' : Schedule!AtGate(q)' THEN v3 <= v1.delay \/ v10 <= Schedule!Bound'
             ELSE v5' # -1 => v10 + v5' <= Schedule!Bound'
    BY DEF Schedule!TurnIsDue
  <2>1. Schedule!Bound' = Schedule!Bound /\ Schedule!Bound = Schedule!window + v2 + v1.longest
    BY DEF Schedule!Bound, Schedule!window
  <2>2. ~ Schedule!AtGate(r) /\ v10 <= r.age
    BY <1>7 DEF Schedule!AtGate
  <2>3. IF \E q \in v7 : Schedule!AtGate(q) THEN v3 <= v1.delay \/ v10 <= Schedule!Bound
        ELSE v5 # -1 => v10 + v5 <= Schedule!Bound
    BY <1>3 DEF Schedule!ScheduleInv, Schedule!TurnIsDue
  <2>4. (\E q \in v7' : Schedule!AtGate(q)') <=> (\E q \in v7 : Schedule!AtGate(q))
    BY <1>1, <2>2 DEF Schedule!AtGate
  <2>5. v10 + v2 <= Schedule!Bound
    BY <1>2, <2>1, <2>2
  <2> QED
    BY <1>1, <2>1, <2>3, <2>4, <2>5
<1>10. Schedule!CursorIsOld'
  <2>1. v5' # -1 => \A q \in v7' : v2 - v5' <= v1.delay + q.age
    BY <1>1, <1>2 DEF Schedule!ScheduleInv, Schedule!CursorIsOld
  <2>2. v5' # -1 => v2 - v1.delay - v1.longest <= v8' + v5'
    BY <1>1, <1>2 DEF Schedule!ScheduleInv, Schedule!CursorIsOld
  <2> QED
    BY <2>1, <2>2 DEF Schedule!CursorIsOld
<1>11. Schedule!NotRepeated'
  BY <1>1 DEF Schedule!ScheduleInv, Schedule!NotRepeated
<1> QED
  BY <1>1, <1>4, <1>5, <1>6, <1>8, <1>9, <1>10, <1>11 DEF Schedule!ScheduleInv, Schedule!OneRunAtATime

\* The backlog grows over its threshold or shrinks under it.
LEMMA ScheduleBacklog == ASSUME Schedule!ScheduleInv, Schedule!Backlog PROVE Schedule!ScheduleInv'
<1> USE ScheduleAssumption DEF Schedule!Down, Schedule!Off
<1>1. Schedule!Shapes /\ v9' = ~ v9 /\ v10' = (IF v1.gate = "first" THEN 0 ELSE v10) /\ UNCHANGED <<v1, v2, v3, v4, v5, v6, v7, v8>>
  BY DEF Schedule!ScheduleInv, Schedule!Backlog
<1>2. /\ v2 \in 1 .. 8 /\ v1.delay \in Nat /\ v1.longest \in 0 .. 4 /\ v8 \in 0 .. ScheduleHorizon /\ v10 \in 0 .. ScheduleHorizon
      /\ Schedule!window \in v2 .. 8 /\ v5 \in -1 .. v2
      /\ \A q \in v7 : q.age \in Nat /\ q.age <= v1.longest
  BY <1>1, ScheduleSizes
<1>3. Schedule!Shapes'
  <2>1. v9' \in BOOLEAN /\ v10' \in 0 .. ScheduleHorizon
    BY <1>1, <1>2
  <2> QED
    BY <1>1, <2>1 DEF Schedule!Shapes, Schedule!Run
<1>4. Schedule!WorkIsNoted'
  BY <1>1, <1>2 DEF Schedule!ScheduleInv, Schedule!WorkIsNoted, Schedule!AtGate
<1>5. Schedule!TurnIsDue'
  <2>1. CASE v1.gate = "first"
    BY <1>1, <1>2, <2>1 DEF Schedule!TurnIsDue, Schedule!Bound, Schedule!window
  <2>2. CASE v1.gate # "first"
    BY <1>1, <1>2, <2>2 DEF Schedule!ScheduleInv, Schedule!TurnIsDue, Schedule!Bound, Schedule!AtGate, Schedule!window
  <2> QED
    BY <2>1, <2>2
<1> QED
  BY <1>1, <1>3, <1>4, <1>5 DEF Schedule!ScheduleInv, Schedule!LoopWaitsOrRuns, Schedule!DelayedIsFirst, Schedule!CursorIsOld,
    Schedule!NotRepeated, Schedule!window, Schedule!OneRunAtATime

\* Time passes: what grows older does so together.
LEMMA ScheduleTick == ASSUME Schedule!ScheduleInv, Schedule!Tick PROVE Schedule!ScheduleInv'
<1> USE ScheduleAssumption DEF Schedule!Down, Schedule!Off
<1> DEFINE aged(r) == [r EXCEPT !.age = @ + 1]
<1>1. /\ Schedule!Shapes /\ v5 # 0 /\ v6 # 0
      /\ \A r \in v7 : r.age < v1.longest /\ (r.pc = "gate" => v1.gate = "second")
      /\ v3' = (IF v3 \in 0 .. v1.delay THEN v3 + 1 ELSE v3)
      /\ v5' = (IF v5 = -1 THEN -1 ELSE v5 - 1) /\ v6' = (IF v6 = -1 THEN -1 ELSE v6 - 1)
      /\ v7' = {aged(r) : r \in v7}
      /\ v8' = Schedule!Older(v8) /\ v10' = Schedule!Older(v10)
      /\ UNCHANGED <<v1, v2, v4, v9>>
  BY DEF Schedule!ScheduleInv, Schedule!Tick
<1>2. /\ v2 \in 1 .. 8 /\ v1.delay \in Nat /\ v1.delay < v2 /\ v1.longest \in 0 .. 4
      /\ v8 \in 0 .. ScheduleHorizon /\ v10 \in 0 .. ScheduleHorizon
      /\ Schedule!window \in v2 .. 8 /\ v5 \in -1 .. v2 /\ v6 \in -1 .. v1.delay /\ v3 \in Int /\ -1 <= v3
      /\ \A q \in v7 : q.age \in Nat /\ q.age <= v1.longest
  BY <1>1, ScheduleSizes
<1>3. /\ v8' \in v8 .. v8 + 1 /\ v10' \in v10 .. v10 + 1 /\ v8' \in 0 .. ScheduleHorizon /\ v10' \in 0 .. ScheduleHorizon
      /\ v8' = v8 + 1 \/ v8' = ScheduleHorizon
  BY <1>1, <1>2 DEF Schedule!Older
<1>4. \A r \in v7 : aged(r) \in Schedule!Run /\ aged(r).age = r.age + 1 /\ aged(r).who = r.who /\ aged(r).pc = r.pc /\ aged(r).since = r.since
  <2> TAKE r \in v7
  <2>1. r \in Schedule!Run /\ r.age + 1 \in 0 .. ScheduleHorizon
    BY <1>1, <1>2 DEF Schedule!Shapes
  <2> QED
    BY <2>1 DEF Schedule!Run
<1> HIDE DEF aged
<1>5. v5' \in -1 .. v2 /\ v6' \in -1 .. v1.delay /\ (v5' = -1 <=> v5 = -1) /\ (v6' = -1 <=> v6 = -1) /\ (v3' = -1 <=> v3 = -1)
      /\ v3' \in Int /\ -1 <= v3'
  BY <1>1, <1>2
<1>6. \A q \in v7' : \E r \in v7 : q = aged(r)
  BY <1>1
<1>7. Schedule!Shapes'
  <2>1. v7' \subseteq Schedule!Run' /\ \A q \in v7' : q.age <= v1.longest
    BY <1>1, <1>2, <1>4, <1>6 DEF Schedule!Run
  <2>2. v3' = -1 => v5' = -1 /\ v6' = -1 /\ v7' = {}
    BY <1>1, <1>5 DEF Schedule!Shapes
  <2> QED
    BY <1>1, <1>3, <1>5, <2>1, <2>2 DEF Schedule!Shapes
<1>8. Schedule!LoopWaitsOrRuns'
  <2>1. (\E q \in v7' : q.who = "loop") <=> (\E q \in v7 : q.who = "loop")
    BY <1>1, <1>4
  <2>2. \A q, t \in v7' : q.who = "loop" /\ t.who = "loop" => q = t
    BY <1>4, <1>6 DEF Schedule!ScheduleInv, Schedule!LoopWaitsOrRuns
  <2> QED
    BY <1>5, <2>1, <2>2 DEF Schedule!ScheduleInv, Schedule!LoopWaitsOrRuns
<1>9. Schedule!DelayedIsFirst'
  <2>1. v6' # -1 => /\ v1.startup = "later" /\ v7' = {} /\ v3' + v6' = v1.delay /\ v5' = v2 - v3' /\ (~ v4 => v8' >= Schedule!window)
    <3> SUFFICES ASSUME v6' # -1
                 PROVE  /\ v1.startup = "later" /\ v7' = {} /\ v3' + v6' = v1.delay /\ v5' = v2 - v3'
                        /\ (~ v4 => v8' >= Schedule!window)
      OBVIOUS
    <3>1. v1.startup = "later" /\ v7 = {} /\ v3 + v6 = v1.delay /\ v5 = v2 - v3 /\ (~ v4 => v8 >= Schedule!window)
      BY <1>5 DEF Schedule!ScheduleInv, Schedule!DelayedIsFirst
    <3>2. v3 # -1
      BY <1>1, <1>5 DEF Schedule!Shapes
    <3>3. v3' = v3 + 1 /\ v6' = v6 - 1 /\ v5' = v5 - 1
      BY <1>1, <1>2, <1>5, <3>1, <3>2
    <3> QED
      BY <1>1, <1>2, <1>3, <3>1, <3>3
  <2>2. v1.startup # "later" => \A q \in v7' : q.who # "startup"
    BY <1>4, <1>6 DEF Schedule!ScheduleInv, Schedule!DelayedIsFirst
  <2> QED
    BY <1>1, <2>1, <2>2 DEF Schedule!DelayedIsFirst, Schedule!window
<1>10. Schedule!WorkIsNoted'
  <2>1. v10 <= v8 + v1.longest /\ \A q \in v7 : v10 <= q.age
    BY <1>1 DEF Schedule!ScheduleInv, Schedule!WorkIsNoted, Schedule!AtGate
  <2>2. v10' <= v8' + v1.longest
    BY <1>2, <1>3, <2>1
  <2>3. \A q \in v7' : v10' <= q.age
    BY <1>2, <1>3, <1>4, <1>6, <2>1
  <2> QED
    BY <1>1, <2>2, <2>3 DEF Schedule!WorkIsNoted
<1>11. Schedule!TurnIsDue'
  <2>1. \A q \in v7' : ~ Schedule!AtGate(q)'
    BY <1>1, <1>4, <1>6 DEF Schedule!AtGate
  <2>2. \A q \in v7 : ~ Schedule!AtGate(q)
    BY <1>1 DEF Schedule!AtGate
  <2>3. ASSUME ~ (v9 /\ v1.gate = "first"), v6 = -1, v5 # -1, v3 # -1 PROVE v10' + v5' <= Schedule!window + v2 + v1.longest
    <3>1. v10 + v5 <= Schedule!window + v2 + v1.longest
      BY <2>2, <2>3 DEF Schedule!ScheduleInv, Schedule!TurnIsDue, Schedule!Bound
    <3> QED
      BY <1>1, <1>2, <1>3, <2>3, <3>1
  <2> QED
    BY <1>1, <1>5, <2>1, <2>3 DEF Schedule!TurnIsDue, Schedule!Bound, Schedule!window
<1>12. Schedule!CursorIsOld'
  <2>1. ASSUME v5' # -1, NEW q \in v7' PROVE v2 - v5' <= v1.delay + q.age
    <3>1. PICK r \in v7 : q = aged(r)
      BY <1>6
    <3>2. v2 - v5 <= v1.delay + r.age
      BY <1>5, <2>1 DEF Schedule!ScheduleInv, Schedule!CursorIsOld
    <3>3. q.age = r.age + 1 /\ v5' = v5 - 1 /\ r.age \in Nat
      BY <1>1, <1>2, <1>4, <1>5, <2>1, <3>1
    <3> QED
      BY <1>2, <3>2, <3>3
  <2>2. ASSUME v5' # -1 PROVE v2 - v1.delay - v1.longest <= v8' + v5'
    <3>1. v2 - v1.delay - v1.longest <= v8 + v5
      BY <1>5, <2>2 DEF Schedule!ScheduleInv, Schedule!CursorIsOld
    <3>2. v5' = v5 - 1 /\ v5' \in Nat
      BY <1>1, <1>2, <1>5, <2>2
    <3> QED
      BY <1>2, <1>3, <3>1, <3>2
  <2> QED
    BY <1>1, <2>1, <2>2 DEF Schedule!CursorIsOld
<1>13. Schedule!NotRepeated'
  <2>1. ASSUME NEW q \in v7', q.who # "stale", v1.startup # "always", ~ v4 PROVE q.since >= v2 - v1.delay - v1.longest
    <3>1. PICK r \in v7 : q = aged(r)
      BY <1>6
    <3> QED
      BY <1>4, <2>1, <3>1 DEF Schedule!ScheduleInv, Schedule!NotRepeated
  <2> QED
    BY <1>1, <2>1 DEF Schedule!NotRepeated
<1>14. Schedule!OneRunAtATime'
  BY <1>1, <1>6 DEF Schedule!ScheduleInv, Schedule!OneRunAtATime
<1> QED
  BY <1>1, <1>7, <1>8, <1>9, <1>10, <1>11, <1>12, <1>13, <1>14 DEF Schedule!ScheduleInv

\* Every step of it.
LEMMA ScheduleSteps == ASSUME Schedule!ScheduleInv, Schedule!Next PROVE Schedule!ScheduleInv'
<1>1. ASSUME NEW r \in v7, Schedule!shouldSkipNonCriticalMaintenance(r) PROVE Schedule!ScheduleInv'
  <2>1. r.pc = "gate" /\ UNCHANGED <<v1, v2, v3, v4, v6, v8, v9>>
    BY <1>1 DEF Schedule!shouldSkipNonCriticalMaintenance
  <2>2. CASE v9 /\ Schedule!End(r) /\ UNCHANGED v10
    BY <2>1, <2>2, ScheduleEnds
  <2>3. CASE /\ v7' = (v7 \ {r}) \cup {[r EXCEPT !.pc = "work"]}
             /\ v10' = IF v1.gate = "first" THEN 0 ELSE v10
             /\ UNCHANGED v5
    BY <2>1, <2>3, SchedulePasses
  <2> QED
    BY <1>1, <2>2, <2>3 DEF Schedule!shouldSkipNonCriticalMaintenance
<1>2. ASSUME NEW r \in v7, Schedule!TouchMaintenanceCursor(r) PROVE Schedule!ScheduleInv'
  BY <1>2, ScheduleEnds DEF Schedule!TouchMaintenanceCursor, Schedule!AtGate
<1>3. ASSUME NEW r \in v7, Schedule!runProtected(r) PROVE Schedule!ScheduleInv'
  BY <1>3, ScheduleEnds DEF Schedule!runProtected, Schedule!AtGate
<1> QED
  BY <1>1, <1>2, <1>3, ScheduleStarts, ScheduleStops, ScheduleFires, ScheduleFiresDelayed, ScheduleChanges, ScheduleBacklog,
    ScheduleTick DEF Schedule!Next

\* Nobody else's step moves it.
LEMMA ScheduleStays == ASSUME Schedule!ScheduleInv, UNCHANGED <<v1, v2, v3, v4, v5, v6, v7, v8, v9, v10>> PROVE Schedule!ScheduleInv'
BY DEF Schedule!ScheduleInv, Schedule!Shapes, Schedule!LoopWaitsOrRuns, Schedule!DelayedIsFirst, Schedule!WorkIsNoted,
  Schedule!TurnIsDue, Schedule!CursorIsOld, Schedule!NotRepeated, Schedule!AtGate, Schedule!Bound, Schedule!window, Schedule!Run, Schedule!OneRunAtATime

\* What the run checks follows.
LEMMA ScheduleKeepsTime ==
  ASSUME Schedule!ScheduleInv
  PROVE  Schedule!NotStarved /\ Schedule!NotRepeated /\ Schedule!OneRunAtATime
<1> USE ScheduleAssumption DEF Schedule!Down, Schedule!Off
<1>1. Schedule!Shapes
  BY DEF Schedule!ScheduleInv
<1>2. /\ v2 \in 1 .. 8 /\ v1.delay \in Nat /\ v1.longest \in 0 .. 4 /\ v10 \in 0 .. ScheduleHorizon
      /\ Schedule!window \in v2 .. 8 /\ v5 \in -1 .. v2 /\ v6 \in -1 .. v1.delay /\ v3 \in Int
      /\ \A q \in v7 : q.age \in Nat /\ q.age <= v1.longest
  BY <1>1, ScheduleSizes
<1>3. ASSUME v3 > v1.delay, ~ (v9 /\ v1.gate = "first") PROVE v10 <= Schedule!window + v2 + v1.longest
  <2>1. v6 = -1 /\ v3 # -1
    BY <1>2, <1>3 DEF Schedule!ScheduleInv, Schedule!DelayedIsFirst
  <2>2. CASE \E r \in v7 : Schedule!AtGate(r)
    BY <1>2, <1>3, <2>1, <2>2 DEF Schedule!ScheduleInv, Schedule!TurnIsDue, Schedule!Bound
  <2>3. CASE ~ \E r \in v7 : Schedule!AtGate(r)
    <3>1. CASE v5 # -1
      <4>1. v10 + v5 <= Schedule!window + v2 + v1.longest
        BY <1>3, <2>1, <2>3, <3>1 DEF Schedule!ScheduleInv, Schedule!TurnIsDue, Schedule!Bound
      <4> QED
        BY <1>2, <3>1, <4>1
    <3>2. CASE v5 = -1
      <4>1. PICK r \in v7 : r.who = "loop"
        BY <2>1, <3>2 DEF Schedule!ScheduleInv, Schedule!LoopWaitsOrRuns
      <4>2. v10 <= r.age
        BY <2>3 DEF Schedule!ScheduleInv, Schedule!WorkIsNoted
      <4> QED
        BY <1>2, <4>2
    <3> QED
      BY <3>1, <3>2
  <2> QED
    BY <2>2, <2>3
<1> QED
  BY <1>3 DEF Schedule!ScheduleInv, Schedule!NotStarved

-----------------------------------------------------------------------------
(* Accounts: the places of the throttle, and the first account *)

\* The instance counts as this module does.
LEMMA UsersCount == \A S : Users!Cardinality(S) = Cardinality(S)
BY DEF Users!Cardinality, Cardinality

\* The attempts under way are finitely many, with one more and one less.
LEMMA UsersMembers ==
  ASSUME NEW S \in SUBSET UserRequests
  PROVE  /\ Users!Cardinality(S) \in Nat
         /\ Users!Cardinality(S) = 0 => S = {}
         /\ \A r : r \notin S /\ r \in UserRequests => Users!Cardinality(S \cup {r}) = Users!Cardinality(S) + 1
         /\ \A r \in S : Users!Cardinality(S \ {r}) = Users!Cardinality(S) - 1
<1>1. IsFiniteSet(S)
  BY UsersAssumption, FS_Subset
<1> QED
  BY <1>1, UsersCount, FS_CardinalityType, FS_EmptySet, FS_AddElement, FS_RemoveElement

\* Nobody has asked for anything.
LEMMA UsersBegin == ASSUME Users!Init PROVE Users!UsersInv
<1>0. v3 = 0 /\ v4 = {} /\ v5 = {} /\ v6 = 1
  BY DEF Users!Init
<1>1. /\ v2 = [k \in {} |-> Users!Fresh] /\ v3 = 0 /\ v4 = {} /\ v5 = {} /\ v6 = 1 /\ v7 = Users!NoOne
      /\ v8 = [r \in UserRequests |-> [pc |-> "new", keys |-> {}, name |-> "", id |-> 0, ok |-> FALSE]]
  BY DEF Users!Init, Users!New
<1>2. [pc |-> "new", keys |-> {}, name |-> "", id |-> 0, ok |-> FALSE] \in Users!Request
  BY DEF Users!Request
<1>3. Users!Shapes
  <2>1. DOMAIN v2 = {} /\ v8 \in [UserRequests -> Users!Request]
    BY <1>1, <1>2
  <2>2. \A k \in DOMAIN v2 : "inFlight" \in DOMAIN v2[k] /\ v2[k].inFlight \in Int
    BY <2>1
  <2>3. v3 \in Int /\ v5 \subseteq Nat /\ v6 \in Nat
    BY <1>0
  <2>4. v4 \subseteq [id : Nat, name : UserNames, admin : BOOLEAN, setup : BOOLEAN]
    BY <1>1
  <2>5. v7 \in UserRequests \cup {Users!NoOne}
    BY <1>1, Zenon
  <2> QED
    BY <2>1, <2>2, <2>3, <2>4, <2>5 DEF Users!Shapes
<1>4. Users!UnderWay = {} /\ \A k : Users!Holders(k) = {}
  BY <1>1 DEF Users!UnderWay, Users!Holders
<1>5. Users!Cardinality({}) = 0
  BY UsersCount, FS_EmptySet
<1>6. Users!SlotsAreReturned
  BY <1>1, <1>4, <1>5 DEF Users!SlotsAreReturned, Users!Entry, Users!Fresh
<1>7. Users!FirstIsLocked
  BY <1>1 DEF Users!FirstIsLocked, Users!At
<1> QED
  BY <1>3, <1>6, <1>7 DEF Users!UsersInv

\* Entries without inFlight may go: what is counted of every key stays.
LEMMA WithoutIsAsGood ==
  ASSUME NEW e, \A k \in DOMAIN e : "inFlight" \in DOMAIN e[k] /\ e[k].inFlight \in Int,
         NEW gone \in SUBSET {k \in DOMAIN e : e[k].inFlight = 0}
  PROVE  LET left == Users!Without(e, gone)
         IN /\ \A k \in DOMAIN left : "inFlight" \in DOMAIN left[k] /\ left[k].inFlight \in Int
            /\ \A k : Users!Entry(left, k).inFlight = Users!Entry(e, k).inFlight
BY DEF Users!Without, Users!Entry, Users!Fresh

\* A step that leaves the attempts under way as they are, and what is counted of each key.
LEMMA SlotsStay ==
  ASSUME Users!SlotsAreReturned, v3' = v3, Users!UnderWay' = Users!UnderWay,
         \A r \in Users!UnderWay : v8'[r].keys = v8[r].keys,
         \A k \in UserAddresses \cup UserNames : Users!Entry(v2', k).inFlight = Users!Entry(v2, k).inFlight
  PROVE  Users!SlotsAreReturned'
<1>1. \A k : Users!Holders(k)' = Users!Holders(k)
  BY DEF Users!Holders
<1> QED
  BY <1>1 DEF Users!SlotsAreReturned, Users!Entry, Users!Fresh

\* A request goes on to a place that is under way if, and only if, it was.
LEMMA WayStays ==
  ASSUME v8 \in [UserRequests -> Users!Request], NEW r \in UserRequests, NEW q \in Users!Request, v8' = [v8 EXCEPT ![r] = q],
         q.pc \in {"look", "session"} <=> v8[r].pc \in {"look", "session"}, q.keys = v8[r].keys
  PROVE  /\ v8' \in [UserRequests -> Users!Request] /\ Users!UnderWay' = Users!UnderWay
         /\ \A x \in Users!UnderWay : v8'[x].keys = v8[x].keys
BY DEF Users!UnderWay

\* A place is taken: one more is under way, and every key of it is counted once more.
LEMMA SlotIsTaken ==
  ASSUME Users!Shapes, Users!SlotsAreReturned, NEW r \in UserRequests, v8[r].pc = "new",
         NEW keys \in SUBSET (UserAddresses \cup UserNames), NEW q \in Users!Request,
         v8' = [v8 EXCEPT ![r] = q], q.pc = "look", q.keys = keys,
         NEW left, \A k \in DOMAIN left : "inFlight" \in DOMAIN left[k] /\ left[k].inFlight \in Int,
         \A k : Users!Entry(left, k).inFlight = Users!Entry(v2, k).inFlight,
         v2' = Users!Admitted(left, keys), v3' = v3 + 1
  PROVE  /\ \A k \in DOMAIN v2' : "inFlight" \in DOMAIN v2'[k] /\ v2'[k].inFlight \in Int
         /\ Users!SlotsAreReturned'
<1>1. v8 \in [UserRequests -> Users!Request] /\ Users!UnderWay \subseteq UserRequests /\ r \notin Users!UnderWay
  BY DEF Users!Shapes, Users!UnderWay
<1>2. Users!UnderWay' = Users!UnderWay \cup {r} /\ \A x \in Users!UnderWay : v8'[x] = v8[x]
  BY <1>1 DEF Users!UnderWay
<1>3. ASSUME NEW k
      PROVE  /\ k \in keys => Users!Holders(k)' = Users!Holders(k) \cup {r}
             /\ k \notin keys => Users!Holders(k)' = Users!Holders(k)
             /\ Users!Holders(k) \in SUBSET UserRequests /\ r \notin Users!Holders(k)
  <2>1. v8'[r].keys = keys
    BY <1>1
  <2> QED
    BY <1>1, <1>2, <2>1 DEF Users!Holders
<1>4. v3' = Users!Cardinality(Users!UnderWay')
  BY <1>1, <1>2, UsersMembers DEF Users!SlotsAreReturned
<1> DEFINE fresh(k) == [Users!Entry(left, k) EXCEPT !.inFlight = @ + 1, !.seen = v1]
<1>5. ASSUME NEW k PROVE "inFlight" \in DOMAIN Users!Entry(left, k) /\ Users!Entry(left, k).inFlight \in Int
  BY DEF Users!Entry, Users!Fresh
<1>6. ASSUME NEW k PROVE "inFlight" \in DOMAIN fresh(k) /\ fresh(k).inFlight = Users!Entry(left, k).inFlight + 1
  BY <1>5
<1>7. v2' = [k \in DOMAIN left \cup keys |-> IF k \in keys THEN fresh(k) ELSE left[k]]
  BY DEF Users!Admitted
<1> HIDE DEF fresh
<1>8. \A k \in DOMAIN v2' : "inFlight" \in DOMAIN v2'[k] /\ v2'[k].inFlight \in Int
  BY <1>5, <1>6, <1>7
<1>9. ASSUME NEW k \in UserAddresses \cup UserNames PROVE Users!Entry(v2', k).inFlight = Users!Cardinality(Users!Holders(k)')
  <2>1. Users!Entry(left, k).inFlight = Users!Cardinality(Users!Holders(k))
    BY DEF Users!SlotsAreReturned
  <2>2. CASE k \in keys
    <3>1. Users!Entry(v2', k) = fresh(k)
      BY <1>7, <2>2 DEF Users!Entry
    <3> QED
      BY <1>3, <1>6, <2>1, <2>2, <3>1, UsersMembers
  <2>3. CASE k \notin keys
    <3>1. Users!Entry(v2', k) = Users!Entry(left, k)
      BY <1>7, <2>3 DEF Users!Entry
    <3> QED
      BY <1>3, <2>1, <2>3, <3>1
  <2> QED
    BY <2>2, <2>3
<1> QED
  BY <1>4, <1>8, <1>9 DEF Users!SlotsAreReturned, Users!Entry, Users!Fresh

\* A place is given back: its keys are all there, for they are counted.
LEMMA SlotIsReturned ==
  ASSUME Users!Shapes, Users!SlotsAreReturned, NEW r \in Users!UnderWay, NEW success \in BOOLEAN, Users!finish(r, success),
         v8' = [v8 EXCEPT ![r].pc = "done"]
  PROVE  /\ \A k \in DOMAIN v2' : "inFlight" \in DOMAIN v2'[k] /\ v2'[k].inFlight \in Int
         /\ v3' \in Int /\ v8' \in [UserRequests -> Users!Request] /\ Users!SlotsAreReturned'
<1>1. v8 \in [UserRequests -> Users!Request] /\ Users!UnderWay \subseteq UserRequests /\ r \in UserRequests
  BY DEF Users!Shapes, Users!UnderWay
<1> DEFINE q == [v8[r] EXCEPT !.pc = "done"]
<1>2. q \in Users!Request /\ q.pc = "done" /\ v8' = [v8 EXCEPT ![r] = q]
  BY <1>1 DEF Users!Request
<1> HIDE DEF q
<1>3. v8' \in [UserRequests -> Users!Request] /\ v8'[r].pc = "done" /\ \A x \in UserRequests \ {r} : v8'[x] = v8[x]
  BY <1>1, <1>2
<1>4. Users!UnderWay' = Users!UnderWay \ {r}
  BY <1>3 DEF Users!UnderWay
<1>5. ASSUME NEW k
      PROVE  /\ Users!Holders(k)' = Users!Holders(k) \ {r} /\ Users!Holders(k) \in SUBSET UserRequests
             /\ r \in Users!Holders(k) <=> k \in v8[r].keys
  BY <1>1, <1>3, <1>4 DEF Users!Holders
<1>6. v3' = Users!Cardinality(Users!UnderWay') /\ v3' \in Int
  BY <1>1, <1>4, UsersMembers DEF Users!finish, Users!SlotsAreReturned
<1>7. DOMAIN v2' = DOMAIN v2
  BY DEF Users!finish
<1>8. \A k \in DOMAIN v2 : "inFlight" \in DOMAIN v2[k] /\ v2[k].inFlight \in Int
  BY DEF Users!Shapes
<1>9. ASSUME NEW k \in DOMAIN v2
      PROVE  /\ "inFlight" \in DOMAIN v2'[k]
             /\ k \in v8[r].keys => v2'[k].inFlight = v2[k].inFlight - 1
             /\ k \notin v8[r].keys => v2'[k] = v2[k]
  BY <1>8 DEF Users!finish
<1>10. ASSUME NEW k \in UserAddresses \cup UserNames PROVE Users!Entry(v2', k).inFlight = Users!Cardinality(Users!Holders(k)')
  <2>1. Users!Entry(v2, k).inFlight = Users!Cardinality(Users!Holders(k))
    BY DEF Users!SlotsAreReturned
  <2>2. CASE k \in v8[r].keys
    <3>1. r \in Users!Holders(k) /\ Users!Cardinality(Users!Holders(k)) # 0
      BY <1>5, <2>2, UsersMembers
    <3>2. k \in DOMAIN v2
      BY <2>1, <3>1 DEF Users!Entry, Users!Fresh
    <3>3. Users!Entry(v2', k).inFlight = Users!Entry(v2, k).inFlight - 1
      BY <1>7, <1>9, <2>2, <3>2 DEF Users!Entry
    <3> QED
      BY <1>5, <2>1, <3>1, <3>3, UsersMembers
  <2>3. CASE k \notin v8[r].keys
    <3>1. Users!Entry(v2', k) = Users!Entry(v2, k)
      BY <1>7, <1>9, <2>3 DEF Users!Entry
    <3>2. Users!Holders(k)' = Users!Holders(k)
      BY <1>5, <2>3
    <3> QED
      BY <2>1, <3>1, <3>2
  <2> QED
    BY <2>2, <2>3
<1>11. \A k \in DOMAIN v2' : "inFlight" \in DOMAIN v2'[k] /\ v2'[k].inFlight \in Int
  BY <1>7, <1>8, <1>9
<1> QED
  BY <1>3, <1>6, <1>10, <1>11 DEF Users!SlotsAreReturned, Users!Entry, Users!Fresh

\* An attempt is admitted or turned away, after what may go has gone.
LEMMA UsersAdmit == ASSUME Users!UsersInv, NEW r \in UserRequests, Users!begin(r) PROVE Users!UsersInv'
<1>1. Users!Shapes /\ Users!SlotsAreReturned /\ Users!FirstIsLocked /\ v8[r].pc = "new" /\ UNCHANGED <<v1, v4, v5, v6, v7>>
  BY DEF Users!UsersInv, Users!begin, Users!At
<1>2. v8 \in [UserRequests -> Users!Request] /\ \A k \in DOMAIN v2 : "inFlight" \in DOMAIN v2[k] /\ v2[k].inFlight \in Int
  BY <1>1 DEF Users!Shapes
<1>3. PICK a \in UserAddresses, n \in UserNames, e \in Users!pruneExpired :
       LET keys == {a, n} IN
       \/ /\ v3 >= UserPlaces \/ Users!Waits(e, keys)
          /\ v2' = e
          /\ Users!Goto(r, "done") /\ UNCHANGED v3
       \/ /\ v3 < UserPlaces /\ ~ Users!Waits(e, keys)
          /\ \E v \in Users!ensureCapacity(e, keys) :
               LET left == Users!Without(e, v) IN
               IF Users!Room(left, keys) < 0
                 THEN v2' = left /\ Users!Goto(r, "done") /\ UNCHANGED v3
                 ELSE /\ v2' = Users!Admitted(left, keys)
                      /\ v3' = v3 + 1
                      /\ v8' = [v8 EXCEPT ![r].pc = "look", ![r].keys = keys, ![r].name = n]
  BY DEF Users!begin
<1> DEFINE keys == {a, n}
           Good(x) == /\ \A k \in DOMAIN x : "inFlight" \in DOMAIN x[k] /\ x[k].inFlight \in Int
                      /\ \A k : Users!Entry(x, k).inFlight = Users!Entry(v2, k).inFlight
<1>4. Good(e)
  <2>1. Users!Expired \subseteq {k \in DOMAIN v2 : v2[k].inFlight = 0}
    BY DEF Users!Expired
  <2>2. Good(Users!Without(v2, Users!Expired))
    BY <1>2, <2>1, WithoutIsAsGood
  <2>3. Good(v2)
    BY <1>2
  <2> HIDE DEF Good
  <2> QED
    BY <1>3, <2>2, <2>3 DEF Users!pruneExpired
<1>5. ASSUME NEW v \in Users!ensureCapacity(e, keys) PROVE Good(Users!Without(e, v))
  <2>1. v \subseteq {k \in DOMAIN e : e[k].inFlight = 0}
    BY <1>5 DEF Users!ensureCapacity, Users!Evictable
  <2> QED
    BY <1>4, <2>1, WithoutIsAsGood
<1> DEFINE done == [v8[r] EXCEPT !.pc = "done"]
           look == [v8[r] EXCEPT !.pc = "look", !.keys = keys, !.name = n]
<1>6. done \in Users!Request /\ done.pc = "done" /\ done.keys = v8[r].keys
  BY <1>2 DEF Users!Request
<1>7. look \in Users!Request /\ look.pc = "look" /\ look.keys = keys
  BY <1>2 DEF Users!Request
<1> HIDE DEF Good, done, look
<1>8. \A q \in {done, look} : v8' = [v8 EXCEPT ![r] = q] =>
        v8' \in [UserRequests -> Users!Request] /\ Users!FirstIsLocked'
  <2> SUFFICES ASSUME NEW q \in {done, look}, v8' = [v8 EXCEPT ![r] = q]
               PROVE  v8' \in [UserRequests -> Users!Request] /\ Users!FirstIsLocked'
    OBVIOUS
  <2>1. v8' \in [UserRequests -> Users!Request] /\ \A x \in UserRequests : v8'[x].pc = "insert" => v8[x].pc = "insert"
    BY <1>2, <1>6, <1>7
  <2> QED
    BY <1>1, <2>1 DEF Users!FirstIsLocked, Users!At
<1>9. ASSUME NEW x, Good(x), v2' = x, Users!Goto(r, "done"), UNCHANGED v3 PROVE Users!UsersInv'
  <2>1. v8' = [v8 EXCEPT ![r] = done]
    BY <1>9 DEF Users!Goto, done
  <2>2. v8' \in [UserRequests -> Users!Request] /\ Users!UnderWay' = Users!UnderWay
        /\ \A y \in Users!UnderWay : v8'[y].keys = v8[y].keys
    BY <1>1, <1>2, <1>6, <2>1, WayStays
  <2>3. Users!SlotsAreReturned'
    BY <1>1, <1>9, <2>2, SlotsStay DEF Good
  <2>4. \A k \in DOMAIN v2' : "inFlight" \in DOMAIN v2'[k] /\ v2'[k].inFlight \in Int
    BY <1>9 DEF Good
  <2>5. Users!Shapes'
    BY <1>1, <1>9, <2>2, <2>4 DEF Users!Shapes, Users!NoOne, Users!Request
  <2> QED
    BY <1>8, <2>1, <2>3, <2>5 DEF Users!UsersInv
<1>10. ASSUME NEW x, Good(x), v2' = Users!Admitted(x, keys), v3' = v3 + 1, v8' = [v8 EXCEPT ![r] = look] PROVE Users!UsersInv'
  <2>1. keys \in SUBSET (UserAddresses \cup UserNames)
    OBVIOUS
  <2> HIDE DEF keys
  <2>2. (\A k \in DOMAIN v2' : "inFlight" \in DOMAIN v2'[k] /\ v2'[k].inFlight \in Int) /\ Users!SlotsAreReturned'
    BY <1>1, <1>7, <1>10, <2>1, SlotIsTaken DEF Good
  <2>3. v8' \in [UserRequests -> Users!Request]
    BY <1>8, <1>10
  <2>4. v3' \in Int
    BY <1>1, <1>10 DEF Users!Shapes
  <2>5. Users!Shapes'
    <3> HIDE DEF look
    <3>1. v4' = v4 /\ v5' = v5 /\ v6' = v6 /\ v7' = v7
      BY <1>1
    <3> QED
      BY <1>1, <2>2, <2>3, <2>4, <3>1 DEF Users!Shapes, Users!NoOne, Users!Request
  <2> QED
    BY <1>8, <1>10, <2>2, <2>5 DEF Users!UsersInv
<1>11. CASE v2' = e /\ Users!Goto(r, "done") /\ UNCHANGED v3
  BY <1>4, <1>9, <1>11
<1>12. ASSUME NEW v \in Users!ensureCapacity(e, keys), v2' = Users!Without(e, v), Users!Goto(r, "done"), UNCHANGED v3
       PROVE  Users!UsersInv'
  BY <1>5, <1>9, <1>12
<1>13. ASSUME NEW v \in Users!ensureCapacity(e, keys), v2' = Users!Admitted(Users!Without(e, v), keys), v3' = v3 + 1,
              v8' = [v8 EXCEPT ![r].pc = "look", ![r].keys = keys, ![r].name = n]
       PROVE  Users!UsersInv'
  <2>1. v8' = [v8 EXCEPT ![r] = look]
    BY <1>13 DEF look
  <2> QED
    BY <1>5, <1>10, <1>13, <2>1
<1> QED
  BY <1>3, <1>11, <1>12, <1>13

\* A step of a request that is no part of the throttle: what it does to the accounts must
\* leave the first one the only one.
LEMMA UsersGoOn ==
  ASSUME Users!UsersInv, NEW r \in UserRequests, NEW q \in Users!Request, v8' = [v8 EXCEPT ![r] = q],
         q.pc \in {"look", "session"} <=> v8[r].pc \in {"look", "session"}, q.keys = v8[r].keys,
         UNCHANGED <<v2, v3>>,
         v4' \subseteq [id : Nat, name : UserNames, admin : BOOLEAN, setup : BOOLEAN], v5' \subseteq Nat, v6' \in Nat,
         v7' \in UserRequests \cup {Users!NoOne}, Users!FirstIsLocked'
  PROVE  Users!UsersInv'
<1>1. Users!Shapes /\ Users!SlotsAreReturned
  BY DEF Users!UsersInv
<1>2. v8' \in [UserRequests -> Users!Request] /\ Users!UnderWay' = Users!UnderWay
      /\ \A x \in Users!UnderWay : v8'[x].keys = v8[x].keys
  BY <1>1, WayStays DEF Users!Shapes
<1>3. Users!SlotsAreReturned'
  BY <1>1, <1>2, SlotsStay
<1>4. Users!Shapes'
  BY <1>1, <1>2 DEF Users!Shapes, Users!NoOne, Users!Request
<1> QED
  BY <1>3, <1>4 DEF Users!UsersInv

\* ... and when it makes no account and does not come to make one, it does.
LEMMA UsersPass ==
  ASSUME Users!UsersInv, NEW r \in UserRequests, NEW q \in Users!Request, v8' = [v8 EXCEPT ![r] = q],
         q.pc \in {"look", "session"} <=> v8[r].pc \in {"look", "session"}, q.keys = v8[r].keys, q.pc # "insert",
         UNCHANGED <<v2, v3, v7>>,
         v4' \subseteq [id : Nat, name : UserNames, admin : BOOLEAN, setup : BOOLEAN], v5' \subseteq Nat, v6' \in Nat,
         \A u \in v4' : u.setup => u \in v4
  PROVE  Users!UsersInv'
<1>1. Users!Shapes /\ Users!FirstIsLocked
  BY DEF Users!UsersInv
<1>2. \A x \in UserRequests : v8'[x].pc = "insert" => v8[x].pc = "insert"
  BY <1>1 DEF Users!Shapes
<1>3. Users!FirstIsLocked'
  BY <1>1, <1>2 DEF Users!FirstIsLocked, Users!At
<1>4. v7' \in UserRequests \cup {Users!NoOne}
  BY <1>1 DEF Users!Shapes
<1> QED
  BY <1>3, <1>4, UsersGoOn

\* An attempt ends, with a session or without.
LEMMA UsersFinish ==
  ASSUME Users!UsersInv, NEW r \in UserRequests, v8[r].pc \in {"look", "session"}, NEW success \in BOOLEAN, Users!finish(r, success),
         v8' = [v8 EXCEPT ![r].pc = "done"], UNCHANGED <<v4, v6, v7>>, v5' \subseteq Nat
  PROVE  Users!UsersInv'
<1>1. Users!Shapes /\ Users!SlotsAreReturned /\ Users!FirstIsLocked /\ r \in Users!UnderWay
  BY DEF Users!UsersInv, Users!UnderWay
<1>2. /\ \A k \in DOMAIN v2' : "inFlight" \in DOMAIN v2'[k] /\ v2'[k].inFlight \in Int
      /\ v3' \in Int /\ v8' \in [UserRequests -> Users!Request] /\ Users!SlotsAreReturned'
  BY <1>1, SlotIsReturned
<1>3. \A x \in UserRequests : v8'[x].pc = "insert" => v8[x].pc = "insert"
  BY <1>1 DEF Users!Shapes, Users!Request
<1>4. Users!FirstIsLocked'
  BY <1>1, <1>3 DEF Users!FirstIsLocked, Users!At
<1>5. Users!Shapes'
  BY <1>1, <1>2 DEF Users!Shapes, Users!NoOne, Users!Request
<1> QED
  BY <1>2, <1>4, <1>5 DEF Users!UsersInv

\* The first account: one request is about to make it.
LEMMA UsersSetUp ==
  ASSUME Users!UsersInv, NEW r \in UserRequests, Users!SetupBegin(r) \/ Users!SetupLock(r) \/ Users!CreateInitialAdmin(r)
  PROVE  Users!UsersInv'
<1>1. Users!Shapes /\ Users!FirstIsLocked
  BY DEF Users!UsersInv
<1>2. /\ v4 \subseteq [id : Nat, name : UserNames, admin : BOOLEAN, setup : BOOLEAN] /\ v5 \subseteq Nat /\ v6 \in Nat
      /\ v7 \in UserRequests \cup {Users!NoOne} /\ v8 \in [UserRequests -> Users!Request]
  BY <1>1 DEF Users!Shapes
<1> DEFINE go(pc) == [v8[r] EXCEPT !.pc = pc]
<1>3. \A pc \in {"new", "look", "session", "setup", "insert", "signin", "claims", "done"} :
        go(pc) \in Users!Request /\ go(pc).pc = pc /\ go(pc).keys = v8[r].keys
  <2> SUFFICES ASSUME NEW pc \in {"new", "look", "session", "setup", "insert", "signin", "claims", "done"}
               PROVE  go(pc) \in Users!Request /\ go(pc).pc = pc /\ go(pc).keys = v8[r].keys
    OBVIOUS
  <2>1. v8[r] \in Users!Request
    BY <1>2
  <2> QED
    BY <2>1 DEF Users!Request
<1> HIDE DEF go
<1>4. CASE Users!SetupBegin(r)
  <2>1. v8[r].pc = "new" /\ UNCHANGED <<v2, v3, v4, v5, v6, v7>> /\ \E pc \in {"setup", "done"} : v8' = [v8 EXCEPT ![r] = go(pc)]
    BY <1>4 DEF Users!SetupBegin, Users!At, Users!Goto, go
  <2> QED
    BY <1>2, <1>3, <2>1, UsersPass
<1>5. CASE Users!SetupLock(r) /\ v4 # {}
  <2>1. v8[r].pc = "setup" /\ UNCHANGED <<v2, v3, v4, v5, v6, v7>> /\ v8' = [v8 EXCEPT ![r] = go("done")]
    BY <1>5 DEF Users!SetupLock, Users!At, Users!Goto, go
  <2> QED
    BY <1>2, <1>3, <2>1, UsersPass
<1>6. CASE Users!SetupLock(r) /\ v4 = {}
  <2>1. v8[r].pc = "setup" /\ v7 = Users!NoOne /\ v7' = r /\ UNCHANGED <<v2, v3, v4, v5, v6>> /\ v8' = [v8 EXCEPT ![r] = go("insert")]
    BY <1>6 DEF Users!SetupLock, Users!At, Users!Goto, go
  <2>2. \A x \in UserRequests : v8[x].pc # "insert"
    BY <1>1, <2>1, UsersAssumption DEF Users!FirstIsLocked, Users!At
  <2>3. \A x \in UserRequests : v8'[x].pc = "insert" => x = r
    BY <1>2, <2>1, <2>2
  <2>4. Users!FirstIsLocked'
    BY <1>6, <2>1, <2>3 DEF Users!FirstIsLocked, Users!At
  <2> QED
    BY <1>2, <1>3, <2>1, <2>4, UsersGoOn
<1>7. CASE Users!CreateInitialAdmin(r)
  <2>1. PICK n \in UserNames : Users!Insert(n, TRUE, TRUE)
    BY <1>7 DEF Users!CreateInitialAdmin
  <2> DEFINE row == [id |-> v6, name |-> n, admin |-> TRUE, setup |-> TRUE]
             q == [v8[r] EXCEPT !.pc = "signin", !.id = v6]
  <2>2. v8[r].pc = "insert" /\ v7' = Users!NoOne /\ UNCHANGED <<v2, v3, v5>> /\ v4' = v4 \cup {row} /\ v6' = v6 + 1
        /\ v8' = [v8 EXCEPT ![r] = q]
    BY <1>7, <2>1 DEF Users!CreateInitialAdmin, Users!At, Users!Insert
  <2>3. q \in Users!Request /\ q.pc = "signin" /\ q.keys = v8[r].keys
    <3>1. v8[r] \in Users!Request /\ v6 \in Nat
      BY <1>2
    <3> QED
      BY <3>1 DEF Users!Request
  <2>4. row \in [id : Nat, name : UserNames, admin : BOOLEAN, setup : BOOLEAN]
    BY <1>2
  <2> HIDE DEF row, q
  <2>5. v7 = r /\ \A u \in v4 : ~ u.setup
    BY <1>1, <2>2 DEF Users!FirstIsLocked, Users!At
  <2>6. \A x \in UserRequests : v8'[x].pc # "insert"
    BY <1>1, <1>2, <2>2, <2>3, <2>5 DEF Users!FirstIsLocked, Users!At
  <2>7. Users!FirstIsLocked'
    BY <2>2, <2>5, <2>6 DEF Users!FirstIsLocked, Users!At
  <2>8. v4' \subseteq [id : Nat, name : UserNames, admin : BOOLEAN, setup : BOOLEAN] /\ v6' \in Nat
        /\ v7' \in UserRequests \cup {Users!NoOne} /\ v5' \subseteq Nat
    BY <1>2, <2>2, <2>4
  <2>9. q.pc \in {"look", "session"} <=> v8[r].pc \in {"look", "session"}
    BY <2>2, <2>3
  <2> QED
    BY <2>2, <2>3, <2>7, <2>8, <2>9, UsersGoOn
<1> QED
  BY <1>4, <1>5, <1>6, <1>7

\* Everything else with a request.
LEMMA UsersServe ==
  ASSUME Users!UsersInv, NEW r \in UserRequests,
         \/ Users!CheckPassword(r) \/ Users!CreateSession(r) \/ Users!SignIn(r) \/ Users!Middleware(r)
         \/ Users!handleLogout(r) \/ Users!handleCreateUser(r) \/ Users!handleDeleteUser(r)
  PROVE  Users!UsersInv'
<1>1. Users!Shapes
  BY DEF Users!UsersInv
<1>2. /\ v4 \subseteq [id : Nat, name : UserNames, admin : BOOLEAN, setup : BOOLEAN] /\ v5 \subseteq Nat /\ v6 \in Nat
      /\ v8 \in [UserRequests -> Users!Request] /\ \A u \in v4 : u.id \in Nat
  BY <1>1 DEF Users!Shapes
<1> DEFINE go(pc) == [v8[r] EXCEPT !.pc = pc]
<1>3. \A pc \in {"new", "look", "session", "setup", "insert", "signin", "claims", "done"} :
        go(pc) \in Users!Request /\ go(pc).pc = pc /\ go(pc).keys = v8[r].keys
  <2> SUFFICES ASSUME NEW pc \in {"new", "look", "session", "setup", "insert", "signin", "claims", "done"}
               PROVE  go(pc) \in Users!Request /\ go(pc).pc = pc /\ go(pc).keys = v8[r].keys
    OBVIOUS
  <2>1. v8[r] \in Users!Request
    BY <1>2
  <2> QED
    BY <2>1 DEF Users!Request
<1> HIDE DEF go
<1>4. CASE Users!CheckPassword(r)
  <2>1. v8[r].pc = "look" /\ v7' = v7
    BY <1>4 DEF Users!CheckPassword, Users!At
  <2>2. CASE Users!finish(r, FALSE) /\ Users!Goto(r, "done") /\ UNCHANGED Users!tableVars
    <3>1. PICK b \in BOOLEAN : b = FALSE
      OBVIOUS
    <3>3. Users!finish(r, b)
      BY <2>2, <3>1
    <3>2. v8' = [v8 EXCEPT ![r].pc = "done"] /\ UNCHANGED <<v4, v5, v6>>
      BY <2>2 DEF Users!Goto, Users!tableVars
    <3> QED
      BY <1>2, <2>1, <3>2, <3>3, UsersFinish
  <2>3. ASSUME NEW u \in Users!Named(v8[r].name), v8' = [v8 EXCEPT ![r].pc = "session", ![r].id = u.id], UNCHANGED <<v2, v3, v4, v5, v6>>
        PROVE  Users!UsersInv'
    <3> DEFINE q == [v8[r] EXCEPT !.pc = "session", !.id = u.id]
    <3>1. v8' = [v8 EXCEPT ![r] = q]
      BY <2>3
    <3>2. u.id \in Nat /\ v8[r] \in Users!Request
      BY <1>2 DEF Users!Named
    <3>3. q \in Users!Request /\ q.pc = "session" /\ q.keys = v8[r].keys
      BY <3>2 DEF Users!Request
    <3> HIDE DEF q
    <3> QED
      BY <1>2, <2>1, <2>3, <3>1, <3>3, UsersPass
  <2> QED
    BY <1>4, <2>2, <2>3 DEF Users!CheckPassword
<1>5. CASE Users!CreateSession(r)
  <2>1. v8[r].pc = "session" /\ v8' = [v8 EXCEPT ![r].pc = "done"] /\ UNCHANGED <<v4, v6, v7>>
        /\ v5' = v5 \cup ({v8[r].id} \cap {u.id : u \in v4})
    BY <1>5 DEF Users!CreateSession, Users!At, Users!Goto
  <2>2. v5' \subseteq Nat
    BY <1>2, <2>1
  <2>3. PICK b \in BOOLEAN : b = TRUE
    OBVIOUS
  <2>4. Users!finish(r, b)
    BY <1>5, <2>3 DEF Users!CreateSession
  <2> QED
    BY <2>1, <2>2, <2>4, UsersFinish
<1>6. CASE Users!SignIn(r)
  <2>1. v8[r].pc = "signin" /\ v8' = [v8 EXCEPT ![r] = go("done")] /\ UNCHANGED <<v2, v3, v4, v6, v7>>
        /\ v5' = v5 \cup ({v8[r].id} \cap {u.id : u \in v4})
    BY <1>6 DEF Users!SignIn, Users!At, Users!Goto, go
  <2>2. v5' \subseteq Nat
    BY <1>2, <2>1
  <2> QED
    BY <1>2, <1>3, <2>1, <2>2, UsersPass
<1>7. CASE Users!Middleware(r)
  <2>1. PICK id \in v5 : v8' = [v8 EXCEPT ![r].pc = "claims", ![r].id = id, ![r].ok = \E u \in v4 : u.id = id /\ u.admin]
    BY <1>7 DEF Users!Middleware
  <2>2. PICK ok \in BOOLEAN : ok = \E u \in v4 : u.id = id /\ u.admin
    OBVIOUS
  <2> DEFINE q == [v8[r] EXCEPT !.pc = "claims", !.id = id, !.ok = ok]
  <2>3. v8' = [v8 EXCEPT ![r] = q] /\ v8[r].pc = "new" /\ UNCHANGED <<v2, v3, v4, v5, v6, v7>>
    BY <1>7, <2>1, <2>2 DEF Users!Middleware, Users!At
  <2>4. q \in Users!Request /\ q.pc = "claims" /\ q.keys = v8[r].keys
    <3>1. v8[r] \in Users!Request /\ id \in Nat
      BY <1>2
    <3> QED
      BY <3>1 DEF Users!Request
  <2> HIDE DEF q
  <2> QED
    BY <1>2, <2>3, <2>4, UsersPass
<1>8. CASE Users!handleLogout(r)
  <2>1. v8[r].pc = "claims" /\ v8' = [v8 EXCEPT ![r] = go("done")] /\ UNCHANGED <<v2, v3, v4, v6, v7>> /\ v5' \subseteq v5
    BY <1>8 DEF Users!handleLogout, Users!At, Users!Goto, go
  <2> QED
    BY <1>2, <1>3, <2>1, UsersPass
<1>9. CASE Users!handleCreateUser(r)
  <2>1. PICK n \in UserNames, admin \in BOOLEAN : Users!Insert(n, admin, FALSE)
    BY <1>9 DEF Users!handleCreateUser
  <2> DEFINE row == [id |-> v6, name |-> n, admin |-> admin, setup |-> FALSE]
  <2>2. v8[r].pc = "claims" /\ v8' = [v8 EXCEPT ![r] = go("done")] /\ UNCHANGED <<v2, v3, v5, v7>> /\ v4' = v4 \cup {row} /\ v6' = v6 + 1
    BY <1>9, <2>1 DEF Users!handleCreateUser, Users!At, Users!Goto, Users!Insert, go
  <2>3. row \in [id : Nat, name : UserNames, admin : BOOLEAN, setup : BOOLEAN] /\ ~ row.setup
    BY <1>2
  <2> HIDE DEF row
  <2>4. v4' \subseteq [id : Nat, name : UserNames, admin : BOOLEAN, setup : BOOLEAN] /\ \A u \in v4' : u.setup => u \in v4
    BY <1>2, <2>2, <2>3
  <2>5. v5' \subseteq Nat /\ v6' \in Nat
    BY <1>2, <2>2
  <2> QED
    BY <1>2, <1>3, <2>2, <2>4, <2>5, UsersPass
<1>10. CASE Users!handleDeleteUser(r)
  <2>1. v8[r].pc = "claims" /\ v8' = [v8 EXCEPT ![r] = go("done")] /\ UNCHANGED <<v2, v3, v6, v7>> /\ v4' \subseteq v4 /\ v5' \subseteq v5
    BY <1>10 DEF Users!handleDeleteUser, Users!At, Users!Goto, go
  <2> QED
    BY <1>2, <1>3, <2>1, UsersPass
<1> QED
  BY <1>4, <1>5, <1>6, <1>7, <1>8, <1>9, <1>10

\* A step that touches neither the throttle nor the requests nor the accounts.
LEMMA UsersRest ==
  ASSUME Users!UsersInv, UNCHANGED <<v2, v3, v4, v6, v7, v8>>, v5' \subseteq v5
  PROVE  Users!UsersInv'
<1>1. Users!SlotsAreReturned'
  BY SlotsStay DEF Users!UsersInv, Users!UnderWay
<1>2. Users!Shapes'
  BY DEF Users!UsersInv, Users!Shapes, Users!NoOne, Users!Request
<1>3. Users!FirstIsLocked'
  BY DEF Users!UsersInv, Users!FirstIsLocked, Users!At
<1> QED
  BY <1>1, <1>2, <1>3 DEF Users!UsersInv

\* Every step of it.
LEMMA UsersStep == ASSUME Users!UsersInv, Users!Next PROVE Users!UsersInv'
<1>1. CASE Users!Tick \/ Users!PruneExpiredAuthTokens
  BY <1>1, UsersRest DEF Users!Tick, Users!PruneExpiredAuthTokens
<1> QED
  BY <1>1, UsersAdmit, UsersSetUp, UsersServe DEF Users!Next

\* What the run checks follows.
LEMMA UsersKeepCount == ASSUME Users!UsersInv PROVE Users!SlotsAreReturned /\ Users!OneFirstAdmin
<1> DEFINE first == {u \in v4 : u.setup}
<1>1. first = {} \/ \E u \in first : first = {u}
  BY DEF Users!UsersInv, Users!FirstIsLocked
<1>2. Cardinality(first) <= 1
  <2> HIDE DEF first
  <2>1. CASE first = {}
    BY <2>1, FS_EmptySet
  <2>2. ASSUME NEW u, first = {u} PROVE Cardinality(first) <= 1
    <3>1. Cardinality({u}) = 1
      BY FS_Singleton
    <3> QED
      BY <2>2, <3>1
  <2> QED
    BY <1>1, <2>1, <2>2
<1> QED
  BY <1>2, UsersCount DEF Users!UsersInv, Users!OneFirstAdmin

\* ... and so does a step that leaves them all alone.
LEMMA UsersStay == ASSUME Users!UsersInv, UNCHANGED <<v2, v3, v4, v5, v6, v7, v8>> PROVE Users!UsersInv'
BY UsersRest

-----------------------------------------------------------------------------
(* Subtitles: the budget is kept *)

\* The instance counts as this module does.
LEMMA SubsCount == \A S : Subs!Cardinality(S) = Cardinality(S)
BY DEF Subs!Cardinality, Cardinality

\* What is assumed of a set-up holds of the one there is.
SearchSized == IsFiniteSet(Subs!Workers) /\ Subs!Names \in Seq(STRING) /\ SubtitleBudget \in Nat \ {0} /\ SubtitleItem \in Nat

LEMMA SetupIsSized == ASSUME v11 \in SubtitleSetups PROVE SearchSized
BY SubtitlesAssumption DEF SearchSized, Subs!Workers, Subs!Names

\* The set-up stays, and so do its workers and providers.
LEMMA SetupStays == ASSUME v11' = v11 PROVE Subs!Workers' = Subs!Workers /\ Subs!Providers' = Subs!Providers
BY DEF Subs!Workers, Subs!Names, Subs!Providers

\* Workers are finitely many, with one more and one less.
LEMMA SearchersAreFinite ==
  ASSUME SearchSized, NEW S \in SUBSET Subs!Workers
  PROVE  /\ Subs!Cardinality(S) \in Nat /\ Subs!Cardinality(S) <= Subs!Cardinality(Subs!Workers)
         /\ S # Subs!Workers => Subs!Cardinality(S) < Subs!Cardinality(Subs!Workers)
         /\ \A w \in Subs!Workers \ S : Subs!Cardinality(S \cup {w}) = Subs!Cardinality(S) + 1
         /\ \A w \in S : Subs!Cardinality(S \ {w}) = Subs!Cardinality(S) - 1
<1>1. IsFiniteSet(S) /\ IsFiniteSet(Subs!Workers)
  BY FS_Subset DEF SearchSized
<1>2. Subs!Cardinality(S) \in Nat /\ Subs!Cardinality(Subs!Workers) \in Nat
  BY <1>1, SubsCount, FS_CardinalityType
<1>3. Subs!Cardinality(S) <= Subs!Cardinality(Subs!Workers) /\ (S # Subs!Workers => Subs!Cardinality(S) < Subs!Cardinality(Subs!Workers))
  <2>1. Subs!Cardinality(S) <= Subs!Cardinality(Subs!Workers) /\ (Subs!Cardinality(Subs!Workers) = Subs!Cardinality(S) => Subs!Workers = S)
    BY <1>1, SubsCount, FS_Subset
  <2> QED
    BY <1>2, <2>1
<1>4. \A w \in Subs!Workers \ S : Subs!Cardinality(S \cup {w}) = Subs!Cardinality(S) + 1
  BY <1>1, SubsCount, FS_AddElement
<1>5. \A w \in S : Subs!Cardinality(S \ {w}) = Subs!Cardinality(S) - 1
  BY <1>1, SubsCount, FS_RemoveElement
<1> QED
  BY <1>2, <1>3, <1>4, <1>5

\* Nothing was asked, and nothing counted.
LEMMA SearchBegins == ASSUME Subs!Init PROVE Subs!SearchInv
<1>0. v11 \in SubtitleSetups /\ SearchSized
  BY SetupIsSized DEF Subs!Init
<1>1. Subs!Shapes
  <2> DEFINE x == Subs!Idle
  <2>1. {"pc", "todo"} \subseteq DOMAIN x /\ x.todo = <<>> /\ x.pc = "idle"
    BY DEF Subs!Idle
  <2>2. v10 = [w \in Subs!Workers |-> x] /\ v1 = 1 /\ v9 = 0
    BY DEF Subs!Init
  <2> HIDE DEF x
  <2>3. v2 \in [Subs!Providers -> [day : Nat, count : Nat]] /\ v3 \in [Subs!Providers -> Nat]
    BY DEF Subs!Init, Subs!NoUsage
  <2>4. v10 \in [Subs!Workers -> {x}] /\ \A w \in Subs!Workers : v10[w] = x
    BY <2>2
  <2>5. \A w \in Subs!Workers : {"pc", "todo"} \subseteq DOMAIN v10[w] /\ v10[w].todo = <<>> /\ v10[w].pc = "idle"
    BY <2>1, <2>4
  <2>6. <<>> \in Seq(Subs!Providers) /\ v1 \in Nat /\ v9 \in Nat
    BY <2>2
  <2>7. \E S : v10 \in [Subs!Workers -> S]
    BY <2>4
  <2> QED
    BY <1>0, <2>3, <2>5, <2>6, <2>7 DEF Subs!Shapes, Subs!Calling
<1>2. ASSUME NEW p \in Subs!Providers PROVE Subs!CountIsTrue(p)
  <2>1. Subs!Uncounted(p) = {} /\ Subs!Through(p) = {}
    BY DEF Subs!Init, Subs!Uncounted, Subs!Through, Subs!At, Subs!Idle
  <2>2. Subs!Counts(p) = 0 /\ v2[p].day <= v1 /\ v3[p] = 0
    BY DEF Subs!Init, Subs!NoUsage, Subs!Counts
  <2>3. Subs!Cardinality({}) = 0 /\ Subs!Cardinality(Subs!Workers) \in Nat
    BY <1>0, SubsCount, FS_EmptySet, FS_CardinalityType DEF SearchSized
  <2> QED
    BY <1>0, <2>1, <2>2, <2>3 DEF SearchSized, Subs!CountIsTrue
<1> QED
  BY <1>1, <1>2 DEF Subs!SearchInv

\* One worker goes on.  What it does must leave every provider's count true.
LEMMA SearcherMoves ==
  ASSUME Subs!Shapes, v11' = v11, NEW w \in Subs!Workers, NEW x, v10' = [v10 EXCEPT ![w] = x],
         {"pc", "todo"} \subseteq DOMAIN x, x.todo \in Seq(Subs!Providers),
         x.pc \in {"call", "record", "store"} => x.todo # <<>>,
         v1' \in Nat, v9' \in Nat, v2' \in [Subs!Providers -> [day : Nat, count : Nat]], v3' \in [Subs!Providers -> Nat]
  PROVE  Subs!Shapes' /\ v10'[w] = x /\ \A v \in Subs!Workers \ {w} : v10'[v] = v10[v]
<1>1. PICK S : v10 \in [Subs!Workers -> S]
  BY DEF Subs!Shapes
<1>2. v10' \in [Subs!Workers -> S \cup {x}] /\ v10'[w] = x /\ \A v \in Subs!Workers \ {w} : v10'[v] = v10[v]
  BY <1>1
<1> QED
  BY <1>2, SetupStays DEF Subs!Shapes, Subs!Calling

\* A step in which nobody comes to a provider or leaves one, and nothing is counted.
LEMMA SearchCountStays ==
  ASSUME Subs!SearchInv, Subs!Shapes', v11' = v11, NEW w \in Subs!Workers, \A v \in Subs!Workers \ {w} : v10'[v] = v10[v],
         v10[w].pc \notin {"call", "record"}, v10'[w].pc \notin {"call", "record"},
         UNCHANGED <<v1, v2, v3>>, v9' = 0 => v9 = 0
  PROVE  Subs!SearchInv'
<1>1. \A p : Subs!Uncounted(p)' = Subs!Uncounted(p) /\ Subs!Through(p)' = Subs!Through(p) /\ Subs!Counts(p)' = Subs!Counts(p)
  BY SetupStays DEF Subs!Uncounted, Subs!Through, Subs!Counts, Subs!At
<1> QED
  BY <1>1, SetupStays DEF Subs!SearchInv, Subs!CountIsTrue
\* ... and a worker away from the providers that stays away.
LEMMA SearcherStaysAway ==
  ASSUME Subs!SearchInv, v11' = v11, NEW w \in Subs!Workers, v10[w].pc \notin {"call", "record"},
         \E x : /\ v10' = [v10 EXCEPT ![w] = x]
                /\ {"pc", "todo"} \subseteq DOMAIN x /\ x.todo \in Seq(Subs!Providers) /\ x.pc \notin {"call", "record", "store"},
         UNCHANGED <<v1, v2, v3>>, v9' \in {v9, v9 + 1}
  PROVE  Subs!SearchInv'
<1>1. PICK x : /\ v10' = [v10 EXCEPT ![w] = x]
               /\ {"pc", "todo"} \subseteq DOMAIN x /\ x.todo \in Seq(Subs!Providers) /\ x.pc \notin {"call", "record", "store"}
  OBVIOUS
<1>2. Subs!Shapes /\ v9 \in Nat
  BY DEF Subs!SearchInv, Subs!Shapes
<1>3. Subs!Shapes' /\ v10'[w] = x /\ \A v \in Subs!Workers \ {w} : v10'[v] = v10[v]
  <2>1. /\ v1' \in Nat /\ v9' \in Nat /\ v2' \in [Subs!Providers -> [day : Nat, count : Nat]]
        /\ v3' \in [Subs!Providers -> Nat]
    BY <1>2 DEF Subs!Shapes
  <2> QED
    BY <1>1, <1>2, <2>1, SearcherMoves
<1>4. v9' = 0 => v9 = 0
  BY <1>2
<1> QED
  BY <1>1, <1>3, <1>4, SearchCountStays

\* A search asks whom it may.
LEMMA SearchAsks == ASSUME SearchSized, Subs!SearchInv, v11' = v11, NEW w \in Subs!Workers, Subs!Ask(w) PROVE Subs!SearchInv'
<1>1. Subs!Shapes /\ {"pc", "todo"} \subseteq DOMAIN v10[w] /\ v10[w].todo \in Seq(Subs!Providers)
  BY DEF Subs!SearchInv, Subs!Shapes
<1>2. v10[w].pc = "ask" /\ UNCHANGED <<v1, v2, v3, v9>>
  BY DEF Subs!Ask, Subs!At
<1>3. CASE v10[w].langs = {} \/ v10[w].todo = <<>>
  <2> DEFINE x == [v10[w] EXCEPT !.pc = "list"]
  <2>1. v10' = [v10 EXCEPT ![w] = x] /\ {"pc", "todo"} \subseteq DOMAIN x /\ x.todo = v10[w].todo /\ x.pc = "list"
    BY <1>1, <1>3 DEF Subs!Ask
  <2> HIDE DEF x
  <2> QED
    BY <1>1, <1>2, <2>1, SearcherStaysAway
<1>4. CASE v10[w].todo # <<>> /\ v10' = [v10 EXCEPT ![w].todo = Tail(@)]
  <2> DEFINE x == [v10[w] EXCEPT !.todo = Tail(@)]
  <2>1. v10' = [v10 EXCEPT ![w] = x] /\ {"pc", "todo"} \subseteq DOMAIN x /\ x.todo = Tail(v10[w].todo) /\ x.pc = "ask"
    BY <1>1, <1>2, <1>4
  <2>2. x.todo \in Seq(Subs!Providers)
    BY <1>1, <1>4, <2>1
  <2> HIDE DEF x
  <2> QED
    BY <1>2, <2>1, <2>2, SearcherStaysAway
<1>5. CASE v10[w].todo # <<>> /\ Subs!allowProviderCall(Head(v10[w].todo)) /\ v10' = [v10 EXCEPT ![w].pc = "call"]
  <2> DEFINE x == [v10[w] EXCEPT !.pc = "call"]
  <2>0. PICK p \in Subs!Providers : p = Head(v10[w].todo)
    BY <1>1, <1>5
  <2>1. v10' = [v10 EXCEPT ![w] = x] /\ {"pc", "todo"} \subseteq DOMAIN x /\ x.todo = v10[w].todo /\ x.pc = "call"
    BY <1>1, <1>5
  <2>2. p \in Subs!Providers /\ Subs!allowProviderCall(p)
    BY <1>1, <1>5, <2>0
  <2> HIDE DEF x
  <2>3. Subs!Shapes' /\ v10'[w] = x /\ \A v \in Subs!Workers \ {w} : v10'[v] = v10[v]
    BY <1>1, <1>2, <1>5, <2>1, SearcherMoves DEF Subs!Shapes
  <2>4. \A q : Subs!Uncounted(q)' = Subs!Uncounted(q) /\ Subs!Counts(q)' = Subs!Counts(q)
    BY <1>2, <2>1, <2>3, SetupStays DEF Subs!Uncounted, Subs!Counts, Subs!At
  <2>5. \A q : q # p => Subs!Through(q)' = Subs!Through(q)
    BY <1>2, <2>0, <2>1, <2>3, SetupStays DEF Subs!Through
  <2>6. Subs!Through(p)' = Subs!Through(p) \cup {w} /\ w \notin Subs!Through(p) /\ Subs!Through(p) \subseteq Subs!Workers
    BY <1>2, <2>0, <2>1, <2>3, SetupStays DEF Subs!Through
  <2>7. ASSUME v9 = 0 PROVE Subs!CountIsTrue(p)'
    <3>1. Subs!CountIsTrue(p)
      BY <2>2, <2>7 DEF Subs!SearchInv
    <3>2. Subs!Counts(p) \in Nat /\ Subs!Counts(p) < SubtitleBudget
      BY <1>1, <2>2 DEF SearchSized, Subs!Shapes, Subs!Counts, Subs!allowProviderCall
    <3>3. Subs!Cardinality(Subs!Through(p)) < Subs!Cardinality(Subs!Workers) /\ Subs!Cardinality(Subs!Through(p)) \in Nat /\ Subs!Cardinality(Subs!Workers) \in Nat
          /\ Subs!Cardinality(Subs!Through(p)') = Subs!Cardinality(Subs!Through(p)) + 1
      BY <2>6, SearchersAreFinite
    <3>4. Subs!Counts(p)' + Subs!Cardinality(Subs!Through(p)') < SubtitleBudget + Subs!Cardinality(Subs!Workers)
      BY <2>4, <3>2, <3>3 DEF SearchSized
    <3> QED
      BY <1>2, <2>4, <3>1, <3>4, SetupStays DEF Subs!CountIsTrue
  <2>8. ASSUME v9 = 0, NEW q \in Subs!Providers, q # p PROVE Subs!CountIsTrue(q)'
    BY <1>2, <2>4, <2>5, <2>8, SetupStays DEF Subs!SearchInv, Subs!CountIsTrue
  <2>9. Subs!Providers' = Subs!Providers
    BY SetupStays
  <2> QED
    BY <1>2, <2>3, <2>7, <2>8, <2>9 DEF Subs!SearchInv
<1> QED
  BY <1>3, <1>4, <1>5 DEF Subs!Ask

\* A call to a provider is one more that is not counted yet.
LEMMA SearchCalls == ASSUME SearchSized, Subs!SearchInv, v11' = v11, NEW w \in Subs!Workers, Subs!ProviderSearch(w) PROVE Subs!SearchInv'
<1>1. Subs!Shapes /\ {"pc", "todo"} \subseteq DOMAIN v10[w] /\ v10[w].todo \in Seq(Subs!Providers) /\ v10[w].pc = "call"
      /\ UNCHANGED <<v1, v2, v9>>
  BY DEF Subs!SearchInv, Subs!Shapes, Subs!ProviderSearch, Subs!At
<1>2. v10[w].todo # <<>>
  BY <1>1 DEF Subs!Shapes, Subs!Calling
<1>3. PICK p \in Subs!Providers : p = Head(v10[w].todo)
  BY <1>1, <1>2
<1>4. PICK answer : v10' = [v10 EXCEPT ![w].pc = "record", ![w].answer = answer]
  BY DEF Subs!ProviderSearch
<1> DEFINE x == [v10[w] EXCEPT !.pc = "record", !.answer = answer]
<1>5. v10' = [v10 EXCEPT ![w] = x] /\ {"pc", "todo"} \subseteq DOMAIN x /\ x.todo = v10[w].todo /\ x.pc = "record"
  BY <1>1, <1>4
<1> HIDE DEF x
<1>6. v3' = [v3 EXCEPT ![p] = v3[p] + 1] /\ v3 \in [Subs!Providers -> Nat]
  BY <1>1, <1>3 DEF Subs!ProviderSearch, Subs!Shapes
<1>7. Subs!Shapes' /\ v10'[w] = x /\ \A v \in Subs!Workers \ {w} : v10'[v] = v10[v]
  <2>1. /\ v1' \in Nat /\ v9' \in Nat /\ v2' \in [Subs!Providers -> [day : Nat, count : Nat]]
        /\ v3' \in [Subs!Providers -> Nat]
    BY <1>1, <1>6 DEF Subs!Shapes
  <2> QED
    BY <1>1, <1>2, <1>5, <2>1, SearcherMoves
<1>8. \A q : Subs!Through(q)' = Subs!Through(q) /\ Subs!Counts(q)' = Subs!Counts(q)
  BY <1>1, <1>5, <1>7, SetupStays DEF Subs!Through, Subs!Counts
<1>9. \A q : q # p => Subs!Uncounted(q)' = Subs!Uncounted(q)
  BY <1>1, <1>3, <1>5, <1>7, SetupStays DEF Subs!Uncounted, Subs!At
<1>10. Subs!Uncounted(p)' = Subs!Uncounted(p) \cup {w} /\ w \notin Subs!Uncounted(p) /\ Subs!Uncounted(p) \subseteq Subs!Workers
  BY <1>1, <1>3, <1>5, <1>7, SetupStays DEF Subs!Uncounted, Subs!At
<1>11. ASSUME v9 = 0, NEW q \in Subs!Providers PROVE Subs!CountIsTrue(q)'
  <2>1. Subs!CountIsTrue(q)
    BY <1>11 DEF Subs!SearchInv
  <2>2. v2'[q].day <= v1' /\ Subs!Counts(q)' + Subs!Cardinality(Subs!Through(q)') < SubtitleBudget + Subs!Cardinality(Subs!Workers)
    BY <1>1, <1>8, <2>1 DEF Subs!CountIsTrue
  <2>3. Subs!Counts(q) \in Nat /\ v3[q] \in Nat
    BY <1>1 DEF Subs!Shapes, Subs!Counts
  <2>4. v3'[q] <= Subs!Counts(q)' + Subs!Cardinality(Subs!Uncounted(q)')
    <3>1. CASE q = p
      <4>1. Subs!Cardinality(Subs!Uncounted(p)') = Subs!Cardinality(Subs!Uncounted(p)) + 1 /\ Subs!Cardinality(Subs!Uncounted(p)) \in Nat
        BY <1>10, SearchersAreFinite
      <4> QED
        BY <1>6, <1>8, <2>1, <2>3, <3>1, <4>1 DEF Subs!CountIsTrue
    <3>2. CASE q # p
      BY <1>6, <1>8, <1>9, <2>1, <3>2 DEF Subs!CountIsTrue
    <3> QED
      BY <3>1, <3>2
  <2> QED
    BY <2>2, <2>4, SetupStays DEF Subs!CountIsTrue
<1>12. Subs!Providers' = Subs!Providers
  BY SetupStays
<1> QED
  BY <1>1, <1>7, <1>11, <1>12 DEF Subs!SearchInv

\* A failed call counts as well.
LEMMA SearchCounts == ASSUME SearchSized, Subs!SearchInv, v11' = v11, NEW w \in Subs!Workers, Subs!recordProviderCall(w) PROVE Subs!SearchInv'
<1>1. Subs!Shapes /\ {"pc", "todo"} \subseteq DOMAIN v10[w] /\ v10[w].todo \in Seq(Subs!Providers) /\ v10[w].pc = "record"
      /\ UNCHANGED <<v1, v3>>
  BY DEF Subs!SearchInv, Subs!Shapes, Subs!recordProviderCall, Subs!At
<1>2. v10[w].todo # <<>>
  BY <1>1 DEF Subs!Shapes, Subs!Calling
<1>3. PICK p \in Subs!Providers : p = Head(v10[w].todo)
  BY <1>1, <1>2
<1>4. PICK x : v10' = [v10 EXCEPT ![w] = x] /\ {"pc", "todo"} \subseteq DOMAIN x /\ x.todo \in Seq(Subs!Providers)
               /\ (x.pc = "ask" \/ (x.pc = "store" /\ x.todo = v10[w].todo))
  <2>1. CASE Subs!Failed(w)
    <3> DEFINE x == [v10[w] EXCEPT !.pc = "ask", !.todo = Tail(@)]
    <3>1. v10' = [v10 EXCEPT ![w] = x]
      BY <2>1 DEF Subs!recordProviderCall
    <3>2. {"pc", "todo"} \subseteq DOMAIN x /\ x.todo = Tail(v10[w].todo) /\ x.pc = "ask"
      BY <1>1
    <3>3. x.todo \in Seq(Subs!Providers)
      BY <1>1, <1>2, <3>2
    <3> HIDE DEF x
    <3> QED
      BY <3>1, <3>2, <3>3
  <2>2. CASE ~ Subs!Failed(w)
    <3> DEFINE x == [v10[w] EXCEPT !.pc = "store"]
    <3>1. v10' = [v10 EXCEPT ![w] = x]
      BY <2>2 DEF Subs!recordProviderCall
    <3>2. {"pc", "todo"} \subseteq DOMAIN x /\ x.todo = v10[w].todo /\ x.pc = "store"
      BY <1>1
    <3> HIDE DEF x
    <3> QED
      BY <1>1, <3>1, <3>2
  <2> QED
    BY <2>1, <2>2
<1>5. v2 \in [Subs!Providers -> [day : Nat, count : Nat]] /\ Subs!NoUsage \in [Subs!Providers -> [day : Nat, count : Nat]] /\ v1 \in Nat
      /\ v9 \in Nat
  BY <1>1 DEF Subs!Shapes, Subs!NoUsage
<1>6. \/ v2' = Subs!Counted(v2, p) /\ v9' = v9
      \/ v2' \in {v2, Subs!Counted(Subs!NoUsage, p)} /\ v9' = v9 + 1
  BY <1>3 DEF Subs!recordProviderCall, Subs!Fault
<1>7. ASSUME NEW use \in [Subs!Providers -> [day : Nat, count : Nat]]
      PROVE  /\ Subs!Counted(use, p) \in [Subs!Providers -> [day : Nat, count : Nat]]
             /\ Subs!Counted(use, p)[p].day = v1
             /\ Subs!Counted(use, p)[p].count = 1 + IF use[p].day = v1 THEN use[p].count ELSE 0
             /\ \A q \in Subs!Providers \ {p} : Subs!Counted(use, p)[q] = use[q]
  <2> DEFINE row == [day |-> v1, count |-> 1 + IF use[p].day = v1 THEN use[p].count ELSE 0]
  <2>1. Subs!Counted(use, p) = [use EXCEPT ![p] = row]
    BY DEF Subs!Counted
  <2>2. row \in [day : Nat, count : Nat] /\ row.day = v1
        /\ row.count = 1 + IF use[p].day = v1 THEN use[p].count ELSE 0
    <3>1. use[p].count \in Nat
      OBVIOUS
    <3> QED
      BY <1>5, <3>1
  <2> HIDE DEF row
  <2> QED
    BY <2>1, <2>2
<1>8. v2' \in [Subs!Providers -> [day : Nat, count : Nat]] /\ v9' \in Nat
  BY <1>5, <1>6, <1>7
<1>9. Subs!Shapes' /\ v10'[w] = x /\ \A v \in Subs!Workers \ {w} : v10'[v] = v10[v]
  BY <1>1, <1>2, <1>4, <1>8, SearcherMoves DEF Subs!Shapes
<1>10. \A q : q # p => Subs!Through(q)' = Subs!Through(q) /\ Subs!Uncounted(q)' = Subs!Uncounted(q)
  BY <1>1, <1>3, <1>4, <1>9, SetupStays DEF Subs!Through, Subs!Uncounted, Subs!At
<1>11. /\ Subs!Uncounted(p)' = Subs!Uncounted(p) \ {w} /\ w \in Subs!Uncounted(p) /\ Subs!Uncounted(p) \subseteq Subs!Workers
       /\ Subs!Through(p)' = Subs!Through(p) \ {w} /\ w \in Subs!Through(p) /\ Subs!Through(p) \subseteq Subs!Workers
  BY <1>1, <1>3, <1>4, <1>9, SetupStays DEF Subs!Through, Subs!Uncounted, Subs!At
<1>12. ASSUME v9' = 0, NEW q \in Subs!Providers PROVE Subs!CountIsTrue(q)'
  <2>1. v9 = 0 /\ v2' = Subs!Counted(v2, p)
    BY <1>5, <1>6, <1>12
  <2>2. Subs!CountIsTrue(q) /\ Subs!Counts(q) \in Nat /\ v3[q] \in Nat
    BY <1>1, <1>5, <2>1 DEF Subs!SearchInv, Subs!Counts, Subs!Shapes
  <2>3. CASE q = p
    <3>1. v2'[p].day = v1' /\ Subs!Counts(p)' = Subs!Counts(p) + 1
      <4>1. v2'[p].day = v1 /\ v1' = v1 /\ v2'[p].count = 1 + IF v2[p].day = v1 THEN v2[p].count ELSE 0
        BY <1>1, <1>5, <1>7, <2>1
      <4>2. Subs!Counts(p)' = v2'[p].count
        BY <4>1 DEF Subs!Counts
      <4> QED
        BY <2>2, <2>3, <4>1, <4>2 DEF Subs!Counts
    <3>2. /\ Subs!Cardinality(Subs!Uncounted(p)') = Subs!Cardinality(Subs!Uncounted(p)) - 1 /\ Subs!Cardinality(Subs!Uncounted(p)) \in Nat
          /\ Subs!Cardinality(Subs!Through(p)') = Subs!Cardinality(Subs!Through(p)) - 1 /\ Subs!Cardinality(Subs!Through(p)) \in Nat
          /\ Subs!Cardinality(Subs!Workers) \in Nat
      BY <1>11, SearchersAreFinite
    <3>3. v3'[p] = v3[p] /\ v3[p] \in Nat /\ v3[p] <= Subs!Counts(p) + Subs!Cardinality(Subs!Uncounted(p))
          /\ Subs!Counts(p) + Subs!Cardinality(Subs!Through(p)) < SubtitleBudget + Subs!Cardinality(Subs!Workers) /\ Subs!Counts(p) \in Nat
      BY <1>1, <2>2, <2>3 DEF Subs!CountIsTrue
    <3>4. v3'[p] <= Subs!Counts(p)' + Subs!Cardinality(Subs!Uncounted(p)')
      BY <3>1, <3>2, <3>3
    <3>5. Subs!Counts(p)' + Subs!Cardinality(Subs!Through(p)') < SubtitleBudget + Subs!Cardinality(Subs!Workers)
      BY <3>1, <3>2, <3>3 DEF SearchSized
    <3>6. v2'[p].day <= v1'
      BY <1>1, <1>5, <3>1
    <3> QED
      BY <2>3, <3>4, <3>5, <3>6, SetupStays DEF Subs!CountIsTrue
  <2>4. CASE q # p
    <3>1. Subs!Counts(q)' = Subs!Counts(q) /\ v2'[q].day = v2[q].day
      BY <1>1, <1>5, <1>7, <2>1, <2>4 DEF Subs!Counts
    <3> QED
      BY <1>1, <1>10, <2>2, <2>4, <3>1, SetupStays DEF Subs!CountIsTrue
  <2> QED
    BY <2>3, <2>4
<1>13. Subs!Providers' = Subs!Providers
  BY SetupStays
<1> QED
  BY <1>9, <1>12, <1>13 DEF Subs!SearchInv

\* Every other step of a worker is away from the providers.
LEMMA SearchGoesOn ==
  ASSUME Subs!SearchInv, v11' = v11, NEW w \in Subs!Workers,
         \/ Subs!SearchCandidates(w) \/ Subs!ReplaceSubtitleCandidates(w)
         \/ Subs!ListSubtitleCandidates(w) \/ Subs!DownloadCandidate(w) \/ Subs!NothingLeft(w) \/ Subs!UploadSubtitle(w)
         \/ Subs!publishSubtitleBody(w) \/ Subs!ReplaceSubtitleFiles(w)
         \/ Subs!DeleteSubtitle(w) \/ Subs!Unlink(w) \/ Subs!RepublishStoredSubtitles(w) \/ Subs!Move(w),
         Subs!assignedProviderOrder(Subs!Names, SubtitleItem) \in Seq(Subs!Providers)
  PROVE  Subs!SearchInv'
<1>1. Subs!Shapes /\ {"pc", "todo"} \subseteq DOMAIN v10[w] /\ v10[w].todo \in Seq(Subs!Providers)
  BY DEF Subs!SearchInv, Subs!Shapes
<1> DEFINE Away(x) == {"pc", "todo"} \subseteq DOMAIN x /\ x.todo \in Seq(Subs!Providers) /\ x.pc \notin {"call", "record", "store"}
           Goes == \E x : v10' = [v10 EXCEPT ![w] = x] /\ Away(x)
<1>2. ASSUME v10[w].pc \notin {"call", "record"}, Goes, UNCHANGED <<v1, v2, v3>>, v9' \in {v9, v9 + 1}
      PROVE  Subs!SearchInv'
  BY <1>2, SearcherStaysAway
<1>3. Away(Subs!Idle) /\ Away([Subs!Idle EXCEPT !.pc = "ask", !.langs = Subs!Missing, !.todo = Subs!assignedProviderOrder(Subs!Names, SubtitleItem)])
      /\ Away([Subs!Idle EXCEPT !.pc = "pick", !.langs = Subs!Missing, !.list = v4])
  BY DEF Subs!Idle
<1>4. ASSUME NEW pc \in {"list", "pick", "publish", "replace", "unlink", "move", "moved"}
      PROVE  /\ \A l : Away([v10[w] EXCEPT !.pc = pc, !.list = l]) /\ \A p : Away([v10[w] EXCEPT !.pc = pc, !.places = p])
             /\ \A l, k : Away([v10[w] EXCEPT !.pc = pc, !.list = l, !.key = k])
             /\ \A l, p : Away([v10[w] EXCEPT !.pc = pc, !.list = l, !.places = p])
             /\ \A l, p : Away([v10[w] EXCEPT !.pc = pc, !.langs = l, !.places = p])
             /\ \A k : Away([v10[w] EXCEPT !.pc = pc, !.key = k])
             /\ Away([v10[w] EXCEPT !.pc = pc])
  BY <1>1, <1>4
<1>5. ASSUME v10[w].pc \notin {"call", "record", "store"}, NEW l PROVE Away([v10[w] EXCEPT !.list = l])
  BY <1>1, <1>5
<1> DEFINE stored == [v10[w] EXCEPT !.pc = "ask", !.todo = Tail(@), !.langs = @ \ v10[w].answer, !.answer = {}]
<1>6. ASSUME v10[w].pc = "store" PROVE Away(stored)
  <2>1. v10[w].todo # <<>>
    BY <1>1, <1>6 DEF Subs!Shapes, Subs!Calling
  <2>2. Tail(v10[w].todo) \in Seq(Subs!Providers)
    BY <1>1, <2>1
  <2> QED
    BY <1>1, <2>2
<1> HIDE DEF Away, Goes, stored
<1>7. ASSUME NEW x, Away(x), v10' = [v10 EXCEPT ![w] = x] PROVE Goes
  BY <1>7 DEF Goes
<1>8. CASE Subs!SearchCandidates(w) \/ Subs!ListSubtitleCandidates(w) \/ Subs!NothingLeft(w)
  <2>1. Goes
    BY <1>3, <1>7, <1>8 DEF Subs!SearchCandidates, Subs!ListSubtitleCandidates, Subs!NothingLeft
  <2> QED
    BY <1>2, <1>8, <2>1 DEF Subs!SearchCandidates, Subs!ListSubtitleCandidates, Subs!NothingLeft, Subs!At
<1>9. CASE Subs!ReplaceSubtitleCandidates(w)
  <2>1. v10' = [v10 EXCEPT ![w] = stored]
    BY <1>9 DEF Subs!ReplaceSubtitleCandidates, stored
  <2>2. v10[w].pc = "store" /\ UNCHANGED <<v1, v2, v3, v9>>
    BY <1>9 DEF Subs!ReplaceSubtitleCandidates, Subs!At
  <2> QED
    BY <1>2, <1>6, <1>7, <2>1, <2>2
<1>10. CASE Subs!DownloadCandidate(w)
  <2>1. v10[w].pc = "pick" /\ UNCHANGED <<v1, v2, v3, v9>>
    BY <1>10 DEF Subs!DownloadCandidate, Subs!At
  <2>2. PICK c \in v10[w].list :
          \/ v10' = [v10 EXCEPT ![w].list = @ \ {c}]
          \/ v10' = [v10 EXCEPT ![w].pc = "publish", ![w].list = @ \ {c}, ![w].key = <<c.provider, c.language>>]
    BY <1>10 DEF Subs!DownloadCandidate
  <2>3. CASE v10' = [v10 EXCEPT ![w].list = @ \ {c}]
    <3>1. v10' = [v10 EXCEPT ![w] = [v10[w] EXCEPT !.list = v10[w].list \ {c}]]
      BY <2>3
    <3> QED
      BY <1>2, <1>5, <1>7, <2>1, <3>1
  <2>4. CASE v10' = [v10 EXCEPT ![w].pc = "publish", ![w].list = @ \ {c}, ![w].key = <<c.provider, c.language>>]
    <3>1. v10' = [v10 EXCEPT ![w] = [v10[w] EXCEPT !.pc = "publish", !.list = v10[w].list \ {c}, !.key = <<c.provider, c.language>>]]
      BY <2>4
    <3> QED
      BY <1>2, <1>4, <1>7, <2>1, <3>1
  <2> QED
    BY <2>2, <2>3, <2>4
<1>11. CASE Subs!UploadSubtitle(w)
  <2>1. v10[w].pc = "idle" /\ UNCHANGED <<v1, v2, v3, v9>>
    BY <1>11 DEF Subs!UploadSubtitle, Subs!At
  <2>2. PICK l \in SubtitleLanguages : v10' = [v10 EXCEPT ![w].pc = "publish", ![w].key = <<"manual", l>>]
    BY <1>11 DEF Subs!UploadSubtitle
  <2>3. v10' = [v10 EXCEPT ![w] = [v10[w] EXCEPT !.pc = "publish", !.key = <<"manual", l>>]]
    BY <2>2
  <2> QED
    BY <1>2, <1>4, <1>7, <2>1, <2>3
<1>12. CASE Subs!publishSubtitleBody(w)
  <2>1. v10[w].pc = "publish" /\ UNCHANGED <<v1, v2, v3, v9>>
    BY <1>12 DEF Subs!publishSubtitleBody, Subs!At
  <2>2. \/ v10' = [v10 EXCEPT ![w] = [v10[w] EXCEPT !.pc = "pick"]]
        \/ v10' = [v10 EXCEPT ![w] = [v10[w] EXCEPT !.pc = "replace", !.places = v7]]
    BY <1>12 DEF Subs!publishSubtitleBody
  <2> QED
    BY <1>2, <1>4, <1>7, <2>1, <2>2
<1>13. CASE Subs!ReplaceSubtitleFiles(w)
  <2>1. v10[w].pc \in {"replace", "moved"} /\ UNCHANGED <<v1, v2, v3>> /\ v9' \in {v9, v9 + 1}
    BY <1>13 DEF Subs!ReplaceSubtitleFiles, Subs!At, Subs!Fault
  <2>2. \/ v10' = [v10 EXCEPT ![w] = [v10[w] EXCEPT !.pc = "pick", !.langs = v10[w].langs \ {v10[w].key[2]}, !.places = {}]]
        \/ v10' = [v10 EXCEPT ![w] = [v10[w] EXCEPT !.pc = "move"]]
        \/ v10' = [v10 EXCEPT ![w] = [v10[w] EXCEPT !.pc = "pick", !.places = {}]]
        \/ v10' = [v10 EXCEPT ![w] = Subs!Idle]
    BY <1>13 DEF Subs!ReplaceSubtitleFiles
  <2>3. /\ Away([v10[w] EXCEPT !.pc = "pick", !.langs = v10[w].langs \ {v10[w].key[2]}, !.places = {}])
        /\ Away([v10[w] EXCEPT !.pc = "move"]) /\ Away([v10[w] EXCEPT !.pc = "pick", !.places = {}])
    BY <1>4
  <2>4. Goes
    BY <1>3, <1>7, <2>2, <2>3
  <2> QED
    BY <1>2, <2>1, <2>4
<1>14. CASE Subs!DeleteSubtitle(w)
  <2>1. v10[w].pc = "idle" /\ UNCHANGED <<v1, v2, v3, v9>>
    BY <1>14 DEF Subs!DeleteSubtitle, Subs!At
  <2>2. PICK r \in v5 : v10' = [v10 EXCEPT ![w] = [v10[w] EXCEPT !.pc = "unlink", !.list = Subs!GroupOf(v5, r)]]
    BY <1>14 DEF Subs!DeleteSubtitle
  <2> QED
    BY <1>2, <1>4, <1>7, <2>1, <2>2
<1>15. CASE Subs!Unlink(w)
  BY <1>2, <1>3, <1>7, <1>15 DEF Subs!Unlink, Subs!At
<1>16. CASE Subs!RepublishStoredSubtitles(w)
  <2>1. v10[w].pc = "idle" /\ UNCHANGED <<v1, v2, v3, v9>>
    BY <1>16 DEF Subs!RepublishStoredSubtitles, Subs!At
  <2>2. v10' = [v10 EXCEPT ![w] = [v10[w] EXCEPT !.pc = "move", !.list = v5, !.places = v7]]
    BY <1>16 DEF Subs!RepublishStoredSubtitles
  <2> QED
    BY <1>2, <1>4, <1>7, <2>1, <2>2
<1>17. CASE Subs!Move(w)
  <2>1. v10[w].pc = "move" /\ UNCHANGED <<v1, v2, v3, v9>>
    BY <1>17 DEF Subs!Move, Subs!At
  <2>2. \/ v10' = [v10 EXCEPT ![w] = Subs!Idle]
        \/ \E group : v10' = [v10 EXCEPT ![w] = [v10[w] EXCEPT !.list = v10[w].list \ group]]
        \/ \E group, key : v10' = [v10 EXCEPT ![w] = [v10[w] EXCEPT !.pc = "moved", !.list = v10[w].list \ group, !.key = key]]
    <3>1. CASE v10[w].list = {}
      BY <1>17, <3>1 DEF Subs!Move
    <3>2. CASE v10[w].list # {}
      <4>1. PICK r \in v10[w].list :
              LET group == Subs!GroupOf(v10[w].list, <<r[1], r[2]>>)
              IN \/ v10' = [v10 EXCEPT ![w].list = @ \ group]
                 \/ v10' = [v10 EXCEPT ![w].pc = "moved", ![w].list = @ \ group, ![w].key = <<r[1], r[2]>>]
        BY <1>17, <3>2 DEF Subs!Move
      <4> DEFINE group == Subs!GroupOf(v10[w].list, <<r[1], r[2]>>)
                 key == <<r[1], r[2]>>
      <4>2. \/ v10' = [v10 EXCEPT ![w] = [v10[w] EXCEPT !.list = v10[w].list \ group]]
            \/ v10' = [v10 EXCEPT ![w] = [v10[w] EXCEPT !.pc = "moved", !.list = v10[w].list \ group, !.key = key]]
        BY <4>1
      <4> HIDE DEF group, key
      <4> QED
        BY <4>2
    <3> QED
      BY <3>1, <3>2
  <2>3. ASSUME NEW group, v10' = [v10 EXCEPT ![w] = [v10[w] EXCEPT !.list = v10[w].list \ group]] PROVE Goes
    BY <1>5, <1>7, <2>1, <2>3
  <2>4. ASSUME NEW group, NEW key, v10' = [v10 EXCEPT ![w] = [v10[w] EXCEPT !.pc = "moved", !.list = v10[w].list \ group, !.key = key]]
        PROVE  Goes
    BY <1>4, <1>7, <2>4
  <2>5. Goes
    BY <1>3, <1>7, <2>2, <2>3, <2>4
  <2> QED
    BY <1>2, <2>1, <2>5
<1> QED
  BY <1>8, <1>9, <1>10, <1>11, <1>12, <1>13, <1>14, <1>15, <1>16, <1>17

\* Every provider has its turn in the order an item has.
LEMMA OrderIsOfProviders == ASSUME SearchSized PROVE Subs!assignedProviderOrder(Subs!Names, SubtitleItem) \in Seq(Subs!Providers)
<1>1. Len(Subs!Names) \in Nat /\ DOMAIN Subs!Names = 1 .. Len(Subs!Names)
  BY DEF SearchSized
<1>2. ASSUME NEW i \in 1 .. Len(Subs!Names) PROVE Subs!Names[((SubtitleItem + i - 1) % Len(Subs!Names)) + 1] \in Subs!Providers
  <2>1. (SubtitleItem + i - 1) % Len(Subs!Names) \in 0 .. Len(Subs!Names) - 1
    BY <1>1 DEF SearchSized
  <2>2. ((SubtitleItem + i - 1) % Len(Subs!Names)) + 1 \in DOMAIN Subs!Names
    BY <1>1, <2>1
  <2> QED
    BY <2>2 DEF Subs!Providers
<1> QED
  BY <1>1, <1>2 DEF Subs!assignedProviderOrder

\* At midnight every count begins again, for calls that are under way as well.
LEMMA SearchTomorrow == ASSUME SearchSized, Subs!SearchInv, v11' = v11, Subs!Tomorrow PROVE Subs!SearchInv'
<1>1. Subs!Shapes /\ UNCHANGED <<v2, v10, v9>> /\ v1' = v1 + 1 /\ v3' = [p \in Subs!Providers |-> 0]
  BY DEF Subs!SearchInv, Subs!Tomorrow
<1>2. Subs!Shapes'
  <2>1. /\ v1' \in Nat /\ v9' \in Nat /\ v2' \in [Subs!Providers -> [day : Nat, count : Nat]]
        /\ v3' \in [Subs!Providers -> Nat]
    BY <1>1 DEF Subs!Shapes
  <2>2. /\ \E S : v10' \in [Subs!Workers -> S]
        /\ \A w \in Subs!Workers : {"pc", "todo"} \subseteq DOMAIN v10'[w] /\ v10'[w].todo \in Seq(Subs!Providers)
        /\ \A w \in Subs!Calling' : v10'[w].todo # <<>>
    BY <1>1, SetupStays DEF Subs!Shapes, Subs!Calling
  <2> QED
    BY <1>1, <2>1, <2>2, SetupStays DEF Subs!Shapes
<1>3. ASSUME v9 = 0, NEW p \in Subs!Providers PROVE Subs!CountIsTrue(p)'
  <2>1. v2[p].day <= v1 /\ v2[p].day \in Nat /\ v1 \in Nat
    BY <1>1, <1>3 DEF Subs!SearchInv, Subs!CountIsTrue, Subs!Shapes
  <2>2. v2'[p].day < v1' /\ Subs!Counts(p)' = 0 /\ v3'[p] = 0
    BY <1>1, <2>1 DEF Subs!Counts
  <2>3. Subs!Uncounted(p)' = Subs!Uncounted(p) /\ Subs!Through(p)' = Subs!Through(p)
    BY <1>1, SetupStays DEF Subs!Uncounted, Subs!Through, Subs!At
  <2>4. Subs!Uncounted(p) \in SUBSET Subs!Workers /\ Subs!Through(p) \in SUBSET Subs!Workers
    BY DEF Subs!Uncounted, Subs!Through
  <2>5. /\ Subs!Cardinality(Subs!Uncounted(p)) \in Nat /\ Subs!Cardinality(Subs!Through(p)) \in Nat /\ Subs!Cardinality(Subs!Workers) \in Nat
        /\ Subs!Cardinality(Subs!Through(p)) <= Subs!Cardinality(Subs!Workers)
    BY <2>4, SubsCount, FS_CardinalityType, SearchersAreFinite DEF SearchSized
  <2> QED
    BY <1>1, <2>1, <2>2, <2>3, <2>5, SetupStays DEF Subs!CountIsTrue, SearchSized
<1>4. Subs!Providers' = Subs!Providers
  BY SetupStays
<1> QED
  BY <1>1, <1>2, <1>3, <1>4 DEF Subs!SearchInv

\* A step that leaves the searches alone.
LEMMA SearchStays == ASSUME Subs!SearchInv, UNCHANGED <<v1, v2, v3, v9, v10, v11>> PROVE Subs!SearchInv'
<1>1. \A p : Subs!Uncounted(p)' = Subs!Uncounted(p) /\ Subs!Through(p)' = Subs!Through(p) /\ Subs!Counts(p)' = Subs!Counts(p)
  BY SetupStays DEF Subs!Uncounted, Subs!Through, Subs!Counts, Subs!At
<1>2. Subs!Shapes'
  BY SetupStays DEF Subs!SearchInv, Subs!Shapes, Subs!Calling
<1> QED
  BY <1>1, <1>2, SetupStays DEF Subs!SearchInv, Subs!CountIsTrue

\* Every step.
LEMMA SearchSteps == ASSUME Subs!SearchInv, Subs!Next PROVE Subs!SearchInv'
<1>1. v11' = v11 /\ SearchSized
  BY SetupIsSized DEF Subs!Next, Subs!SearchInv, Subs!Shapes
<1>2. CASE Subs!Publish
  BY <1>1, <1>2, SearchStays DEF Subs!Publish
<1>3. CASE Subs!Tomorrow
  BY <1>1, <1>3, SearchTomorrow
<1>4. ASSUME NEW w \in Subs!Workers, Subs!Ask(w) \/ Subs!ProviderSearch(w) \/ Subs!recordProviderCall(w) PROVE Subs!SearchInv'
  BY <1>1, <1>4, SearchAsks, SearchCalls, SearchCounts
<1>5. ASSUME NEW w \in Subs!Workers,
             \/ Subs!SearchCandidates(w) \/ Subs!ReplaceSubtitleCandidates(w)
             \/ Subs!ListSubtitleCandidates(w) \/ Subs!DownloadCandidate(w) \/ Subs!NothingLeft(w) \/ Subs!UploadSubtitle(w)
             \/ Subs!publishSubtitleBody(w) \/ Subs!ReplaceSubtitleFiles(w)
             \/ Subs!DeleteSubtitle(w) \/ Subs!Unlink(w) \/ Subs!RepublishStoredSubtitles(w) \/ Subs!Move(w)
      PROVE  Subs!SearchInv'
  BY <1>1, <1>5, OrderIsOfProviders, SearchGoesOn
<1> QED
  BY <1>2, <1>3, <1>4, <1>5 DEF Subs!Next

\* What the run checks follows.
LEMMA SearchKeepsBudget == ASSUME Subs!SearchInv PROVE Subs!BudgetIsKept
<1>0. SearchSized
  BY SetupIsSized DEF Subs!SearchInv, Subs!Shapes
<1>1. ASSUME v9 = 0, NEW p \in Subs!Providers PROVE v3[p] < SubtitleBudget + Subs!Cardinality(Subs!Workers)
  <2>1. Subs!CountIsTrue(p) /\ Subs!Counts(p) \in Nat /\ v3[p] \in Nat
    BY <1>1 DEF Subs!SearchInv, Subs!Shapes, Subs!Counts
  <2>2. Subs!Uncounted(p) \subseteq Subs!Through(p) /\ Subs!Through(p) \subseteq Subs!Workers
    BY DEF Subs!Uncounted, Subs!Through, Subs!At
  <2>3. IsFiniteSet(Subs!Through(p)) /\ IsFiniteSet(Subs!Uncounted(p))
    BY <1>0, <2>2, FS_Subset DEF SearchSized
  <2>4. /\ Subs!Cardinality(Subs!Uncounted(p)) <= Subs!Cardinality(Subs!Through(p)) /\ Subs!Cardinality(Subs!Uncounted(p)) \in Nat
        /\ Subs!Cardinality(Subs!Through(p)) \in Nat /\ Subs!Cardinality(Subs!Workers) \in Nat
    BY <1>0, <2>2, <2>3, SubsCount, FS_Subset, FS_CardinalityType DEF SearchSized
  <2> QED
    BY <1>0, <2>1, <2>4 DEF Subs!CountIsTrue, SearchSized
<1> QED
  BY <1>1 DEF Subs!BudgetIsKept, Subs!SearchInv, Subs!CountIsTrue
=============================================================================
