------------------------ MODULE DeliveryPipelineProofs ------------------------
(***************************************************************************)
(* Theorems about DeliveryPipeline for any clients, lines, messages of     *)
(* other members and channel capacities.                                   *)
(***************************************************************************)
EXTENDS DeliveryPipeline, TLAPS

\* The types, with what a goroutine holds while it holds something.
Typed ==
  /\ TypeOK
  /\ chat["client"] \in Seq(Line)
  /\ sender.at # "idle" => sender.msg \in Line
  /\ ml.at # "idle" => ml.msg \in Remote
  /\ \A c \in Client : conn[c].at \in {"put1", "put2"} => <<c, conn[c].typed>> \in Line

-----------------------------------------------------------------------------
\* A connection that goes to another point, without a line in its hands or with
\* the one it has.
LEMMA ConnGoes ==
  ASSUME Typed, NEW c \in Client, NEW at \in {"accepted", "read", "put2", "closed"},
         conn' = [conn EXCEPT ![c].at = at],
         at = "put2" => conn[c].at \in {"put1", "put2"}
  PROVE  /\ conn' \in [Client -> [at : {"new", "accepted", "read", "put1", "put2", "closed"},
                                  typed : 0..MaxLines]]
         /\ \A d \in Client : /\ conn'[d].typed = conn[d].typed
                              /\ conn'[d].at = IF d = c THEN at ELSE conn[d].at
                              /\ conn'[d].at \in {"put1", "put2"}
                                   => <<d, conn'[d].typed>> \in Line
<1>1. conn[c].typed \in 0..MaxLines
  BY DEF Typed, TypeOK
<1>2. [conn[c] EXCEPT !.at = at] = [at |-> at, typed |-> conn[c].typed]
  <2>1. conn[c] \in [at : {"new", "accepted", "read", "put1", "put2", "closed"},
                    typed : 0..MaxLines]
    BY DEF Typed, TypeOK
  <2> QED BY <2>1
<1>3. conn' = [conn EXCEPT ![c] = [at |-> at, typed |-> conn[c].typed]]
  BY <1>2
<1> QED BY <1>1, <1>3 DEF Typed, TypeOK

\* The initial state is well typed.
LEMMA TypedInit == Init => Typed
<1> SUFFICES ASSUME Init PROVE Typed
  OBVIOUS
<1> USE MessageAssumption, CapacityAssumption DEF Init
<1>1. TypeOK
  BY DEF TypeOK, Nothing
<1> QED BY <1>1 DEF Typed

\* Every step keeps the types and the capacities of the channels.
LEMMA TypedStep == Typed /\ [Next]_vars => Typed'
<1> USE MessageAssumption, CapacityAssumption
<1> SUFFICES ASSUME Typed, [Next]_vars PROVE Typed'
  OBVIOUS
<1>0. /\ chat \in [{"client", "application"} -> Seq(Remote \cup Line)]
      /\ chat["client"] \in Seq(Line)
      /\ \A ch \in DOMAIN chat : Len(chat[ch]) <= ChatCap
  BY DEF Typed, TypeOK
<1> USE DEF Typed, TypeOK, vars, sessionVars, serverVars, clientVars, Nothing
<1>1. ASSUME NEW r \in Remote, Arrive(r) PROVE Typed'
  BY <1>1 DEF Arrive
<1>2. CASE DeliverBegin
  BY <1>2 DEF DeliverBegin
<1>3. CASE DeliverEnd
  BY <1>3 DEF DeliverEnd
<1>4. ASSUME NEW r \in holdBack, Deliver(r) PROVE Typed'
  <2>1. rmMsgChan' \in Seq(Remote) /\ Len(rmMsgChan') <= RmCap
    BY <1>4 DEF Deliver
  <2>2. session' \in Seq(Remote \cup Line \cup {DeadNode})
    BY <1>4 DEF Deliver
  <2> QED BY <1>4, <2>1, <2>2 DEF Deliver
<1>5. CASE DeadRemove
  BY <1>5 DEF DeadRemove
<1>6. CASE DeadAnnounce
  <2>1. session' \in Seq(Remote \cup Line \cup {DeadNode})
    BY <1>6 DEF DeadAnnounce
  <2> QED BY <1>6, <2>1 DEF DeadAnnounce
<1>7. CASE MLTake
  <2>1. rmMsgChan' \in Seq(Remote) /\ Len(rmMsgChan') <= RmCap /\ Head(rmMsgChan) \in Remote
    BY <1>7 DEF MLTake
  <2> QED BY <1>7, <2>1 DEF MLTake
<1>8. CASE MLReadState
  BY <1>8 DEF MLReadState
<1>9. CASE MLHandle
  <2>1. CASE chat' = chat
    BY <1>9, <2>1 DEF MLHandle
  <2>2. CASE Put("application", ml.msg) /\ UNCHANGED peers
    <3>1. chat' \in [{"client", "application"} -> Seq(Remote \cup Line)]
          /\ chat'["client"] = chat["client"]
          /\ \A ch \in DOMAIN chat' : Len(chat'[ch]) <= ChatCap
      BY <1>9, <2>2 DEF MLHandle, Put
    <3> QED BY <1>9, <2>2, <3>1 DEF MLHandle
  <2> QED BY <1>9, <2>1, <2>2 DEF MLHandle
<1>10. CASE SenderTake
  <2>1. /\ chat' \in [{"client", "application"} -> Seq(Remote \cup Line)]
        /\ chat'["client"] \in Seq(Line)
        /\ \A ch \in DOMAIN chat' : Len(chat'[ch]) <= ChatCap
        /\ Head(chat["client"]) \in Line
    BY <1>10 DEF SenderTake
  <2> QED BY <1>10, <2>1 DEF SenderTake
<1>11. CASE SenderReadState
  BY <1>11 DEF SenderReadState
<1>12. CASE SenderSend
  <2>1. session' \in Seq(Remote \cup Line \cup {DeadNode})
    BY <1>12 DEF SenderSend
  <2> QED BY <1>12, <2>1 DEF SenderSend
<1>13. CASE FanOut
  <2>1. /\ chat' \in [{"client", "application"} -> Seq(Remote \cup Line)]
        /\ chat'["client"] = chat["client"]
        /\ \A ch \in DOMAIN chat' : Len(chat'[ch]) <= ChatCap
        /\ Head(chat["application"]) \in Remote \cup Line
    BY <1>13 DEF FanOut
  <2>2. seen' \in [Client -> Seq(Remote \cup Line)]
    BY <1>13, <2>1 DEF FanOut
  <2> QED BY <1>13, <2>1, <2>2 DEF FanOut
<1>14. CASE ChangeState
  BY <1>14 DEF ChangeState
<1>15. ASSUME NEW p \in Peer, DeadBegin(p) PROVE Typed'
  BY <1>15 DEF DeadBegin
<1>16. ASSUME NEW c \in Client, Accept(c) PROVE Typed'
  <2>1. CASE conn' = [conn EXCEPT ![c].at = "accepted"]
    BY <1>16, <2>1, ConnGoes DEF Accept
  <2>2. CASE conn' = [conn EXCEPT ![c].at = "closed"]
    BY <1>16, <2>2, ConnGoes DEF Accept
  <2> QED BY <1>16, <2>1, <2>2 DEF Accept
<1>17. ASSUME NEW c \in Client, AddClient(c) PROVE Typed'
  <2>1. conn' = [conn EXCEPT ![c].at = "read"]
    BY <1>17 DEF AddClient
  <2> QED BY <1>17, <2>1, ConnGoes DEF AddClient
<1>18. ASSUME NEW c \in Client, PutLine(c) PROVE Typed'
  <2> DEFINE l == <<c, conn[c].typed>>  ch == PutOrder[conn[c].at]
  <2>1. conn[c].at \in {"put1", "put2"} /\ l \in Line
    BY <1>18 DEF PutLine, PutOrder
  <2>2. ch = "client" \/ ch = "application"
    BY <2>1 DEF PutOrder
  <2>3. chat[ch] \in Seq(Remote \cup Line) /\ Append(chat[ch], l) \in Seq(Remote \cup Line)
        /\ Len(Append(chat[ch], l)) = Len(chat[ch]) + 1
    BY <2>1, <2>2
  <2>4. /\ chat' \in [{"client", "application"} -> Seq(Remote \cup Line)]
        /\ chat'["client"] \in Seq(Line)
        /\ \A x \in DOMAIN chat' : Len(chat'[x]) <= ChatCap
    <3> DEFINE q == Append(chat[ch], l)
    <3>1. chat' = [chat EXCEPT ![ch] = q] /\ Len(chat[ch]) < ChatCap
      BY <1>18 DEF PutLine, Put
    <3>2. /\ chat \in [{"client", "application"} -> Seq(Remote \cup Line)]
          /\ chat["client"] \in Seq(Line) /\ \A x \in DOMAIN chat : Len(chat[x]) <= ChatCap
      BY <1>0
    <3> HIDE MessageAssumption DEF Typed, TypeOK, ch, l
    <3>3. ch = "client" => q \in Seq(Line)
      BY <2>1, <3>2
    <3>4. q \in Seq(Remote \cup Line) /\ Len(q) <= ChatCap
      BY <2>3, <3>1
    <3> HIDE CapacityAssumption DEF q
    <3>5. \A x \in {"client", "application"} : chat'[x] = IF x = ch THEN q ELSE chat[x]
      BY <3>1, <3>2
    <3>6. chat' \in [{"client", "application"} -> Seq(Remote \cup Line)]
      BY <3>1, <3>2, <3>4
    <3> QED BY <3>2, <3>3, <3>4, <3>5, <3>6
  <2>5. conn' \in [Client -> [at : {"new", "accepted", "read", "put1", "put2", "closed"},
                              typed : 0..MaxLines]]
        /\ \A d \in Client : conn'[d].at \in {"put1", "put2"} => <<d, conn'[d].typed>> \in Line
    <3>1. CASE conn' = [conn EXCEPT ![c].at = "put2"]
      BY <2>1, <3>1, ConnGoes
    <3>2. CASE conn' = [conn EXCEPT ![c].at = "read"]
      BY <2>1, <3>2, ConnGoes
    <3>3. conn' = [conn EXCEPT ![c].at = IF conn[c].at = "put1" THEN "put2" ELSE "read"]
      BY <1>18 DEF PutLine
    <3> QED BY <3>1, <3>2, <3>3
  <2> QED BY <1>18, <2>4, <2>5 DEF PutLine
<1>19. ASSUME NEW c \in Client, TypeLine(c) PROVE Typed'
  <2> DEFINE l == <<c, conn[c].typed + 1>>
  <2>1. l \in Line /\ conn[c].typed + 1 \in 0..MaxLines
    BY <1>19 DEF TypeLine, Line
  <2>2. conn' = [conn EXCEPT ![c] = [at |-> "put1", typed |-> conn[c].typed + 1]]
    BY <1>19 DEF TypeLine
  <2>3. conn' \in [Client -> [at : {"new", "accepted", "read", "put1", "put2", "closed"},
                              typed : 0..MaxLines]]
        /\ \A d \in Client : conn'[d].at \in {"put1", "put2"} => <<d, conn'[d].typed>> \in Line
    BY <2>1, <2>2
  <2>4. Lines(seen[c]) \subseteq Remote \cup Line
    BY DEF Lines
  <2>5. knew' \in [Line -> SUBSET (Remote \cup Line)]
    BY <1>19, <2>1, <2>4 DEF TypeLine
  <2> QED BY <1>19, <2>3, <2>5 DEF TypeLine
<1>20. ASSUME NEW c \in Client, RemoveClient(c) PROVE Typed'
  BY <1>20, ConnGoes DEF RemoveClient
<1>21. CASE UNCHANGED vars
  BY <1>21
<1> HIDE MessageAssumption, CapacityAssumption
         DEF Typed, TypeOK, vars, sessionVars, serverVars, clientVars, Nothing
<1>22. DeliverStep \/ DeadStep \/ MLStep \/ SenderStep => Typed'
  BY <1>2, <1>3, <1>4, <1>5, <1>6, <1>7, <1>8, <1>9, <1>10, <1>11, <1>12
     DEF DeliverStep, DeadStep, MLStep, SenderStep
<1>23. ASSUME NEW c \in Client, Accept(c) \/ ConnStep(c) \/ TypeLine(c) \/ RemoveClient(c)
       PROVE  Typed'
  BY <1>16, <1>17, <1>18, <1>19, <1>20, <1>23 DEF ConnStep
<1> QED BY <1>1, <1>13, <1>14, <1>15, <1>21, <1>22, <1>23 DEF Next

\* The types and capacities hold in every state.
THEOREM TypeCorrect == Spec => []TypeOK
<1>1. Spec => []Typed
  BY TypedInit, TypedStep, PTL DEF Spec
<1>2. Typed => TypeOK
  BY DEF Typed
<1> QED BY <1>1, <1>2, PTL

-----------------------------------------------------------------------------
(* An answer follows what its author had read.                             *)

InHand == IF sender.at = "idle" THEN {} ELSE {sender.msg}
Before(q, i) == {q[j] : j \in 1..(i - 1)}

\* What is in the session, or is on its way there in an order that is fixed.
Sent == Lines(session) \cup InHand \cup Lines(chat["client"])

\* A line that was sent was typed before.
Numbered ==
  \A c \in Client : \A k \in 1..MaxLines : <<c, k>> \in Sent => k <= conn[c].typed

\* What a client was shown, or will be, was sent.
Shown ==
  /\ Lines(rmMsgChan) \subseteq Lines(session)
  /\ ml.at # "idle" => ml.msg \in Lines(session)
  /\ Lines(chat["application"]) \subseteq Sent
  /\ \A c \in Client : /\ Lines(seen[c]) \subseteq Sent
                       /\ conn[c].at = "put2" => <<c, conn[c].typed>> \in Sent

\* What the author of a line knew is sent before the line is, wherever the line
\* is on its way.
Causal ==
  /\ AnswersFollow
  /\ sender.at # "idle" => knew[sender.msg] \subseteq Lines(session)
  /\ \A i \in DOMAIN chat["client"] :
       knew[chat["client"][i]] \subseteq
         Lines(session) \cup InHand \cup Before(chat["client"], i)
  /\ \A c \in Client : conn[c].at = "put1" => knew[<<c, conn[c].typed>>] \subseteq Sent

\* What a sequence holds after Append.
LEMMA LinesAppend ==
  ASSUME NEW S, NEW q \in Seq(S), NEW x
  PROVE  Lines(Append(q, x)) = Lines(q) \cup {x}
<1>1. Append(q, x) \in Seq(S \cup {x}) /\ Len(Append(q, x)) = Len(q) + 1
      /\ \A i \in 1..Len(q) : Append(q, x)[i] = q[i]
      /\ Append(q, x)[Len(q) + 1] = x
      /\ DOMAIN q = 1..Len(q) /\ DOMAIN Append(q, x) = 1..(Len(q) + 1)
      /\ Len(q) \in Nat
  OBVIOUS
<1> QED BY <1>1 DEF Lines

\* What a sequence holds is its head and what its tail holds.
LEMMA LinesTail ==
  ASSUME NEW S, NEW q \in Seq(S), q # <<>>
  PROVE  Lines(q) = {Head(q)} \cup Lines(Tail(q))
<1>1. /\ Tail(q) \in Seq(S) /\ Len(Tail(q)) = Len(q) - 1
      /\ \A i \in 1..(Len(q) - 1) : Tail(q)[i] = q[i + 1]
      /\ Head(q) = q[1]
      /\ DOMAIN q = 1..Len(q) /\ DOMAIN Tail(q) = 1..(Len(q) - 1)
      /\ Len(q) \in Nat \ {0}
  OBVIOUS
<1> DEFINE n == Len(q)  t == Tail(q)
<1>2. ASSUME NEW i \in 1..n, i # 1 PROVE i - 1 \in 1..(n - 1) /\ q[i] = t[i - 1]
  <2>1. n \in Nat /\ i - 1 \in 1..(n - 1) /\ (i - 1) + 1 = i
    BY <1>1, <1>2
  <2> QED BY <1>1, <2>1
<1>3. ASSUME NEW i \in 1..(n - 1) PROVE i + 1 \in 1..n /\ t[i] = q[i + 1]
  BY <1>1
<1>4. 1 \in 1..n /\ DOMAIN q = 1..n /\ DOMAIN t = 1..(n - 1) /\ Head(q) = q[1]
  BY <1>1
<1> HIDE DEF n, t
<1>5. {q[i] : i \in 1..n} \subseteq {q[1]} \cup {t[i] : i \in 1..(n - 1)}
  BY <1>2
<1>6. {q[1]} \cup {t[i] : i \in 1..(n - 1)} \subseteq {q[i] : i \in 1..n}
  BY <1>3, <1>4
<1> QED BY <1>4, <1>5, <1>6 DEF Lines, t

\* Where a step leads as far as the way of a line is concerned.
LEMMA StepCases ==
  ASSUME [Next]_vars
  PROVE  \/ UNCHANGED <<session, rmMsgChan, chat, ml, sender, conn, seen, knew>>
         \/ \E r \in holdBack : Deliver(r)
         \/ DeadAnnounce \/ MLTake \/ MLReadState \/ MLHandle
         \/ SenderTake \/ SenderReadState \/ SenderSend \/ FanOut
         \/ \E c \in Client : \/ Accept(c) \/ AddClient(c) \/ PutLine(c)
                              \/ TypeLine(c) \/ RemoveClient(c)
<1> USE DEF sessionVars, serverVars, clientVars
<1>1. CASE UNCHANGED vars
  BY <1>1 DEF vars
<1>2. CASE \E r \in Remote : Arrive(r)
  BY <1>2 DEF Arrive
<1>3. CASE DeliverBegin \/ DeliverEnd \/ DeadRemove \/ ChangeState
  BY <1>3 DEF DeliverBegin, DeliverEnd, DeadRemove, ChangeState
<1>4. CASE \E p \in Peer : DeadBegin(p)
  BY <1>4 DEF DeadBegin
<1> QED BY <1>1, <1>2, <1>3, <1>4 DEF Next, DeliverStep, DeadStep, MLStep, SenderStep, ConnStep

\* The session grows at its end.
LEMMA SessionGrows ==
  ASSUME Typed, NEW x, session' = Append(session, x)
  PROVE  /\ Lines(session') = Lines(session) \cup {x}
         /\ DOMAIN session = 1..Len(session) /\ Len(session) \in Nat
         /\ DOMAIN session' = 1..(Len(session) + 1)
         /\ \A i \in DOMAIN session : session'[i] = session[i]
         /\ session'[Len(session) + 1] = x
<1>1. session \in Seq(Remote \cup Line \cup {DeadNode})
  BY DEF Typed, TypeOK
<1>2. Lines(session') = Lines(session) \cup {x}
  BY <1>1, LinesAppend DEF Lines
<1> QED BY <1>1, <1>2

\* A message of another member that is handed up enters the session.
LEMMA SentDeliver ==
  ASSUME Typed, NEW r \in holdBack, Deliver(r)
  PROVE  Sent' = Sent \cup {r} /\ Lines(session') = Lines(session) \cup {r}
<1>1. Lines(session') = Lines(session) \cup {r}
  BY SessionGrows DEF Deliver
<1> QED BY <1>1 DEF Deliver, Sent, InHand, Lines

\* A death that is announced enters the session.
LEMMA SentDead ==
  ASSUME Typed, DeadAnnounce
  PROVE  Sent' = Sent \cup {DeadNode} /\ Lines(session') = Lines(session) \cup {DeadNode}
<1>1. Lines(session') = Lines(session) \cup {DeadNode}
  BY SessionGrows DEF DeadAnnounce
<1> QED BY <1>1 DEF DeadAnnounce, Sent, InHand, Lines

\* A line the sender takes off the queue is in its hands.
LEMMA SentTake ==
  ASSUME Typed, SenderTake
  PROVE  Sent' = Sent /\ session' = session
         /\ chat'["client"] = Tail(chat["client"]) /\ chat'["application"] = chat["application"]
         /\ sender'.at = "wait" /\ sender'.msg = Head(chat["client"])
<1>1. chat["client"] \in Seq(Line) /\ chat["client"] # <<>>
      /\ chat \in [{"client", "application"} -> Seq(Remote \cup Line)]
  BY DEF Typed, TypeOK, SenderTake
<1>2. Lines(chat["client"]) = {Head(chat["client"])} \cup Lines(Tail(chat["client"]))
  BY <1>1, LinesTail
<1>3. /\ chat'["client"] = Tail(chat["client"]) /\ chat'["application"] = chat["application"]
      /\ sender'.at = "wait" /\ sender'.msg = Head(chat["client"])
      /\ session' = session /\ sender.at = "idle"
  BY <1>1 DEF SenderTake, sessionVars
<1>4. Sent' = Lines(session) \cup {Head(chat["client"])} \cup Lines(Tail(chat["client"]))
  BY <1>3 DEF Sent, InHand, Lines
<1> QED BY <1>2, <1>3, <1>4 DEF Sent, InHand

\* A line the sender multicasts goes from its hands into the session.
LEMMA SentSend ==
  ASSUME Typed, SenderSend
  PROVE  Sent' = Sent /\ Lines(session') = Lines(session) \cup {sender.msg}
<1>1. Lines(session') = Lines(session) \cup {sender.msg}
  BY SessionGrows DEF SenderSend
<1> QED BY <1>1 DEF SenderSend, Sent, InHand, Lines

\* A line is sent with the first of its two channels and shown to its own
\* server's clients with the second (client.go:145-146).
LEMMA SentPut ==
  ASSUME Typed, NEW c \in Client, PutLine(c)
  PROVE  \/ /\ conn[c].at = "put1"
            /\ Sent' = Sent \cup {<<c, conn[c].typed>>}
            /\ chat'["client"] = Append(chat["client"], <<c, conn[c].typed>>)
            /\ chat'["application"] = chat["application"]
         \/ /\ conn[c].at = "put2"
            /\ Sent' = Sent
            /\ chat'["client"] = chat["client"]
            /\ Lines(chat'["application"]) = Lines(chat["application"]) \cup {<<c, conn[c].typed>>}
<1> DEFINE l == <<c, conn[c].typed>>
<1>1. /\ chat["client"] \in Seq(Line) /\ chat["application"] \in Seq(Remote \cup Line)
      /\ chat \in [{"client", "application"} -> Seq(Remote \cup Line)]
      /\ conn[c].at \in {"put1", "put2"}
      /\ session' = session /\ sender' = sender
  BY DEF Typed, TypeOK, PutLine, PutOrder, sessionVars
<1>2. CASE conn[c].at = "put1"
  <2>1. chat'["client"] = Append(chat["client"], l) /\ chat'["application"] = chat["application"]
    BY <1>1, <1>2 DEF PutLine, PutOrder, Put
  <2>2. Lines(Append(chat["client"], l)) = Lines(chat["client"]) \cup {l}
    BY <1>1, LinesAppend
  <2>3. Sent' = Lines(session) \cup InHand \cup Lines(Append(chat["client"], l))
    BY <1>1, <2>1 DEF Sent, InHand, Lines
  <2> QED BY <1>2, <2>1, <2>2, <2>3 DEF Sent
<1>3. CASE conn[c].at = "put2"
  <2>1. chat'["application"] = Append(chat["application"], l) /\ chat'["client"] = chat["client"]
    BY <1>1, <1>3 DEF PutLine, PutOrder, Put
  <2>2. Lines(Append(chat["application"], l)) = Lines(chat["application"]) \cup {l}
    BY <1>1, LinesAppend
  <2>3. Sent' = Sent
    BY <1>1, <2>1 DEF Sent, InHand, Lines
  <2> QED BY <1>3, <2>1, <2>2, <2>3 DEF Lines
<1> QED BY <1>1, <1>2, <1>3

\* Steps that leave the way of a line alone leave what was sent.
LEMMA SentSame ==
  ASSUME session' = session, sender' = sender, chat'["client"] = chat["client"]
  PROVE  Sent' = Sent
BY DEF Sent, InHand, Lines

\* A client that is let in, refused or gone has no line in its hands.
LEMMA ClientMoves ==
  ASSUME Typed, NEW c \in Client, Accept(c) \/ AddClient(c) \/ RemoveClient(c)
  PROVE  /\ UNCHANGED <<session, rmMsgChan, chat, ml, sender, seen, knew>>
         /\ Sent' = Sent
         /\ \A d \in Client : /\ conn'[d].typed = conn[d].typed
                              /\ conn'[d].at \in {"put1", "put2"} => conn'[d].at = conn[d].at
<1>1. UNCHANGED <<session, rmMsgChan, chat, ml, sender, seen, knew>>
  BY DEF Accept, AddClient, RemoveClient, sessionVars
<1>2. \E at \in {"accepted", "read", "closed"} : conn' = [conn EXCEPT ![c].at = at]
  BY DEF Accept, AddClient, RemoveClient
<1>3. \A d \in Client : /\ conn'[d].typed = conn[d].typed
                        /\ conn'[d].at \in {"put1", "put2"} => conn'[d].at = conn[d].at
  BY <1>2, ConnGoes
<1> QED BY <1>1, <1>3, SentSame

\* handleConn with a line.
LEMMA PutMoves ==
  ASSUME Typed, NEW c \in Client, PutLine(c)
  PROVE  /\ UNCHANGED <<session, rmMsgChan, ml, sender, seen, knew>>
         /\ \A d \in Client :
              /\ conn'[d].typed = conn[d].typed
              /\ conn'[d].at = IF d # c THEN conn[d].at
                               ELSE IF conn[c].at = "put1" THEN "put2" ELSE "read"
<1>1. conn[c].at \in {"put1", "put2"}
      /\ conn' = [conn EXCEPT ![c].at = IF conn[c].at = "put1" THEN "put2" ELSE "read"]
      /\ UNCHANGED <<session, rmMsgChan, ml, sender, seen, knew>>
  BY DEF PutLine, PutOrder, sessionVars
<1>2. CASE conn' = [conn EXCEPT ![c].at = "put2"] /\ conn[c].at = "put1"
  BY <1>1, <1>2, ConnGoes
<1>3. CASE conn' = [conn EXCEPT ![c].at = "read"] /\ conn[c].at = "put2"
  BY <1>1, <1>3, ConnGoes
<1> QED BY <1>1, <1>2, <1>3

\* A client types its next line.
LEMMA TypeMoves ==
  ASSUME Typed, NEW c \in Client, TypeLine(c)
  PROVE  /\ UNCHANGED <<session, rmMsgChan, chat, ml, sender, seen>>
         /\ Sent' = Sent
         /\ <<c, conn[c].typed + 1>> \in Line
         /\ knew' = [knew EXCEPT ![<<c, conn[c].typed + 1>>] = Lines(seen[c])]
         /\ conn'[c].at = "put1" /\ conn'[c].typed = conn[c].typed + 1
         /\ \A d \in Client \ {c} : conn'[d] = conn[d]
<1>1. /\ UNCHANGED <<session, rmMsgChan, chat, ml, sender, seen>>
      /\ <<c, conn[c].typed + 1>> \in Line
      /\ knew' = [knew EXCEPT ![<<c, conn[c].typed + 1>>] = Lines(seen[c])]
      /\ conn' = [conn EXCEPT ![c] = [at |-> "put1", typed |-> conn[c].typed + 1]]
  BY DEF TypeLine, sessionVars
<1> QED BY <1>1, SentSame DEF Typed, TypeOK

\* A line that no step has sent yet is not sent, and counts only go up.
LEMMA NumberedStep == Typed /\ Numbered /\ [Next]_vars => Numbered'
<1> USE MessageAssumption
<1> SUFFICES ASSUME Typed, Numbered, [Next]_vars,
                    NEW c \in Client, NEW k \in 1..MaxLines, <<c, k>> \in Sent'
             PROVE  k <= conn'[c].typed
  BY DEF Numbered
<1> DEFINE l == <<c, k>>
<1>1. l \in Line /\ conn[c].typed \in Nat /\ k \in Nat
      /\ conn \in [Client -> [at : {"new", "accepted", "read", "put1", "put2", "closed"},
                              typed : 0..MaxLines]]
  BY DEF Typed, TypeOK, Line
<1>2. l \in Sent => k <= conn[c].typed
  BY DEF Numbered
<1>3. CASE UNCHANGED <<session, rmMsgChan, chat, ml, sender, conn, seen, knew>>
  BY <1>2, <1>3, SentSame
<1>4. ASSUME NEW r \in holdBack, Deliver(r) PROVE k <= conn'[c].typed
  <2>1. r # l
    BY <1>1 DEF Typed, TypeOK
  <2> QED BY <1>2, <1>4, <2>1, SentDeliver DEF Deliver, clientVars
<1>5. CASE DeadAnnounce
  <2>1. DeadNode # l
    BY <1>1
  <2> QED BY <1>2, <1>5, <2>1, SentDead DEF DeadAnnounce, clientVars
<1>6. CASE MLTake \/ MLReadState
  <2>1. UNCHANGED <<session, sender, chat, conn>>
    BY <1>6 DEF MLTake, MLReadState, sessionVars, clientVars
  <2> QED BY <1>2, <2>1, SentSame
<1>7. CASE MLHandle
  <2>1. UNCHANGED <<session, sender, conn>> /\ chat'["client"] = chat["client"]
    BY <1>7 DEF MLHandle, Put, sessionVars, clientVars, Typed, TypeOK
  <2> QED BY <1>2, <2>1, SentSame
<1>8. CASE SenderTake
  BY <1>2, <1>8, SentTake DEF SenderTake, clientVars
<1>9. CASE SenderReadState
  <2>1. Sent' = Sent /\ conn' = conn
    BY <1>9 DEF SenderReadState, Sent, InHand, Lines, sessionVars, clientVars, Typed, TypeOK
  <2> QED BY <1>2, <2>1
<1>10. CASE SenderSend
  BY <1>2, <1>10, SentSend DEF SenderSend, clientVars
<1>11. CASE FanOut
  <2>1. UNCHANGED <<session, sender, conn>> /\ chat'["client"] = chat["client"]
    BY <1>11 DEF FanOut, sessionVars, Typed, TypeOK
  <2> QED BY <1>2, <2>1, SentSame
<1>12. ASSUME NEW d \in Client, Accept(d) \/ AddClient(d) \/ RemoveClient(d)
       PROVE  k <= conn'[c].typed
  BY <1>2, <1>12, ClientMoves
<1>13. ASSUME NEW d \in Client, PutLine(d) PROVE k <= conn'[c].typed
  <2>1. conn'[c].typed = conn[c].typed
    BY <1>13, PutMoves
  <2>2. l \in Sent \/ l = <<d, conn[d].typed>>
    BY <1>13, SentPut
  <2> QED BY <1>1, <1>2, <2>1, <2>2
<1>14. ASSUME NEW d \in Client, TypeLine(d) PROVE k <= conn'[c].typed
  <2>1. conn'[c].typed = conn[c].typed \/ conn'[c].typed = conn[c].typed + 1
    BY <1>14, TypeMoves
  <2>2. k <= conn[c].typed
    BY <1>2, <1>14, TypeMoves
  <2> QED BY <1>1, <2>1, <2>2
<1> QED
  BY <1>3, <1>4, <1>5, <1>6, <1>7, <1>8, <1>9, <1>10, <1>11, <1>12, <1>13, <1>14, StepCases

\* What was sent stays sent.
LEMMA SentGrows == Typed /\ [Next]_vars => Sent \subseteq Sent' /\ Lines(session) \subseteq Lines(session')
<1> SUFFICES ASSUME Typed, [Next]_vars
             PROVE  Sent \subseteq Sent' /\ Lines(session) \subseteq Lines(session')
  OBVIOUS
<1>1. CASE \E r \in holdBack : Deliver(r)
  BY <1>1, SentDeliver
<1>2. CASE DeadAnnounce
  BY <1>2, SentDead
<1>3. CASE SenderTake
  BY <1>3, SentTake DEF Lines
<1>4. CASE SenderSend
  BY <1>4, SentSend
<1>5. CASE SenderReadState
  BY <1>5 DEF SenderReadState, Sent, InHand, Lines, sessionVars, Typed, TypeOK
<1>6. CASE \E c \in Client : PutLine(c)
  <2>1. session' = session
    BY <1>6 DEF PutLine, sessionVars
  <2> QED BY <1>6, <2>1, SentPut DEF Lines
<1>7. CASE MLHandle \/ FanOut
  <2>1. session' = session /\ sender' = sender /\ chat'["client"] = chat["client"]
    BY <1>7 DEF MLHandle, FanOut, Put, sessionVars, Typed, TypeOK
  <2> QED BY <2>1, SentSame DEF Lines
<1>8. CASE UNCHANGED <<session, sender, chat>>
  BY <1>8, SentSame DEF Lines
<1>9. CASE MLTake \/ MLReadState
  BY <1>8, <1>9 DEF MLTake, MLReadState, sessionVars
<1>10. CASE \E c \in Client : Accept(c) \/ AddClient(c) \/ RemoveClient(c)
  BY <1>8, <1>10, ClientMoves
<1>11. CASE \E c \in Client : TypeLine(c)
  BY <1>8, <1>11, TypeMoves
<1> QED
  BY <1>1, <1>2, <1>3, <1>4, <1>5, <1>6, <1>7, <1>8, <1>9, <1>10, <1>11, StepCases

\* What is shown stays sent, and what comes to be shown was handed up or sent.
LEMMA ShownStep == Typed /\ Shown /\ [Next]_vars => Shown'
<1> SUFFICES ASSUME Typed, Shown, [Next]_vars PROVE Shown'
  OBVIOUS
<1>1. /\ Lines(rmMsgChan) \subseteq Lines(session)
      /\ ml.at # "idle" => ml.msg \in Lines(session)
      /\ Lines(chat["application"]) \subseteq Sent
      /\ \A c \in Client : /\ Lines(seen[c]) \subseteq Sent
                           /\ conn[c].at = "put2" => <<c, conn[c].typed>> \in Sent
  BY DEF Shown
<1>2. Sent \subseteq Sent' /\ Lines(session) \subseteq Lines(session')
  BY SentGrows
<1>3. Lines(session) \subseteq Sent
  BY DEF Sent
<1>4. /\ rmMsgChan \in Seq(Remote)
      /\ chat \in [{"client", "application"} -> Seq(Remote \cup Line)]
      /\ chat["application"] \in Seq(Remote \cup Line)
      /\ \A c \in Client : seen[c] \in Seq(Remote \cup Line)
  BY DEF Typed, TypeOK
<1> DEFINE
  Goal == /\ Lines(rmMsgChan') \subseteq Lines(session')
          /\ ml'.at # "idle" => ml'.msg \in Lines(session')
          /\ Lines(chat'["application"]) \subseteq Sent'
          /\ \A c \in Client : /\ Lines(seen'[c]) \subseteq Sent'
                               /\ conn'[c].at = "put2" => <<c, conn'[c].typed>> \in Sent'
<1>5. SUFFICES Goal
  BY DEF Shown, Lines
<1> HIDE DEF Goal
<1>6. ASSUME UNCHANGED <<rmMsgChan, ml, chat, seen, conn>> PROVE Goal
  <2>1. Lines(rmMsgChan') = Lines(rmMsgChan) /\ Lines(chat'["application"]) = Lines(chat["application"])
    BY <1>6
  <2> QED BY <1>1, <1>2, <1>6, <2>1 DEF Goal
<1>7. ASSUME NEW r \in holdBack, Deliver(r) PROVE Goal
  <2>1. Lines(rmMsgChan') = Lines(rmMsgChan) \cup {r}
    BY <1>4, <1>7, LinesAppend DEF Deliver
  <2>2. UNCHANGED <<ml, chat, seen, conn>>
    BY <1>7 DEF Deliver, clientVars
  <2>3. Lines(chat'["application"]) = Lines(chat["application"])
    BY <2>2
  <2> QED BY <1>1, <1>2, <1>7, <2>1, <2>2, <2>3, SentDeliver DEF Goal
<1>8. CASE DeadAnnounce \/ SenderSend \/ SenderReadState
  BY <1>6, <1>8 DEF DeadAnnounce, SenderSend, SenderReadState, clientVars
<1>9. CASE MLTake
  <2>1. Lines(rmMsgChan) = {Head(rmMsgChan)} \cup Lines(rmMsgChan')
    BY <1>4, <1>9, LinesTail DEF MLTake
  <2>2. UNCHANGED <<chat, seen, conn>> /\ ml'.msg = Head(rmMsgChan)
    BY <1>9 DEF MLTake, clientVars
  <2>3. Lines(chat'["application"]) = Lines(chat["application"])
    BY <2>2
  <2> QED BY <1>1, <1>2, <2>1, <2>2, <2>3 DEF Goal
<1>10. CASE MLReadState
  <2>1. UNCHANGED <<rmMsgChan, chat, seen, conn>> /\ ml'.msg = ml.msg /\ ml.at # "idle"
    BY <1>10 DEF MLReadState, clientVars, Typed, TypeOK
  <2>2. Lines(rmMsgChan') = Lines(rmMsgChan) /\ Lines(chat'["application"]) = Lines(chat["application"])
    BY <2>1
  <2> QED BY <1>1, <1>2, <2>1, <2>2 DEF Goal
<1>11. CASE MLHandle
  <2>1. UNCHANGED <<rmMsgChan, seen, conn>> /\ ml.at # "idle" /\ ml'.at = "idle"
    BY <1>11 DEF MLHandle, clientVars
  <2>2. Lines(rmMsgChan') = Lines(rmMsgChan)
    BY <2>1
  <2>3. chat' = chat \/ chat'["application"] = Append(chat["application"], ml.msg)
    BY <1>4, <1>11 DEF MLHandle, Put
  <2>4. Lines(chat'["application"]) \subseteq Lines(chat["application"]) \cup {ml.msg}
    BY <1>4, <2>3, LinesAppend
  <2> QED BY <1>1, <1>2, <1>3, <2>1, <2>2, <2>4 DEF Goal
<1>12. CASE SenderTake
  <2>1. UNCHANGED <<rmMsgChan, ml, seen, conn>> /\ chat'["application"] = chat["application"]
    BY <1>12, SentTake DEF SenderTake, clientVars
  <2>2. Lines(rmMsgChan') = Lines(rmMsgChan) /\ Lines(chat'["application"]) = Lines(chat["application"])
    BY <2>1
  <2> QED BY <1>1, <1>2, <2>1, <2>2 DEF Goal
<1>13. CASE FanOut
  <2>1. UNCHANGED <<rmMsgChan, ml, conn>> /\ chat'["application"] = Tail(chat["application"])
        /\ chat["application"] # <<>>
    BY <1>4, <1>13 DEF FanOut
  <2>2. Lines(rmMsgChan') = Lines(rmMsgChan)
        /\ Lines(chat["application"]) = {Head(chat["application"])} \cup Lines(chat'["application"])
    BY <1>4, <2>1, LinesTail
  <2>3. ASSUME NEW c \in Client PROVE Lines(seen'[c]) \subseteq Sent'
    <3>1. seen'[c] = seen[c] \/ seen'[c] = Append(seen[c], Head(chat["application"]))
      BY <1>13 DEF FanOut
    <3>2. Lines(seen'[c]) \subseteq Lines(seen[c]) \cup {Head(chat["application"])}
      BY <1>4, <3>1, LinesAppend
    <3> QED BY <1>1, <1>2, <2>2, <3>2
  <2> QED BY <1>1, <1>2, <2>1, <2>2, <2>3 DEF Goal
<1>14. ASSUME NEW d \in Client, Accept(d) \/ AddClient(d) \/ RemoveClient(d) PROVE Goal
  <2>1. UNCHANGED <<rmMsgChan, ml, chat, seen>>
        /\ \A c \in Client : /\ conn'[c].typed = conn[c].typed
                             /\ conn'[c].at = "put2" => conn[c].at = "put2"
    BY <1>14, ClientMoves
  <2>2. Lines(rmMsgChan') = Lines(rmMsgChan) /\ Lines(chat'["application"]) = Lines(chat["application"])
    BY <2>1
  <2> QED BY <1>1, <1>2, <2>1, <2>2 DEF Goal
<1>15. ASSUME NEW d \in Client, PutLine(d) PROVE Goal
  <2>1. UNCHANGED <<rmMsgChan, ml, seen>>
        /\ \A c \in Client : /\ conn'[c].typed = conn[c].typed
                             /\ conn'[c].at = "put2" => IF c = d THEN conn[c].at = "put1"
                                                                 ELSE conn[c].at = "put2"
    BY <1>15, PutMoves
  <2>2. Lines(rmMsgChan') = Lines(rmMsgChan)
    BY <2>1
  <2>3. Lines(chat'["application"]) \subseteq Sent'
    BY <1>1, <1>2, <1>15, SentPut
  <2>4. ASSUME NEW c \in Client, conn'[c].at = "put2" PROVE <<c, conn'[c].typed>> \in Sent'
    BY <1>1, <1>2, <1>15, <2>1, <2>4, SentPut
  <2> QED BY <1>1, <1>2, <2>1, <2>2, <2>3, <2>4 DEF Goal
<1>16. ASSUME NEW d \in Client, TypeLine(d) PROVE Goal
  <2>1. UNCHANGED <<rmMsgChan, ml, chat, seen>>
        /\ \A c \in Client : conn'[c].at = "put2" => conn'[c] = conn[c]
    BY <1>16, TypeMoves
  <2>2. Lines(rmMsgChan') = Lines(rmMsgChan) /\ Lines(chat'["application"]) = Lines(chat["application"])
    BY <2>1
  <2> QED BY <1>1, <1>2, <2>1, <2>2 DEF Goal
<1>17. Goal
  BY <1>6, <1>7, <1>8, <1>9, <1>10, <1>11, <1>12, <1>13, <1>14, <1>15, <1>16, StepCases
<1> QED BY <1>17 DEF Goal

\* A session in which answers follow may grow by what is no line, or by a line
\* whose author knew nothing else.
LEMMA FollowsGrow ==
  ASSUME Typed, AnswersFollow, NEW x, session' = Append(session, x), knew' = knew,
         x \in Line => knew[x] \subseteq Lines(session)
  PROVE  AnswersFollow'
<1> DEFINE n == Len(session)
<1>1. /\ DOMAIN session = 1..n /\ n \in Nat
      /\ DOMAIN session' = 1..(n + 1)
      /\ \A i \in 1..n : session'[i] = session[i]
      /\ session'[n + 1] = x
  BY SessionGrows
<1> HIDE DEF n
<1>2. SUFFICES ASSUME NEW j \in 1..(n + 1), session'[j] \in Line
               PROVE  knew[session'[j]] \subseteq {session'[i] : i \in 1..(j - 1)}
  BY <1>1 DEF AnswersFollow
<1>3. \A i \in 1..(j - 1) : i \in 1..n /\ session'[i] = session[i]
  BY <1>1
<1>4. {session'[i] : i \in 1..(j - 1)} = {session[i] : i \in 1..(j - 1)}
  BY <1>3
<1>5. CASE j \in 1..n
  BY <1>1, <1>2, <1>4, <1>5 DEF AnswersFollow
<1>6. CASE j = n + 1
  <2>1. 1..(j - 1) = DOMAIN session
    BY <1>1, <1>6
  <2> QED BY <1>1, <1>2, <1>4, <1>6, <2>1 DEF Lines
<1> QED BY <1>1, <1>5, <1>6

\* The lines before the i-th of a queue when it moves up.
LEMMA BeforeTail ==
  ASSUME NEW S, NEW q \in Seq(S), q # <<>>, NEW i \in DOMAIN Tail(q)
  PROVE  /\ i + 1 \in DOMAIN q /\ Tail(q)[i] = q[i + 1]
         /\ Before(q, i + 1) \subseteq {Head(q)} \cup Before(Tail(q), i)
<1> DEFINE n == Len(q)  t == Tail(q)
<1>1. /\ n \in Nat \ {0} /\ DOMAIN q = 1..n /\ DOMAIN t = 1..(n - 1)
      /\ Head(q) = q[1]
      /\ \A j \in 1..(n - 1) : t[j] = q[j + 1]
  OBVIOUS
<1> HIDE DEF n, t
<1>2. i \in 1..(n - 1) /\ i + 1 \in 1..n /\ t[i] = q[i + 1]
  BY <1>1 DEF t
<1>3. ASSUME NEW j \in 1..i, j # 1 PROVE q[j] \in Before(t, i)
  <2>1. j - 1 \in 1..(i - 1) /\ j - 1 \in 1..(n - 1) /\ (j - 1) + 1 = j
    BY <1>1, <1>2, <1>3
  <2> QED BY <1>1, <2>1 DEF Before
<1>4. (i + 1) - 1 = i
  BY <1>2, <1>1
<1> QED BY <1>1, <1>2, <1>3, <1>4 DEF Before, t

\* What is appended comes after all the rest.
LEMMA BeforeAppend ==
  ASSUME NEW S, NEW q \in Seq(S), NEW x
  PROVE  /\ DOMAIN Append(q, x) = DOMAIN q \cup {Len(q) + 1}
         /\ \A i \in DOMAIN q : Append(q, x)[i] = q[i] /\ Before(Append(q, x), i) = Before(q, i)
         /\ Append(q, x)[Len(q) + 1] = x
         /\ Before(Append(q, x), Len(q) + 1) = Lines(q)
<1> DEFINE n == Len(q)  r == Append(q, x)
<1>1. /\ n \in Nat /\ DOMAIN q = 1..n /\ DOMAIN r = 1..(n + 1) /\ r[n + 1] = x
      /\ \A i \in 1..n : r[i] = q[i]
  OBVIOUS
<1> HIDE DEF n, r
<1>2. ASSUME NEW i \in 1..n PROVE Before(r, i) = Before(q, i)
  <2>1. \A j \in 1..(i - 1) : r[j] = q[j]
    BY <1>1
  <2> QED BY <2>1 DEF Before
<1>3. Before(r, n + 1) = Lines(q)
  <2>1. 1..((n + 1) - 1) = 1..n
    BY <1>1
  <2> QED BY <1>1, <2>1 DEF Before, Lines
<1>4. 1..(n + 1) = 1..n \cup {n + 1}
  BY <1>1
<1> QED BY <1>1, <1>2, <1>3, <1>4 DEF n, r

\* What an author knew is sent before the line, whatever step is taken.
LEMMA CausalStep == Typed /\ Numbered /\ Shown /\ Causal /\ [Next]_vars => Causal'
<1> SUFFICES ASSUME Typed, Numbered, Shown, Causal, [Next]_vars PROVE Causal'
  OBVIOUS
<1> DEFINE queue == chat["client"]
           Ahead(i) == Lines(session) \cup InHand \cup Before(queue, i)
<1>1. /\ AnswersFollow
      /\ sender.at # "idle" => knew[sender.msg] \subseteq Lines(session)
      /\ \A i \in DOMAIN queue : knew[queue[i]] \subseteq Ahead(i)
      /\ \A c \in Client : conn[c].at = "put1" => knew[<<c, conn[c].typed>>] \subseteq Sent
  BY DEF Causal
<1>2. Sent \subseteq Sent' /\ Lines(session) \subseteq Lines(session')
  BY SentGrows
<1>3. queue \in Seq(Line)
  BY DEF Typed
<1>4. ASSUME session' = session, sender' = sender, chat'["client"] = queue, knew' = knew,
             \A c \in Client : conn'[c].at = "put1" =>
               conn[c].at = "put1" /\ conn'[c].typed = conn[c].typed
      PROVE  Causal'
  <2>1. AnswersFollow'
    BY <1>1, <1>4 DEF AnswersFollow
  <2>2. InHand' = InHand /\ Lines(session') = Lines(session)
    BY <1>4 DEF InHand
  <2>3. \A c \in Client : conn'[c].at = "put1" => knew'[<<c, conn'[c].typed>>] \subseteq Sent'
    BY <1>1, <1>2, <1>4
  <2>4. \A i \in DOMAIN chat'["client"] : knew'[chat'["client"][i]] \subseteq
          Lines(session') \cup InHand' \cup Before(chat'["client"], i)
    BY <1>1, <1>4, <2>2
  <2>5. sender'.at # "idle" => knew'[sender'.msg] \subseteq Lines(session')
    BY <1>1, <1>4
  <2> QED BY <2>1, <2>3, <2>4, <2>5 DEF Causal, Lines, Before
<1>5. ASSUME NEW x, x \notin Line, session' = Append(session, x),
             UNCHANGED <<sender, chat, knew, conn>>
      PROVE  Causal'
  <2>1. AnswersFollow'
    BY <1>1, <1>5, FollowsGrow
  <2>2. InHand' = InHand
    BY <1>5 DEF InHand
  <2>3. \A c \in Client : conn'[c].at = "put1" => knew'[<<c, conn'[c].typed>>] \subseteq Sent'
    BY <1>1, <1>2, <1>5
  <2>4. \A i \in DOMAIN chat'["client"] : knew'[chat'["client"][i]] \subseteq
          Lines(session') \cup InHand' \cup Before(chat'["client"], i)
    BY <1>1, <1>2, <1>5, <2>2
  <2>5. sender'.at # "idle" => knew'[sender'.msg] \subseteq Lines(session')
    BY <1>1, <1>2, <1>5
  <2> QED BY <2>1, <2>3, <2>4, <2>5 DEF Causal, Lines, Before
<1>6. CASE UNCHANGED <<session, rmMsgChan, chat, ml, sender, conn, seen, knew>>
  BY <1>4, <1>6
<1>7. ASSUME NEW r \in holdBack, Deliver(r) PROVE Causal'
  <2>1. r \notin Line
    BY MessageAssumption DEF Typed, TypeOK
  <2> QED BY <1>5, <1>7, <2>1 DEF Deliver, clientVars
<1>8. CASE DeadAnnounce
  BY <1>5, <1>8, MessageAssumption DEF DeadAnnounce, clientVars
<1>9. CASE MLTake \/ MLReadState
  BY <1>4, <1>9 DEF MLTake, MLReadState, sessionVars, clientVars
<1>10. CASE MLHandle
  BY <1>4, <1>10 DEF MLHandle, Put, sessionVars, clientVars, Typed, TypeOK
<1>11. CASE FanOut
  BY <1>4, <1>11 DEF FanOut, sessionVars, Typed, TypeOK
<1>12. ASSUME NEW c \in Client, Accept(c) \/ AddClient(c) \/ RemoveClient(c) PROVE Causal'
  BY <1>4, <1>12, ClientMoves
<1>13. CASE SenderTake
  <2>1. /\ sender.at = "idle" /\ queue # <<>>
        /\ session' = session /\ chat'["client"] = Tail(queue)
        /\ sender'.at = "wait" /\ sender'.msg = Head(queue)
        /\ knew' = knew /\ conn' = conn
    BY <1>13, SentTake DEF SenderTake, clientVars
  <2>2. InHand = {} /\ InHand' = {Head(queue)}
    BY <2>1 DEF InHand
  <2>3. AnswersFollow'
    BY <1>1, <2>1 DEF AnswersFollow
  <2>4. knew[Head(queue)] \subseteq Lines(session)
    <3>1. 1 \in DOMAIN queue /\ Head(queue) = queue[1] /\ Before(queue, 1) = {}
      BY <1>3, <2>1 DEF Before
    <3> QED BY <1>1, <2>2, <3>1
  <2>5. ASSUME NEW i \in DOMAIN Tail(queue)
        PROVE  knew[Tail(queue)[i]] \subseteq
                 Lines(session) \cup {Head(queue)} \cup Before(Tail(queue), i)
    BY <1>1, <1>3, <2>1, <2>2, BeforeTail
  <2>6. \A c \in Client : conn'[c].at = "put1" => knew'[<<c, conn'[c].typed>>] \subseteq Sent'
    BY <1>1, <1>2, <2>1
  <2>7. \A i \in DOMAIN chat'["client"] : knew'[chat'["client"][i]] \subseteq
          Lines(session') \cup InHand' \cup Before(chat'["client"], i)
    BY <2>1, <2>2, <2>5
  <2>8. sender'.at # "idle" => knew'[sender'.msg] \subseteq Lines(session')
    BY <2>1, <2>4
  <2> QED BY <2>3, <2>6, <2>7, <2>8 DEF Causal, Lines, Before
<1>14. CASE SenderReadState
  <2>1. /\ UNCHANGED <<session, chat, knew, conn>>
        /\ sender.at = "wait" /\ sender'.at = "send" /\ sender'.msg = sender.msg
    BY <1>14 DEF SenderReadState, sessionVars, clientVars, Typed, TypeOK
  <2>2. InHand' = InHand
    BY <2>1 DEF InHand
  <2>3. AnswersFollow'
    BY <1>1, <2>1 DEF AnswersFollow
  <2>4. \A c \in Client : conn'[c].at = "put1" => knew'[<<c, conn'[c].typed>>] \subseteq Sent'
    BY <1>1, <1>2, <2>1
  <2>5. \A i \in DOMAIN chat'["client"] : knew'[chat'["client"][i]] \subseteq
          Lines(session') \cup InHand' \cup Before(chat'["client"], i)
    BY <1>1, <2>1, <2>2
  <2>6. sender'.at # "idle" => knew'[sender'.msg] \subseteq Lines(session')
    BY <1>1, <2>1
  <2> QED BY <2>3, <2>4, <2>5, <2>6 DEF Causal, Lines, Before
<1>15. CASE SenderSend
  <2>1. /\ UNCHANGED <<chat, knew, conn>>
        /\ sender.at = "send" /\ sender'.at = "idle"
        /\ session' = Append(session, sender.msg)
    BY <1>15 DEF SenderSend, clientVars
  <2>2. InHand = {sender.msg} /\ InHand' = {} /\ Lines(session') = Lines(session) \cup {sender.msg}
    BY <1>15, <2>1, SentSend DEF InHand
  <2>3. AnswersFollow'
    BY <1>1, <2>1, FollowsGrow
  <2>4. \A c \in Client : conn'[c].at = "put1" => knew'[<<c, conn'[c].typed>>] \subseteq Sent'
    BY <1>1, <1>2, <2>1
  <2>5. \A i \in DOMAIN chat'["client"] : knew'[chat'["client"][i]] \subseteq
          Lines(session') \cup InHand' \cup Before(chat'["client"], i)
    BY <1>1, <2>1, <2>2
  <2>6. sender'.at # "idle" => knew'[sender'.msg] \subseteq Lines(session')
    BY <2>1
  <2> QED BY <2>3, <2>4, <2>5, <2>6 DEF Causal, Lines, Before
<1>16. ASSUME NEW c \in Client, PutLine(c), conn[c].at = "put1" PROVE Causal'
  <2> DEFINE l == <<c, conn[c].typed>>
  <2>1. /\ UNCHANGED <<session, sender, knew>>
        /\ chat'["client"] = Append(queue, l)
        /\ \A d \in Client : conn'[d].at = "put1" =>
             conn[d].at = "put1" /\ conn'[d].typed = conn[d].typed
    BY <1>16, PutMoves, SentPut
  <2>2. InHand' = InHand
    BY <2>1 DEF InHand
  <2>3. AnswersFollow'
    BY <1>1, <2>1 DEF AnswersFollow
  <2>4. \A d \in Client : conn'[d].at = "put1" => knew'[<<d, conn'[d].typed>>] \subseteq Sent'
    BY <1>1, <1>2, <2>1
  <2>5. knew[l] \subseteq Lines(session) \cup InHand \cup Lines(queue)
    BY <1>1, <1>16 DEF Sent
  <2>6. ASSUME NEW i \in DOMAIN Append(queue, l)
        PROVE  knew[Append(queue, l)[i]] \subseteq
                 Lines(session) \cup InHand \cup Before(Append(queue, l), i)
    <3>1. CASE i \in DOMAIN queue
      BY <1>1, <1>3, <3>1, BeforeAppend
    <3>2. CASE i = Len(queue) + 1
      BY <1>3, <2>5, <3>2, BeforeAppend
    <3> QED BY <1>3, <3>1, <3>2, BeforeAppend
  <2>7. \A i \in DOMAIN chat'["client"] : knew'[chat'["client"][i]] \subseteq
          Lines(session') \cup InHand' \cup Before(chat'["client"], i)
    BY <2>1, <2>2, <2>6
  <2>8. sender'.at # "idle" => knew'[sender'.msg] \subseteq Lines(session')
    BY <1>1, <2>1
  <2> QED BY <2>3, <2>4, <2>7, <2>8 DEF Causal, Lines, Before
<1>17. ASSUME NEW c \in Client, PutLine(c), conn[c].at = "put2" PROVE Causal'
  BY <1>4, <1>17, PutMoves, SentPut
<1>18. ASSUME NEW c \in Client, TypeLine(c) PROVE Causal'
  <2> DEFINE l == <<c, conn[c].typed + 1>>
  <2>1. /\ UNCHANGED <<session, sender, chat>> /\ Sent' = Sent
        /\ l \in Line
        /\ knew' = [knew EXCEPT ![l] = Lines(seen[c])]
        /\ conn'[c].at = "put1" /\ conn'[c].typed = conn[c].typed + 1
        /\ \A d \in Client \ {c} : conn'[d] = conn[d]
    BY <1>18, TypeMoves
  <2>2. l \notin Sent
    <3>1. conn[c].typed + 1 \in 1..MaxLines /\ conn[c].typed \in Nat
      BY <2>1 DEF Line, Typed, TypeOK
    <3> QED BY <3>1 DEF Numbered
  <2>3. \A x \in Sent : x \in Line => knew'[x] = knew[x]
    BY <2>1, <2>2 DEF Typed, TypeOK
  <2>4. InHand' = InHand
    BY <2>1 DEF InHand
  <2>5. AnswersFollow'
    <3>1. \A j \in DOMAIN session : session[j] \in Line => knew'[session[j]] = knew[session[j]]
      BY <2>3 DEF Sent, Lines
    <3> QED BY <1>1, <2>1, <3>1 DEF AnswersFollow
  <2>6. \A i \in DOMAIN chat'["client"] : knew'[chat'["client"][i]] \subseteq
          Lines(session') \cup InHand' \cup Before(chat'["client"], i)
    <3>1. \A i \in DOMAIN queue : knew'[queue[i]] = knew[queue[i]]
      BY <1>3, <2>3 DEF Sent, Lines
    <3> QED BY <1>1, <2>1, <2>4, <3>1
  <2>7. sender'.at # "idle" => knew'[sender'.msg] \subseteq Lines(session')
    <3>1. sender.at # "idle" => knew'[sender.msg] = knew[sender.msg]
      BY <2>3 DEF Sent, InHand, Typed
    <3> QED BY <1>1, <2>1, <3>1
  <2>8. ASSUME NEW d \in Client, conn'[d].at = "put1"
        PROVE  knew'[<<d, conn'[d].typed>>] \subseteq Sent'
    <3>1. CASE d = c
      BY <2>1, <3>1 DEF Shown, Typed, TypeOK
    <3>2. CASE d # c
      <4>1. conn'[d] = conn[d] /\ <<d, conn[d].typed>> # l
        BY <2>1, <3>2
      <4> QED BY <1>1, <2>1, <2>8, <4>1 DEF Typed, TypeOK
    <3> QED BY <3>1, <3>2
  <2> QED BY <2>5, <2>6, <2>7, <2>8 DEF Causal, Lines, Before
<1> QED
  <2>1. \A c \in Client : PutLine(c) => conn[c].at = "put1" \/ conn[c].at = "put2"
    BY SentPut
  <2> QED BY <2>1, <1>6, <1>7, <1>8, <1>9, <1>10, <1>11, <1>12, <1>13, <1>14, <1>15, <1>16, <1>17,
     <1>18, StepCases

(* A line that answers what its author had read follows it in the session, *)
(* for any number of clients that write at once: this is what the order of *)
(* the two channels in handleConn (client.go:145-146) is for.              *)
THEOREM AnswersFollowCorrect == Spec => []AnswersFollow
<1> DEFINE J == Typed /\ Numbered /\ Shown /\ Causal
<1>1. Init => J
  <2> SUFFICES ASSUME Init PROVE J
    OBVIOUS
  <2>1. Typed
    BY TypedInit
  <2>2. Sent = {} /\ Lines(rmMsgChan) = {} /\ Lines(chat["application"]) = {}
        /\ \A c \in Client : Lines(seen[c]) = {} /\ conn[c].at = "new"
    BY DEF Init, Sent, InHand, Lines
  <2>3. DOMAIN session = {} /\ DOMAIN chat["client"] = {} /\ sender.at = "idle" /\ ml.at = "idle"
    BY DEF Init
  <2> QED BY <2>1, <2>2, <2>3 DEF Numbered, Shown, Causal, AnswersFollow
<1>2. J /\ [Next]_vars => J'
  BY TypedStep, NumberedStep, ShownStep, CausalStep
<1>3. J => AnswersFollow
  BY DEF Causal
<1> QED BY <1>1, <1>2, <1>3, PTL DEF Spec

-----------------------------------------------------------------------------
(* The order in which a client is shown the lines.                         *)

\* x may be shown before y when the session is s.
Right(s, x, y) ==
  /\ x # y
  /\ x \in Line /\ y \in Line /\ x[1] = y[1] => x[2] < y[2]
  /\ x \in Remote /\ y \in Remote =>
       \E k, l \in DOMAIN s : k < l /\ s[k] = x /\ s[l] = y

Precedes(s, A, B) == \A x \in A, y \in B : Right(s, x, y)
InOrder(s, q) == \A i, j \in DOMAIN q : i < j => Right(s, q[i], q[j])

\* What startMulticastMessageListener has in its hands.
InML == IF ml.at = "idle" THEN {} ELSE {ml.msg}

Displayed(c) == Lines(seen[c]) \cup Lines(chat["application"])

\* The stages of the way to the screen are in order, each and one after the
\* other.
Orderly ==
  /\ InOrder(session, rmMsgChan)
  /\ Precedes(session, InML, Lines(rmMsgChan))
  /\ InOrder(session, chat["application"])
  /\ Precedes(session, Lines(chat["application"]), InML \cup Lines(rmMsgChan))
  /\ \A c \in Client :
       /\ InOrder(session, seen[c])
       /\ Precedes(session, Lines(seen[c]), Lines(chat["application"]))
       /\ Precedes(session, Lines(seen[c]), InML \cup Lines(rmMsgChan))

\* A message of another member is handed up once.
Fresh ==
  /\ holdBack \cap Lines(session) = {}
  /\ holdBack \subseteq arrived
  /\ Lines(session) \cap Remote \subseteq arrived

\* A line comes to the screens after its author has put it on both channels.
Counted ==
  \A c, d \in Client : \A k \in 1..MaxLines : <<d, k>> \in Displayed(c) =>
    /\ k <= conn[d].typed
    /\ conn[d].at \in {"put1", "put2"} => k < conn[d].typed

\* What precedes, precedes in a session that has grown.
LEMMA RightGrows ==
  ASSUME Typed, session' = session \/ \E z : session' = Append(session, z),
         NEW x, NEW y, Right(session, x, y)
  PROVE  Right(session', x, y)
<1>1. CASE session' = session
  BY <1>1
<1>2. ASSUME NEW z, session' = Append(session, z) PROVE Right(session', x, y)
  <2>1. /\ DOMAIN session \subseteq DOMAIN session'
        /\ \A i \in DOMAIN session : session'[i] = session[i]
    <3>1. /\ DOMAIN session = 1..Len(session) /\ Len(session) \in Nat
          /\ DOMAIN session' = 1..(Len(session) + 1)
          /\ \A i \in DOMAIN session : session'[i] = session[i]
      BY <1>2, SessionGrows
    <3> QED BY <3>1
  <2>2. ASSUME x \in Remote, y \in Remote
        PROVE  \E k, l \in DOMAIN session' : k < l /\ session'[k] = x /\ session'[l] = y
    <3>1. PICK k \in DOMAIN session, l \in DOMAIN session :
            k < l /\ session[k] = x /\ session[l] = y
      BY <2>2 DEF Right
    <3> QED BY <2>1, <3>1
  <2> QED BY <2>2 DEF Right
<1> QED BY <1>1, <1>2

\* A queue in order stays so when it ends in what comes after all it holds.
LEMMA InOrderAppend ==
  ASSUME NEW s, NEW S, NEW q \in Seq(S), NEW x, InOrder(s, q), Precedes(s, Lines(q), {x})
  PROVE  InOrder(s, Append(q, x))
<1> DEFINE n == Len(q)  r == Append(q, x)
<1>1. /\ n \in Nat /\ DOMAIN q = 1..n /\ DOMAIN r = 1..(n + 1) /\ r[n + 1] = x
      /\ \A i \in 1..n : r[i] = q[i]
  OBVIOUS
<1> HIDE DEF n, r
<1>2. SUFFICES ASSUME NEW i \in 1..(n + 1), NEW j \in 1..(n + 1), i < j
               PROVE  Right(s, r[i], r[j])
  BY <1>1 DEF InOrder, r
<1>3. i \in 1..n /\ r[i] = q[i] /\ q[i] \in Lines(q)
  BY <1>1, <1>2 DEF Lines
<1>4. CASE j \in 1..n
  BY <1>1, <1>2, <1>3, <1>4 DEF InOrder
<1>5. CASE j = n + 1
  BY <1>1, <1>3, <1>5 DEF Precedes
<1> QED BY <1>1, <1>4, <1>5

\* The tail of a queue in order is in order, and after its head.
LEMMA InOrderTail ==
  ASSUME NEW s, NEW S, NEW q \in Seq(S), q # <<>>, InOrder(s, q)
  PROVE  InOrder(s, Tail(q)) /\ Precedes(s, {Head(q)}, Lines(Tail(q)))
<1> DEFINE n == Len(q)  t == Tail(q)
<1>1. /\ n \in Nat \ {0} /\ DOMAIN q = 1..n /\ DOMAIN t = 1..(n - 1)
      /\ Head(q) = q[1]
      /\ \A j \in 1..(n - 1) : t[j] = q[j + 1]
  OBVIOUS
<1> HIDE DEF n, t
<1>2. ASSUME NEW i \in 1..(n - 1), NEW j \in 1..(n - 1), i < j PROVE Right(s, t[i], t[j])
  <2>1. i + 1 \in 1..n /\ j + 1 \in 1..n /\ i + 1 < j + 1
    BY <1>1, <1>2
  <2>2. Right(s, q[i + 1], q[j + 1])
    BY <1>1, <2>1 DEF InOrder
  <2> QED BY <1>1, <2>2
<1>3. ASSUME NEW j \in 1..(n - 1) PROVE Right(s, Head(q), t[j])
  <2>1. 1 \in 1..n /\ j + 1 \in 1..n /\ 1 < j + 1
    BY <1>1
  <2>2. Right(s, q[1], q[j + 1])
    BY <1>1, <2>1 DEF InOrder
  <2> QED BY <1>1, <2>2
<1> QED BY <1>1, <1>2, <1>3 DEF InOrder, Precedes, Lines, t

\* A message that is handed up comes after all that were, and is in the session
\* for the first time.
LEMMA HandedUpLast ==
  ASSUME Typed, Fresh, NEW r \in holdBack, Deliver(r), NEW x \in Lines(session) \cup Line
  PROVE  Right(session', x, r)
<1>1. r \in Remote /\ r \notin Line /\ r \notin Lines(session)
  BY MessageAssumption DEF Typed, TypeOK, Fresh
<1>2. /\ DOMAIN session = 1..Len(session) /\ Len(session) \in Nat
      /\ DOMAIN session' = 1..(Len(session) + 1)
      /\ \A i \in DOMAIN session : session'[i] = session[i]
      /\ session'[Len(session) + 1] = r
  BY SessionGrows DEF Deliver
<1>3. ASSUME x \in Lines(session)
      PROVE  \E k, l \in DOMAIN session' : k < l /\ session'[k] = x /\ session'[l] = r
  <2>1. PICK k \in DOMAIN session : session[k] = x
    BY <1>3 DEF Lines
  <2>2. k \in DOMAIN session' /\ Len(session) + 1 \in DOMAIN session' /\ k < Len(session) + 1
    BY <1>2
  <2> QED BY <1>2, <2>1, <2>2
<1>4. CASE x \in Lines(session)
  BY <1>1, <1>3, <1>4 DEF Right
<1>5. CASE x \in Line
  BY <1>1, <1>5, MessageAssumption DEF Right
<1> QED BY <1>4, <1>5

\* A message enters the hold-back queue once, and leaves it into the session.
LEMMA FreshStep == Typed /\ Fresh /\ [Next]_vars => Fresh'
<1> SUFFICES ASSUME Typed, Fresh, [Next]_vars PROVE Fresh'
  OBVIOUS
<1>1. /\ holdBack \cap Lines(session) = {}
      /\ holdBack \subseteq arrived
      /\ Lines(session) \cap Remote \subseteq arrived
      /\ holdBack \subseteq Remote
  BY DEF Fresh, Typed, TypeOK
<1>2. CASE UNCHANGED sessionVars
  BY <1>1, <1>2 DEF Fresh, Lines, sessionVars
<1>3. ASSUME NEW r \in Remote, Arrive(r) PROVE Fresh'
  <2>1. /\ r \notin arrived /\ arrived' = arrived \cup {r} /\ holdBack' = holdBack \cup {r}
        /\ session' = session
    BY <1>3 DEF Arrive
  <2>2. Lines(session)' = Lines(session) /\ r \notin Lines(session)
    BY <1>1, <2>1 DEF Lines
  <2> QED BY <1>1, <2>1, <2>2 DEF Fresh
<1>4. ASSUME NEW r \in holdBack, Deliver(r) PROVE Fresh'
  <2>1. holdBack' = holdBack \ {r} /\ arrived' = arrived
    BY <1>4 DEF Deliver
  <2>2. Lines(session)' = Lines(session) \cup {r}
    BY <1>4, SentDeliver DEF Lines
  <2> QED BY <1>1, <2>1, <2>2 DEF Fresh
<1>5. ASSUME NEW x, x \notin Remote, Lines(session') = Lines(session) \cup {x},
             UNCHANGED <<holdBack, arrived>>
      PROVE  Fresh'
  <2>1. Lines(session)' = Lines(session) \cup {x}
    BY <1>5 DEF Lines
  <2> QED BY <1>1, <1>5, <2>1 DEF Fresh
<1>6. CASE DeadAnnounce
  <2>1. DeadNode \notin Remote
    BY MessageAssumption
  <2> QED BY <1>5, <1>6, <2>1, SentDead DEF DeadAnnounce
<1>7. CASE SenderSend
  <2>1. sender.msg \notin Remote
    BY <1>7, MessageAssumption DEF SenderSend, Typed
  <2> QED BY <1>5, <1>7, <2>1, SentSend DEF SenderSend
<1>8. CASE DeliverBegin \/ DeliverEnd \/ DeadRemove \/ MLStep \/ SenderTake \/ SenderReadState
           \/ FanOut \/ ChangeState
  BY <1>2, <1>8 DEF DeliverBegin, DeliverEnd, DeadRemove, MLStep, MLTake, MLReadState, MLHandle,
                    SenderTake, SenderReadState, FanOut, ChangeState
<1>9. CASE \E p \in Peer : DeadBegin(p)
  BY <1>2, <1>9 DEF DeadBegin
<1>10. CASE \E c \in Client : Accept(c) \/ ConnStep(c) \/ TypeLine(c) \/ RemoveClient(c)
  BY <1>2, <1>10 DEF Accept, ConnStep, AddClient, PutLine, TypeLine, RemoveClient
<1>11. CASE UNCHANGED vars
  BY <1>2, <1>11 DEF vars
<1> QED
  BY <1>3, <1>4, <1>6, <1>7, <1>8, <1>9, <1>10, <1>11 DEF Next, DeliverStep, DeadStep, SenderStep

\* A step shows, or is about to show, no more than it did, and what it handles
\* or puts on the channel of lines to show.
LEMMA DisplayedStep ==
  ASSUME Typed, [Next]_vars, NEW c \in Client
  PROVE  \/ Displayed(c)' \subseteq Displayed(c)
         \/ MLHandle /\ Displayed(c)' \subseteq Displayed(c) \cup {ml.msg}
         \/ \E d \in Client : /\ PutLine(d) /\ conn[d].at = "put2"
                              /\ Displayed(c)' \subseteq Displayed(c) \cup {<<d, conn[d].typed>>}
<1>1. /\ chat \in [{"client", "application"} -> Seq(Remote \cup Line)]
      /\ chat["application"] \in Seq(Remote \cup Line)
      /\ seen[c] \in Seq(Remote \cup Line)
  BY DEF Typed, TypeOK
<1>2. Displayed(c)' = Lines(seen'[c]) \cup Lines(chat'["application"])
  BY DEF Displayed, Lines
<1>3. ASSUME seen' = seen, chat'["application"] = chat["application"]
      PROVE  Displayed(c)' \subseteq Displayed(c)
  BY <1>2, <1>3 DEF Displayed
<1>4. CASE MLHandle
  <2>1. seen' = seen
        /\ (chat' = chat \/ chat'["application"] = Append(chat["application"], ml.msg))
    BY <1>1, <1>4 DEF MLHandle, Put, clientVars
  <2>2. Lines(chat'["application"]) \subseteq Lines(chat["application"]) \cup {ml.msg}
    BY <1>1, <2>1, LinesAppend
  <2> QED BY <1>2, <1>4, <2>1, <2>2 DEF Displayed
<1>5. CASE FanOut
  <2>1. chat'["application"] = Tail(chat["application"]) /\ chat["application"] # <<>>
    BY <1>1, <1>5 DEF FanOut
  <2>2. Lines(chat["application"]) = {Head(chat["application"])} \cup Lines(chat'["application"])
    BY <1>1, <2>1, LinesTail
  <2>3. seen'[c] = seen[c] \/ seen'[c] = Append(seen[c], Head(chat["application"]))
    BY <1>5 DEF FanOut
  <2>4. Lines(seen'[c]) \subseteq Lines(seen[c]) \cup {Head(chat["application"])}
    BY <1>1, <2>3, LinesAppend
  <2> QED BY <1>2, <2>2, <2>4 DEF Displayed
<1>6. ASSUME NEW d \in Client, PutLine(d), conn[d].at = "put2"
      PROVE  Displayed(c)' \subseteq Displayed(c) \cup {<<d, conn[d].typed>>}
  <2>1. seen' = seen
    BY <1>6, PutMoves
  <2>2. Lines(chat'["application"]) = Lines(chat["application"]) \cup {<<d, conn[d].typed>>}
    BY <1>6, SentPut
  <2> QED BY <1>2, <2>1, <2>2 DEF Displayed
<1>7. ASSUME NEW d \in Client, PutLine(d), conn[d].at # "put2"
      PROVE  Displayed(c)' \subseteq Displayed(c)
  <2>1. seen' = seen
    BY <1>7, PutMoves
  <2>2. chat'["application"] = chat["application"]
    BY <1>7, SentPut
  <2> QED BY <1>3, <2>1, <2>2
<1>8. CASE \E r \in holdBack : Deliver(r)
  BY <1>3, <1>8 DEF Deliver, clientVars
<1>9. CASE DeadAnnounce \/ MLTake \/ MLReadState \/ SenderReadState \/ SenderSend
  BY <1>3, <1>9 DEF DeadAnnounce, MLTake, MLReadState, SenderReadState, SenderSend, clientVars
<1>10. CASE SenderTake
  <2>1. seen' = seen
    BY <1>10 DEF SenderTake, clientVars
  <2> QED BY <1>3, <1>10, <2>1, SentTake
<1>11. CASE \E d \in Client : Accept(d) \/ AddClient(d) \/ RemoveClient(d)
  BY <1>3, <1>11, ClientMoves
<1>12. CASE \E d \in Client : TypeLine(d)
  BY <1>3, <1>12, TypeMoves
<1>13. CASE UNCHANGED <<session, rmMsgChan, chat, ml, sender, conn, seen, knew>>
  BY <1>3, <1>13
<1>14. \A d \in Client : PutLine(d) =>
         \/ Displayed(c)' \subseteq Displayed(c)
         \/ conn[d].at = "put2" /\ Displayed(c)' \subseteq Displayed(c) \cup {<<d, conn[d].typed>>}
  BY <1>6, <1>7
<1> HIDE DEF Displayed
<1> QED BY <1>4, <1>5, <1>8, <1>9, <1>10, <1>11, <1>12, <1>13, <1>14, StepCases

\* How a step changes the counts of a connection.
LEMMA ConnStepCases ==
  ASSUME Typed, [Next]_vars, NEW d \in Client
  PROVE  \/ conn'[d].at \in {"put1", "put2"} /\ conn'[d].typed = conn[d].typed + 1
         \/ /\ conn'[d].typed = conn[d].typed
            /\ conn'[d].at \in {"put1", "put2"} => conn[d].at \in {"put1", "put2"}
<1>1. CASE conn' = conn
  BY <1>1
<1>2. ASSUME NEW e \in Client, Accept(e) \/ AddClient(e) \/ RemoveClient(e)
      PROVE  /\ conn'[d].typed = conn[d].typed
             /\ conn'[d].at \in {"put1", "put2"} => conn[d].at \in {"put1", "put2"}
  BY <1>2, ClientMoves
<1>3. ASSUME NEW e \in Client, PutLine(e)
      PROVE  /\ conn'[d].typed = conn[d].typed
             /\ conn'[d].at \in {"put1", "put2"} => conn[d].at \in {"put1", "put2"}
  BY <1>3, PutMoves
<1>4. ASSUME NEW e \in Client, TypeLine(e)
      PROVE  \/ conn'[d].at \in {"put1", "put2"} /\ conn'[d].typed = conn[d].typed + 1
             \/ conn'[d] = conn[d]
  BY <1>4, TypeMoves
<1>5. CASE \/ \E r \in holdBack : Deliver(r)
           \/ DeadAnnounce \/ MLTake \/ MLReadState \/ MLHandle
           \/ SenderTake \/ SenderReadState \/ SenderSend \/ FanOut
  BY <1>1, <1>5 DEF Deliver, DeadAnnounce, MLTake, MLReadState, MLHandle, SenderTake,
                    SenderReadState, SenderSend, FanOut, clientVars
<1>6. CASE UNCHANGED <<session, rmMsgChan, chat, ml, sender, conn, seen, knew>>
  BY <1>1, <1>6
<1> QED BY <1>2, <1>3, <1>4, <1>5, <1>6, StepCases

\* A line that is shown was typed, and its author is past both channels with it.
LEMMA CountedStep == Typed /\ Counted /\ [Next]_vars => Counted'
<1> SUFFICES ASSUME Typed, Counted, [Next]_vars,
                    NEW c \in Client, NEW d \in Client, NEW k \in 1..MaxLines,
                    <<d, k>> \in Displayed(c)'
             PROVE  /\ k <= conn'[d].typed
                    /\ conn'[d].at \in {"put1", "put2"} => k < conn'[d].typed
  BY DEF Counted
<1>1. /\ conn[d].typed \in Nat /\ k \in Nat
      /\ <<d, k>> \in Line
  BY MessageAssumption DEF Typed, TypeOK, Line
<1>2. CASE <<d, k>> \in Displayed(c)
  <2>1. /\ k <= conn[d].typed
        /\ conn[d].at \in {"put1", "put2"} => k < conn[d].typed
    BY <1>2 DEF Counted
  <2> QED BY <1>1, <2>1, ConnStepCases
<1>3. CASE MLHandle /\ <<d, k>> = ml.msg
  BY <1>1, <1>3, MessageAssumption DEF MLHandle, Typed
<1>4. CASE PutLine(d) /\ conn[d].at = "put2" /\ k = conn[d].typed
  <2>1. conn'[d].typed = conn[d].typed /\ conn'[d].at = "read"
    BY <1>4, PutMoves
  <2> QED BY <1>1, <1>4, <2>1
<1>5. \/ <<d, k>> \in Displayed(c)
      \/ MLHandle /\ <<d, k>> = ml.msg
      \/ \E e \in Client : PutLine(e) /\ conn[e].at = "put2" /\ <<d, k>> = <<e, conn[e].typed>>
  BY DisplayedStep
<1> QED BY <1>2, <1>3, <1>4, <1>5

\* The session is only appended to.
LEMMA SessionStep ==
  ASSUME [Next]_vars
  PROVE  session' = session \/ \E z : session' = Append(session, z)
<1> USE DEF sessionVars
<1>1. CASE \/ \E r \in holdBack : Deliver(r)
           \/ DeadAnnounce \/ SenderSend
  BY <1>1 DEF Deliver, DeadAnnounce, SenderSend
<1>2. CASE MLTake \/ MLReadState \/ MLHandle \/ SenderTake \/ SenderReadState \/ FanOut
  BY <1>2 DEF MLTake, MLReadState, MLHandle, SenderTake, SenderReadState, FanOut
<1>3. CASE \E c \in Client : \/ Accept(c) \/ AddClient(c) \/ PutLine(c)
                              \/ TypeLine(c) \/ RemoveClient(c)
  BY <1>3 DEF Accept, AddClient, PutLine, TypeLine, RemoveClient
<1> QED BY <1>1, <1>2, <1>3, StepCases

\* A chat line of this server and a message of another member may come in any
\* order.
LEMMA MixedRight ==
  ASSUME NEW s, NEW x \in Line, NEW y \in Remote
  PROVE  Right(s, x, y) /\ Right(s, y, x)
BY MessageAssumption DEF Right

\* The line that a connection has in its hands comes after all that are shown.
LEMMA OwnLineLast ==
  ASSUME Typed, Counted, NEW c \in Client, conn[c].at \in {"put1", "put2"},
         NEW d \in Client, NEW x \in Displayed(d), NEW s
  PROVE  Right(s, x, <<c, conn[c].typed>>)
<1> DEFINE l == <<c, conn[c].typed>>
<1>1. l \in Line /\ x \in Remote \cup Line
  BY DEF Typed, TypeOK, Displayed, Lines
<1>2. CASE x \in Remote
  BY <1>1, <1>2, MixedRight
<1>3. CASE x \in Line
  <2>1. PICK e \in Client, k \in 1..MaxLines : x = <<e, k>>
    BY <1>3 DEF Line
  <2>2. e = c => k < conn[c].typed
    BY <2>1 DEF Counted
  <2>3. l \notin Remote /\ k \in Nat /\ conn[c].typed \in Nat
    BY <1>1, MessageAssumption DEF Typed, TypeOK
  <2> QED BY <2>1, <2>2, <2>3 DEF Right
<1> QED BY <1>1, <1>2, <1>3

\* What is shown, or on its way there, is of this server or in the session.
LEMMA ShownInSession ==
  ASSUME Typed, Shown
  PROVE  /\ InML \cup Lines(rmMsgChan) \subseteq Lines(session)
         /\ Lines(chat["application"]) \subseteq Lines(session) \cup Line
         /\ \A c \in Client : Lines(seen[c]) \subseteq Lines(session) \cup Line
<1>1. InHand \subseteq Line /\ Lines(chat["client"]) \subseteq Line
  BY DEF Typed, InHand, Lines
<1>2. Sent \subseteq Lines(session) \cup Line
  BY <1>1 DEF Sent
<1> QED BY <1>2 DEF Shown, InML

\* Every step keeps the stages of the way to the screen in order.
LEMMA OrderlyStep == Typed /\ Shown /\ Fresh /\ Counted /\ Orderly /\ [Next]_vars => Orderly'
<1> SUFFICES ASSUME Typed, Shown, Fresh, Counted, Orderly, [Next]_vars PROVE Orderly'
  OBVIOUS
<1> DEFINE
  s == session'
  app == chat["application"]
  Goal == /\ InOrder(s, rmMsgChan')
          /\ Precedes(s, InML', Lines(rmMsgChan'))
          /\ InOrder(s, chat'["application"])
          /\ Precedes(s, Lines(chat'["application"]), InML' \cup Lines(rmMsgChan'))
          /\ \A c \in Client :
               /\ InOrder(s, seen'[c])
               /\ Precedes(s, Lines(seen'[c]), Lines(chat'["application"]))
               /\ Precedes(s, Lines(seen'[c]), InML' \cup Lines(rmMsgChan'))
<1>1. SUFFICES Goal
  BY DEF Orderly, InOrder, Precedes, Right, Lines
<1>2. /\ rmMsgChan \in Seq(Remote)
      /\ chat \in [{"client", "application"} -> Seq(Remote \cup Line)]
      /\ app \in Seq(Remote \cup Line)
      /\ \A c \in Client : seen[c] \in Seq(Remote \cup Line)
      /\ ml \in [at : {"idle", "state", "handle"}, msg : Remote \cup {Nothing}]
      /\ ml.at # "idle" => ml.msg \in Remote
  BY DEF Typed, TypeOK
<1>3. \A x, y : Right(session, x, y) => Right(s, x, y)
  BY SessionStep, RightGrows
<1>4. /\ InOrder(s, rmMsgChan)
      /\ Precedes(s, InML, Lines(rmMsgChan))
      /\ InOrder(s, app)
      /\ Precedes(s, Lines(app), InML \cup Lines(rmMsgChan))
      /\ \A c \in Client :
           /\ InOrder(s, seen[c])
           /\ Precedes(s, Lines(seen[c]), Lines(app))
           /\ Precedes(s, Lines(seen[c]), InML \cup Lines(rmMsgChan))
  BY <1>3 DEF Orderly, InOrder, Precedes
<1>5. /\ InML \cup Lines(rmMsgChan) \subseteq Lines(session)
      /\ Lines(app) \subseteq Lines(session) \cup Line
      /\ \A c \in Client : Lines(seen[c]) \subseteq Lines(session) \cup Line
  BY ShownInSession
<1> HIDE DEF s, app, Goal
<1>6. ASSUME UNCHANGED <<rmMsgChan, seen>>, chat'["application"] = app, InML' = InML
      PROVE  Goal
  BY <1>4, <1>6 DEF Goal
<1>7. ASSUME NEW r \in holdBack, Deliver(r) PROVE Goal
  <2>1. /\ rmMsgChan' = Append(rmMsgChan, r)
        /\ UNCHANGED <<chat, ml, seen>>
    BY <1>7 DEF Deliver, clientVars
  <2>2. InML' = InML /\ chat'["application"] = app
    BY <2>1 DEF InML, app
  <2>3. \A x \in Lines(session) \cup Line : Right(s, x, r)
    BY <1>7, HandedUpLast DEF s
  <2>4. Lines(rmMsgChan') = Lines(rmMsgChan) \cup {r}
    BY <1>2, <2>1, LinesAppend
  <2>5. InOrder(s, rmMsgChan')
    <3>1. Precedes(s, Lines(rmMsgChan), {r})
      BY <1>5, <2>3 DEF Precedes
    <3>2. rmMsgChan \in Seq(Remote) /\ InOrder(s, rmMsgChan)
      BY <1>2, <1>4
    <3> QED BY <2>1, <3>1, <3>2, InOrderAppend
  <2>6. Precedes(s, InML, Lines(rmMsgChan'))
    BY <1>4, <1>5, <2>3, <2>4 DEF Precedes
  <2>7. ASSUME NEW A, A \subseteq Lines(session) \cup Line,
               Precedes(s, A, InML \cup Lines(rmMsgChan))
        PROVE  Precedes(s, A, InML \cup Lines(rmMsgChan'))
    BY <2>3, <2>4, <2>7 DEF Precedes
  <2>8. /\ Precedes(s, Lines(app), InML \cup Lines(rmMsgChan'))
        /\ \A c \in Client : Precedes(s, Lines(seen[c]), InML \cup Lines(rmMsgChan'))
    BY <1>4, <1>5, <2>7
  <2> QED BY <1>4, <2>1, <2>2, <2>5, <2>6, <2>8 DEF Goal
<1>8. CASE MLTake
  <2> DEFINE m == Head(rmMsgChan)
  <2>1. /\ rmMsgChan # <<>> /\ rmMsgChan' = Tail(rmMsgChan)
        /\ ml'.at = "state" /\ ml'.msg = m /\ ml.at = "idle"
        /\ UNCHANGED <<chat, seen>>
    BY <1>8 DEF MLTake, clientVars
  <2>2. InML' = {m} /\ InML = {} /\ chat'["application"] = app
    BY <2>1 DEF InML, app
  <2>3. Lines(rmMsgChan) = {m} \cup Lines(rmMsgChan')
    BY <1>2, <2>1, LinesTail
  <2>4. InOrder(s, rmMsgChan') /\ Precedes(s, {m}, Lines(rmMsgChan'))
    BY <1>2, <1>4, <2>1, InOrderTail
  <2>5. InML' \cup Lines(rmMsgChan') = InML \cup Lines(rmMsgChan)
    BY <2>2, <2>3
  <2> QED BY <1>4, <2>1, <2>2, <2>4, <2>5 DEF Goal
<1>9. CASE MLHandle
  <2>1. /\ ml.at = "handle" /\ ml'.at = "idle"
        /\ UNCHANGED <<rmMsgChan, seen>>
    BY <1>9 DEF MLHandle, clientVars
  <2>2. InML' = {} /\ InML = {ml.msg}
    BY <2>1 DEF InML
  <2>3. chat'["application"] = app \/ chat'["application"] = Append(app, ml.msg)
    BY <1>2, <1>9 DEF MLHandle, Put, app
  <2>4. InOrder(s, chat'["application"])
    <3>1. Precedes(s, Lines(app), {ml.msg})
      BY <1>4, <2>2 DEF Precedes
    <3>2. app \in Seq(Remote \cup Line) /\ InOrder(s, app)
      BY <1>2, <1>4
    <3>3. InOrder(s, Append(app, ml.msg))
      BY <3>1, <3>2, InOrderAppend
    <3> QED BY <2>3, <3>2, <3>3
  <2>5. Lines(chat'["application"]) \subseteq Lines(app) \cup InML
    BY <1>2, <2>2, <2>3, LinesAppend
  <2>6. Precedes(s, InML', Lines(rmMsgChan'))
    BY <2>2 DEF Precedes
  <2>7. Precedes(s, Lines(chat'["application"]), InML' \cup Lines(rmMsgChan'))
    BY <1>4, <2>1, <2>2, <2>5 DEF Precedes
  <2>8. ASSUME NEW c \in Client
        PROVE  /\ Precedes(s, Lines(seen'[c]), Lines(chat'["application"]))
               /\ Precedes(s, Lines(seen'[c]), InML' \cup Lines(rmMsgChan'))
    BY <1>4, <2>1, <2>2, <2>5 DEF Precedes
  <2> QED BY <1>4, <2>1, <2>4, <2>6, <2>7, <2>8 DEF Goal
<1>10. CASE FanOut
  <2> DEFINE m == Head(app)
  <2>1. /\ app # <<>> /\ chat'["application"] = Tail(app)
        /\ UNCHANGED <<rmMsgChan, ml>>
    BY <1>2, <1>10 DEF FanOut, app
  <2>2. InML' = InML
    BY <2>1 DEF InML
  <2>3. Lines(app) = {m} \cup Lines(chat'["application"])
    BY <1>2, <2>1, LinesTail
  <2>4. InOrder(s, chat'["application"]) /\ Precedes(s, {m}, Lines(chat'["application"]))
    BY <1>2, <1>4, <2>1, InOrderTail
  <2>5. Precedes(s, Lines(chat'["application"]), InML' \cup Lines(rmMsgChan'))
    BY <1>4, <2>1, <2>2, <2>3 DEF Precedes
  <2>6. ASSUME NEW c \in Client
        PROVE  /\ InOrder(s, seen'[c])
               /\ Precedes(s, Lines(seen'[c]), Lines(chat'["application"]))
               /\ Precedes(s, Lines(seen'[c]), InML' \cup Lines(rmMsgChan'))
    <3>1. seen'[c] = seen[c] \/ seen'[c] = Append(seen[c], m)
      BY <1>10 DEF FanOut, app
    <3>2. Lines(seen'[c]) \subseteq Lines(seen[c]) \cup {m}
      BY <1>2, <3>1, LinesAppend
    <3>3. InOrder(s, seen'[c])
      <4>1. Precedes(s, Lines(seen[c]), {m})
        BY <1>4, <2>3 DEF Precedes
      <4>2. seen[c] \in Seq(Remote \cup Line) /\ InOrder(s, seen[c])
        BY <1>2, <1>4
      <4>3. InOrder(s, Append(seen[c], m))
        BY <4>1, <4>2, InOrderAppend
      <4> QED BY <3>1, <4>2, <4>3
    <3>4. Precedes(s, Lines(seen'[c]), Lines(chat'["application"]))
      BY <1>4, <2>3, <2>4, <3>2 DEF Precedes
    <3>5. Precedes(s, Lines(seen'[c]), InML' \cup Lines(rmMsgChan'))
      BY <1>4, <2>1, <2>2, <2>3, <3>2 DEF Precedes
    <3> QED BY <3>3, <3>4, <3>5
  <2>7. InOrder(s, rmMsgChan') /\ Precedes(s, InML', Lines(rmMsgChan'))
    BY <1>4, <2>1, <2>2
  <2> QED BY <2>4, <2>5, <2>6, <2>7 DEF Goal
<1>11. ASSUME NEW c \in Client, PutLine(c), conn[c].at = "put2" PROVE Goal
  <2> DEFINE l == <<c, conn[c].typed>>
  <2>1. /\ chat'["application"] = Append(app, l)
        /\ UNCHANGED <<rmMsgChan, ml, seen>>
        /\ l \in Line
    <3>1. l \in Line
      BY <1>11 DEF Typed
    <3>2. chat' = [chat EXCEPT !["application"] = Append(app, l)]
      BY <1>11 DEF PutLine, PutOrder, Put, app
    <3>3. UNCHANGED <<rmMsgChan, ml, seen>>
      BY <1>11, PutMoves
    <3> QED BY <1>2, <3>1, <3>2, <3>3
  <2>2. InML' = InML /\ InML \cup Lines(rmMsgChan) \subseteq Remote
    BY <1>2, <2>1 DEF InML, Lines
  <2>3. Lines(chat'["application"]) = Lines(app) \cup {l}
    BY <1>2, <2>1, LinesAppend
  <2>4. \A d \in Client : \A x \in Lines(seen[d]) \cup Lines(app) : Right(s, x, l)
    BY <1>11, OwnLineLast DEF Displayed, app
  <2>5. InOrder(s, chat'["application"])
    <3>1. Precedes(s, Lines(app), {l})
      BY <2>4 DEF Precedes
    <3>2. app \in Seq(Remote \cup Line) /\ InOrder(s, app)
      BY <1>2, <1>4
    <3>3. InOrder(s, Append(app, l))
      BY <3>1, <3>2, InOrderAppend
    <3> QED BY <2>1, <3>3
  <2>6. \A y \in InML \cup Lines(rmMsgChan) : Right(s, l, y)
    BY <2>1, <2>2, MixedRight
  <2>7. Precedes(s, Lines(chat'["application"]), InML' \cup Lines(rmMsgChan'))
    BY <1>4, <2>1, <2>2, <2>3, <2>6 DEF Precedes
  <2>8. ASSUME NEW d \in Client
        PROVE  Precedes(s, Lines(seen'[d]), Lines(chat'["application"]))
    BY <1>4, <2>1, <2>3, <2>4 DEF Precedes
  <2> QED BY <1>4, <2>1, <2>2, <2>5, <2>7, <2>8 DEF Goal
<1>12. ASSUME NEW c \in Client, PutLine(c), conn[c].at # "put2" PROVE Goal
  <2>1. UNCHANGED <<rmMsgChan, seen, ml>>
    BY <1>12, PutMoves
  <2>2. chat'["application"] = app
    BY <1>12, SentPut DEF app
  <2> QED BY <1>6, <2>1, <2>2 DEF InML
<1>13. CASE MLReadState
  BY <1>2, <1>6, <1>13 DEF MLReadState, InML, app, clientVars
<1>14. CASE DeadAnnounce \/ SenderReadState \/ SenderSend
  BY <1>6, <1>14 DEF DeadAnnounce, SenderReadState, SenderSend, InML, app, clientVars
<1>15. CASE SenderTake
  <2>1. UNCHANGED <<rmMsgChan, seen, ml>>
    BY <1>15 DEF SenderTake, clientVars
  <2> QED BY <1>6, <1>15, <2>1, SentTake DEF InML, app
<1>16. CASE \E c \in Client : Accept(c) \/ AddClient(c) \/ RemoveClient(c)
  BY <1>6, <1>16, ClientMoves DEF InML, app
<1>17. CASE \E c \in Client : TypeLine(c)
  BY <1>6, <1>17, TypeMoves DEF InML, app
<1>18. CASE UNCHANGED <<session, rmMsgChan, chat, ml, sender, conn, seen, knew>>
  BY <1>6, <1>18 DEF InML, app
<1> QED
  BY <1>7, <1>8, <1>9, <1>10, <1>11, <1>12, <1>13, <1>14, <1>15, <1>16, <1>17, <1>18, StepCases

(* A client is shown each line once, its author's lines in the order they  *)
(* were typed and those of other members in the order of the session, for  *)
(* any number of clients, lines and messages and any capacities: there is  *)
(* one goroutine per connection, and one at the end of m.msgChan, and a    *)
(* message enters the hold-back queue once.                                *)
THEOREM ShownInOrderCorrect == Spec => []ShownInOrder
<1> DEFINE J == Typed /\ Numbered /\ Shown /\ Fresh /\ Counted /\ Orderly
<1>1. Init => J
  <2> SUFFICES ASSUME Init PROVE J
    OBVIOUS
  <2>1. Typed
    BY TypedInit
  <2>2. Sent = {} /\ Lines(rmMsgChan) = {} /\ Lines(chat["application"]) = {} /\ Lines(session) = {}
        /\ \A c \in Client : Lines(seen[c]) = {} /\ conn[c].at = "new"
    BY DEF Init, Sent, InHand, Lines
  <2>3. /\ ml.at = "idle" /\ holdBack = {} /\ rmMsgChan = <<>> /\ chat["application"] = <<>>
        /\ \A c \in Client : seen[c] = <<>>
    BY DEF Init
  <2>4. Numbered /\ Shown /\ Fresh /\ Counted
    BY <2>2, <2>3 DEF Numbered, Shown, Fresh, Counted, Displayed
  <2>5. Orderly
    BY <2>2, <2>3 DEF Orderly, InOrder, Precedes, InML
  <2> QED BY <2>1, <2>4, <2>5
<1>2. J /\ [Next]_vars => J'
  BY TypedStep, NumberedStep, ShownStep, FreshStep, CountedStep, OrderlyStep
<1>3. J => ShownInOrder
  BY DEF Orderly, InOrder, Right, ShownInOrder
<1> QED BY <1>1, <1>2, <1>3, PTL DEF Spec
=============================================================================
