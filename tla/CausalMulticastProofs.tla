------------------------- MODULE CausalMulticastProofs -------------------------
(***************************************************************************)
(* Theorems about CausalMulticast for any group, number of messages and    *)
(* number of transmissions.                                                *)
(***************************************************************************)
EXTENDS CausalMulticast, TLAPS

\* The types, with the lengths that go together.
Typed ==
  /\ TypeOK
  /\ \A n \in Member :
       /\ Len(past[n]) = Len(log[n])
       /\ Len(bufferAck[n]) = Len(log[n])
       /\ Len(resend[n]) = Len(log[n])
       /\ \A k \in DOMAIN resend[n] : resend[n][k].at = "write" => resend[n][k].left > 0

\* What is on its way or handed up was sent, by another member.
Written ==
  /\ \A id \in wire : id[2] \in DOMAIN log[id[1]]
  /\ \A n \in Member : \A id \in spawned[n] \cup holdBackQueue[n] \cup Ids(delivered[n]) :
       id[1] # n /\ id[2] \in DOMAIN log[id[1]]

\* The messages a vector clock counts.
Below(clock) == {id \in Id : id[2] <= clock[id[1]]}

\* A member's clock counts what it sent and handed up, and nothing else.
Counted ==
  \A n \in Member : /\ vectorClock[n][n] = Len(log[n])
                     /\ Below(vectorClock[n]) = SentBy(n) \cup Ids(delivered[n])

\* A message's clock counts the message and what its sender knew.
Stamped ==
  \A n \in Member : \A k \in DOMAIN log[n] :
    /\ log[n][k].clock[n] = k
    /\ past[n][k] = Below(log[n][k].clock) \ {<<n, k>>}

-----------------------------------------------------------------------------
\* A sequence with one entry replaced.
LEMMA ReplaceEntry ==
  ASSUME NEW S, NEW q \in Seq(S), NEW i \in DOMAIN q, NEW e \in S
  PROVE  /\ [q EXCEPT ![i] = e] \in Seq(S)
         /\ Len([q EXCEPT ![i] = e]) = Len(q)
         /\ DOMAIN [q EXCEPT ![i] = e] = DOMAIN q
OBVIOUS

\* A sequence with one more entry.
LEMMA OneMore ==
  ASSUME NEW S, NEW q \in Seq(S), NEW e \in S
  PROVE  /\ Append(q, e) \in Seq(S)
         /\ Len(q) \in Nat /\ Len(Append(q, e)) = Len(q) + 1
         /\ DOMAIN q = 1..Len(q) /\ DOMAIN Append(q, e) = DOMAIN q \cup {Len(q) + 1}
         /\ \A k \in DOMAIN q : Append(q, e)[k] = q[k]
         /\ Append(q, e)[Len(q) + 1] = e
OBVIOUS

\* A goroutine with another position.
LEMMA OtherPosition ==
  ASSUME NEW g \in Goroutine, NEW at
  PROVE  [g EXCEPT !.at = at] = [at |-> at, left |-> g.left]
BY DEF Goroutine

\* A sequence with every entry replaced.
LEMMA ReplaceAll ==
  ASSUME NEW S, NEW T, NEW q \in Seq(S), NEW f \in [DOMAIN q -> T]
  PROVE  f \in Seq(T) /\ Len(f) = Len(q)
OBVIOUS

\* The entries of a sequence of messages are messages.
LEMMA IdsTyped == ASSUME NEW q \in Seq(Id) PROVE Ids(q) \subseteq Id
<1>1. \A i \in DOMAIN q : q[i] \in Id
  OBVIOUS
<1> QED BY <1>1 DEF Ids

\* The entries of one message.
LEMMA Entries ==
  ASSUME Typed, NEW n \in Member, NEW k \in DOMAIN log[n]
  PROVE  /\ k \in 1..Len(log[n]) /\ k \in Nat \ {0} /\ <<n, k>> \in Id
         /\ k \in DOMAIN past[n] /\ k \in DOMAIN bufferAck[n] /\ k \in DOMAIN resend[n]
         /\ log[n][k] \in Message
         /\ past[n][k] \in SUBSET Id
         /\ bufferAck[n][k] \in SUBSET Member
         /\ resend[n][k] \in Goroutine
<1>1. /\ log[n] \in Seq(Message) /\ bufferAck[n] \in Seq(SUBSET Member)
      /\ resend[n] \in Seq(Goroutine) /\ past[n] \in Seq(SUBSET Id)
      /\ Len(past[n]) = Len(log[n]) /\ Len(bufferAck[n]) = Len(log[n])
      /\ Len(resend[n]) = Len(log[n])
  BY DEF Typed, TypeOK
<1>2. k \in 1..Len(log[n]) /\ Len(log[n]) \in Nat
  BY <1>1
<1>3. <<n, k>> \in Id
  BY <1>2 DEF Id
<1> QED BY <1>1, <1>2, <1>3

\* A retransmitting goroutine that goes to another point.
LEMMA GotoKeeps ==
  ASSUME Typed, NEW n \in Member, NEW k \in DOMAIN log[n],
         NEW g \in Goroutine, g.at = "write" => g.left > 0,
         resend' = [resend EXCEPT ![n] = [resend[n] EXCEPT ![k] = g]]
  PROVE  /\ resend' \in [Member -> Seq(Goroutine)]
         /\ \A m \in Member : /\ Len(resend'[m]) = Len(resend[m])
                              /\ \A j \in DOMAIN resend'[m] :
                                   resend'[m][j].at = "write" => resend'[m][j].left > 0
<1>1. k \in DOMAIN resend[n] /\ resend[n] \in Seq(Goroutine)
  BY DEF Typed, TypeOK
<1>2. /\ [resend[n] EXCEPT ![k] = g] \in Seq(Goroutine)
      /\ Len([resend[n] EXCEPT ![k] = g]) = Len(resend[n])
      /\ DOMAIN [resend[n] EXCEPT ![k] = g] = DOMAIN resend[n]
  BY <1>1, ReplaceEntry
<1> QED BY <1>1, <1>2 DEF Typed, TypeOK

\* A node that is removed.
LEMMA RemoveKeeps ==
  ASSUME Typed, NEW n \in Member, NEW d, RemoveDeadNode(n, d)
  PROVE  /\ nodeIds' \in [Member -> SUBSET Member]
         /\ bufferAck' \in [Member -> Seq(SUBSET Member)]
         /\ \A m \in Member : Len(bufferAck'[m]) = Len(bufferAck[m])
<1> DEFINE b == [k \in DOMAIN bufferAck[n] |-> bufferAck[n][k] \ {d}]
<1>1. bufferAck[n] \in Seq(SUBSET Member)
  BY DEF Typed, TypeOK
<1>2. b \in [DOMAIN bufferAck[n] -> SUBSET Member]
  BY <1>1
<1>3. b \in Seq(SUBSET Member) /\ Len(b) = Len(bufferAck[n])
  BY <1>1, <1>2, ReplaceAll
<1>4. bufferAck' = [bufferAck EXCEPT ![n] = b]
  BY DEF RemoveDeadNode
<1> HIDE DEF b
<1> QED BY <1>3, <1>4 DEF Typed, TypeOK, RemoveDeadNode
\* A message that is sent.
LEMMA MulticastKeeps ==
  ASSUME Typed, NEW n \in Member, NEW dead \in Member \cup {Nobody}, Multicast(n, dead)
  PROVE  /\ vectorClock' \in [Member -> [Member -> Nat]]
         /\ vectorClock'[n] = [vectorClock[n] EXCEPT ![n] = @ + 1]
         /\ log' \in [Member -> Seq(Message)]
         /\ log' = [log EXCEPT ![n] = Append(@, [clock |-> vectorClock'[n], dead |-> dead])]
         /\ bufferAck' \in [Member -> Seq(SUBSET Member)]
         /\ resend' \in [Member -> Seq(Goroutine)]
         /\ past' \in [Member -> Seq(SUBSET Id)]
         /\ past' = [past EXCEPT ![n] = Append(@, SentBy(n) \cup Ids(delivered[n]))]
         /\ \A m \in Member :
              /\ Len(past'[m]) = Len(log'[m])
              /\ Len(bufferAck'[m]) = Len(log'[m])
              /\ Len(resend'[m]) = Len(log'[m])
              /\ \A k \in DOMAIN resend'[m] : resend'[m][k].at = "write" => resend'[m][k].left > 0
<1> USE BoundAssumption, MemberAssumption DEF Typed, TypeOK
<1> DEFINE m == [clock |-> vectorClock'[n], dead |-> dead]
           g == [at |-> "select", left |-> MaxWrites]
           known == SentBy(n) \cup Ids(delivered[n])
<1>1. vectorClock' = [vectorClock EXCEPT ![n] = [vectorClock[n] EXCEPT ![n] = vectorClock[n][n] + 1]]
  BY DEF Multicast
<1>2. vectorClock' \in [Member -> [Member -> Nat]] /\ vectorClock'[n] \in [Member -> Nat]
      /\ vectorClock'[n] = [vectorClock[n] EXCEPT ![n] = vectorClock[n][n] + 1]
  BY <1>1
<1>3. m \in Message
  BY <1>2 DEF Message
<1>4. g \in Goroutine
  BY DEF Goroutine
<1>5. LastPeer(n) \in SUBSET Member
  BY DEF LastPeer
<1>6. known \in SUBSET Id
  <2>1. delivered[n] \in Seq(Id)
    OBVIOUS
  <2>2. Ids(delivered[n]) \subseteq Id
    BY <2>1, IdsTyped
  <2>3. SentBy(n) \subseteq Id
    <3>1. ASSUME NEW k \in DOMAIN log[n] PROVE <<n, k>> \in Id
      BY Entries
    <3> QED BY <3>1 DEF SentBy
  <2> QED BY <2>2, <2>3
<1>7. /\ log' = [log EXCEPT ![n] = Append(log[n], m)]
      /\ bufferAck' = [bufferAck EXCEPT ![n] = Append(bufferAck[n], LastPeer(n))]
      /\ resend' = [resend EXCEPT ![n] = Append(resend[n], g)]
      /\ past' = [past EXCEPT ![n] = Append(past[n], known)]
  BY DEF Multicast
<1> HIDE DEF m, g, known
<1>0. /\ log[n] \in Seq(Message) /\ bufferAck[n] \in Seq(SUBSET Member)
      /\ past[n] \in Seq(SUBSET Id) /\ resend[n] \in Seq(Goroutine)
      /\ \A k \in DOMAIN resend[n] : resend[n][k].at = "write" => resend[n][k].left > 0
  OBVIOUS
<1> HIDE BoundAssumption, MemberAssumption DEF Typed, TypeOK
<1>8. /\ Append(log[n], m) \in Seq(Message) /\ Len(Append(log[n], m)) = Len(log[n]) + 1
      /\ Append(bufferAck[n], LastPeer(n)) \in Seq(SUBSET Member)
      /\ Len(Append(bufferAck[n], LastPeer(n))) = Len(bufferAck[n]) + 1
      /\ Append(past[n], known) \in Seq(SUBSET Id) /\ Len(Append(past[n], known)) = Len(past[n]) + 1
  <2>1. Append(log[n], m) \in Seq(Message) /\ Len(Append(log[n], m)) = Len(log[n]) + 1
    BY <1>0, <1>3
  <2>2. /\ Append(bufferAck[n], LastPeer(n)) \in Seq(SUBSET Member)
        /\ Len(Append(bufferAck[n], LastPeer(n))) = Len(bufferAck[n]) + 1
    BY <1>0, <1>5
  <2>3. Append(past[n], known) \in Seq(SUBSET Id) /\ Len(Append(past[n], known)) = Len(past[n]) + 1
    BY <1>0, <1>6
  <2> QED BY <2>1, <2>2, <2>3
<1>9. /\ Append(resend[n], g) \in Seq(Goroutine) /\ Len(Append(resend[n], g)) = Len(resend[n]) + 1
      /\ \A k \in DOMAIN Append(resend[n], g) :
           Append(resend[n], g)[k].at = "write" => Append(resend[n], g)[k].left > 0
  <2>1. g.at # "write"
    BY DEF g
  <2>3. /\ DOMAIN Append(resend[n], g) = DOMAIN resend[n] \cup {Len(resend[n]) + 1}
        /\ \A k \in DOMAIN resend[n] : Append(resend[n], g)[k] = resend[n][k]
        /\ Append(resend[n], g)[Len(resend[n]) + 1] = g
        /\ Append(resend[n], g) \in Seq(Goroutine)
        /\ Len(Append(resend[n], g)) = Len(resend[n]) + 1
    BY <1>0, <1>4
  <2> QED BY <1>0, <2>1, <2>3
<1>10. log' \in [Member -> Seq(Message)] /\ bufferAck' \in [Member -> Seq(SUBSET Member)]
       /\ resend' \in [Member -> Seq(Goroutine)] /\ past' \in [Member -> Seq(SUBSET Id)]
  BY <1>7, <1>8, <1>9 DEF Typed, TypeOK
<1>11. ASSUME NEW x \in Member
       PROVE  /\ Len(past'[x]) = Len(log'[x])
              /\ Len(bufferAck'[x]) = Len(log'[x])
              /\ Len(resend'[x]) = Len(log'[x])
              /\ \A k \in DOMAIN resend'[x] : resend'[x][k].at = "write" => resend'[x][k].left > 0
  BY <1>7, <1>8, <1>9 DEF Typed, TypeOK
<1> QED BY <1>2, <1>7, <1>10, <1>11 DEF m, known

\* The initial state is well typed.
LEMMA TypedInit == Init => Typed
<1> SUFFICES ASSUME Init PROVE Typed
  OBVIOUS
<1>1. TypeOK
  BY MemberAssumption DEF Init, TypeOK
<1> QED BY <1>1 DEF Init, Typed

\* Every step keeps the types and the lengths.
LEMMA TypedStep == Typed /\ [Next]_vars => Typed'
<1> SUFFICES ASSUME Typed, [Next]_vars PROVE Typed'
  OBVIOUS
<1> USE BoundAssumption, MemberAssumption DEF Typed, TypeOK, sessionVars, queueVars
<1>1. ASSUME NEW n \in Member, SendMessage(n) PROVE Typed'
  <2>1. Multicast(n, Nobody)
    BY <1>1 DEF SendMessage
  <2>2. UNCHANGED <<nodeIds, queueVars, announce, wire, acks, mode, delivered>>
    BY <1>1, <2>1 DEF SendMessage, Multicast
  <2> QED BY <2>1, <2>2, MulticastKeeps
<1>2. ASSUME NEW n \in Member, NEW k \in DOMAIN log[n], ResendSelect(n, k) PROVE Typed'
  <2> DEFINE at == IF resend[n][k].left = 0 \/ mode[n] = "closed" THEN "stopped" ELSE "write"
             g == [at |-> at, left |-> resend[n][k].left]
  <2>1. resend[n][k] \in Goroutine
    BY Entries
  <2>2. g \in Goroutine /\ (g.at = "write" => g.left > 0)
    BY <2>1 DEF Goroutine
  <2>3. resend' = [resend EXCEPT ![n] = [resend[n] EXCEPT ![k] = g]]
    <3>2. [resend[n][k] EXCEPT !.at = at] = g
      BY <2>1, OtherPosition
    <3> QED BY <1>2, <3>2 DEF ResendSelect, Goto
  <2> HIDE DEF g
  <2> QED BY <1>2, <2>2, <2>3, GotoKeeps DEF ResendSelect
<1>3. ASSUME NEW n \in Member, NEW k \in DOMAIN log[n], ResendWrite(n, k) PROVE Typed'
  <2>1. CASE mode[n] = "open"
    <3> DEFINE g == [at |-> "sleep", left |-> resend[n][k].left - 1]
    <3>1. resend[n][k] \in Goroutine /\ resend[n][k].left > 0
      BY <1>3, Entries DEF ResendWrite
    <3>2. g \in Goroutine /\ g.at # "write"
      BY <3>1 DEF Goroutine
    <3>3. resend' = [resend EXCEPT ![n] = [resend[n] EXCEPT ![k] = g]]
      BY <1>3, <2>1 DEF ResendWrite
    <3>4. wire' \subseteq Id
      <4>1. <<n, k>> \in Id
        BY Entries
      <4>2. wire' = wire \cup {<<n, k>>}
        BY <1>3, <2>1 DEF ResendWrite
      <4> QED BY <4>1, <4>2
    <3> HIDE DEF g
    <3> QED BY <1>3, <2>1, <3>2, <3>3, <3>4, GotoKeeps DEF ResendWrite
  <2>2. CASE mode[n] # "open"
    BY <1>3, <2>2 DEF ResendWrite
  <2> QED BY <2>1, <2>2
<1>4. ASSUME NEW n \in Member, NEW k \in DOMAIN log[n], ResendCheck(n, k) PROVE Typed'
  <2> DEFINE at == IF bufferAck[n][k] # {} THEN "select" ELSE "acknowledged"
             g == [at |-> at, left |-> resend[n][k].left]
  <2>1. resend[n][k] \in Goroutine
    BY Entries
  <2>2. g \in Goroutine /\ g.at # "write"
    BY <2>1 DEF Goroutine
  <2>3. resend' = [resend EXCEPT ![n] = [resend[n] EXCEPT ![k] = g]]
    <3>2. [resend[n][k] EXCEPT !.at = at] = g
      BY <2>1, OtherPosition
    <3> QED BY <1>4, <3>2 DEF ResendCheck, Goto
  <2> HIDE DEF g
  <2> QED BY <1>4, <2>2, <2>3, GotoKeeps DEF ResendCheck
<1>5. ASSUME NEW n \in Member, DeliverBegin(n) PROVE Typed'
  BY <1>5 DEF DeliverBegin
<1>6. ASSUME NEW n \in Member, DeliverEnd(n) PROVE Typed'
  BY <1>6 DEF DeliverEnd
<1>7. ASSUME NEW n \in Member, NEW id \in holdBackQueue[n], Discard(n, id) PROVE Typed'
  BY <1>7 DEF Discard
<1>8. ASSUME NEW n \in Member, NEW id \in holdBackQueue[n], Deliver(n, id) PROVE Typed'
  <2>1. id \in Id /\ id[1] \in Member
    BY DEF Id
  <2>2. vectorClock' \in [Member -> [Member -> Nat]]
    <3>1. vectorClock[n] \in [Member -> Nat] /\ vectorClock \in [Member -> [Member -> Nat]]
      OBVIOUS
    <3>2. vectorClock' = [vectorClock EXCEPT ![n] =
                            [vectorClock[n] EXCEPT ![id[1]] = vectorClock[n][id[1]] + 1]]
      BY <1>8 DEF Deliver
    <3> DEFINE c == [vectorClock[n] EXCEPT ![id[1]] = vectorClock[n][id[1]] + 1]
    <3>4. c \in [Member -> Nat]
      <4> HIDE BoundAssumption, MemberAssumption DEF Typed, TypeOK
      <4>1. vectorClock[n][id[1]] + 1 \in Nat
        BY <2>1, <3>1
      <4> QED BY <2>1, <3>1, <4>1
    <3>5. vectorClock' = [vectorClock EXCEPT ![n] = c]
      BY <3>2
    <3> HIDE BoundAssumption, MemberAssumption DEF c, Typed, TypeOK
    <3> QED BY <3>1, <3>4, <3>5
  <2>3. delivered' \in [Member -> Seq(Id)]
    BY <1>8, <2>1 DEF Deliver
  <2> QED BY <1>8, <2>2, <2>3 DEF Deliver
<1>9. ASSUME NEW n \in Member, Shutdown(n) PROVE Typed'
  BY <1>9 DEF Shutdown
<1>10. ASSUME NEW n \in Member, NEW p \in Member, NEW k \in DOMAIN log[n], OnAck(n, p, k)
       PROVE  Typed'
  <2> DEFINE b == bufferAck[n][k] \ {p}
  <2>1. bufferAck[n] \in Seq(SUBSET Member) /\ k \in DOMAIN bufferAck[n] /\ b \in SUBSET Member
    BY Entries
  <2>2. bufferAck' = [bufferAck EXCEPT ![n] = [bufferAck[n] EXCEPT ![k] = b]]
    BY <1>10 DEF OnAck
  <2> HIDE DEF b
  <2>3. [bufferAck[n] EXCEPT ![k] = b] \in Seq(SUBSET Member)
        /\ Len([bufferAck[n] EXCEPT ![k] = b]) = Len(bufferAck[n])
    <3> HIDE BoundAssumption, MemberAssumption DEF Typed, TypeOK
    <3> QED BY <2>1, ReplaceEntry
  <2>4. bufferAck' \in [Member -> Seq(SUBSET Member)]
        /\ \A m \in Member : Len(bufferAck'[m]) = Len(bufferAck[m])
    BY <2>2, <2>3
  <2> QED BY <1>10, <2>4 DEF OnAck
<1>11. ASSUME NEW n \in Member, NEW id \in wire, Read(n, id) PROVE Typed'
  <2>1. acks' = acks \cup {<<n, id>>} /\ spawned' = [spawned EXCEPT ![n] = @ \cup {id}]
    BY <1>11 DEF Read
  <2>3. acks' \subseteq Member \X Id /\ spawned' \in [Member -> SUBSET Id]
    BY <2>1
  <2>2. /\ nodeIds' \in [Member -> SUBSET Member]
        /\ bufferAck' \in [Member -> Seq(SUBSET Member)]
        /\ \A m \in Member : Len(bufferAck'[m]) = Len(bufferAck[m])
    <3>1. CASE UNCHANGED <<nodeIds, bufferAck>>
      BY <3>1
    <3>2. CASE RemoveDeadNode(n, log[id[1]][id[2]].dead)
      BY <3>2, RemoveKeeps
    <3> QED BY <1>11, <3>1, <3>2 DEF Read
  <2> QED BY <1>11, <2>2, <2>3 DEF Read
<1>12. ASSUME NEW n \in Member, NEW id \in spawned[n], HoldBack(n, id) PROVE Typed'
  BY <1>12 DEF HoldBack
<1>13. ASSUME NEW d \in Mortal, HandleDeadServer(d) PROVE Typed'
  BY <1>13, RemoveKeeps DEF HandleDeadServer
<1>14. ASSUME NEW d \in Mortal, AnnounceDeath(d) PROVE Typed'
  <2>1. Multicast(Leader, d) /\ d \in Member
    BY <1>14 DEF AnnounceDeath
  <2>2. UNCHANGED <<nodeIds, queueVars, wire, acks, mode, delivered>> /\ announce' = {}
    BY <1>14, <2>1 DEF AnnounceDeath, Multicast
  <2> QED BY <2>1, <2>2, MulticastKeeps
<1>15. CASE UNCHANGED vars
  BY <1>15 DEF vars
<1> QED
  BY <1>1, <1>2, <1>3, <1>4, <1>5, <1>6, <1>7, <1>8, <1>9, <1>10, <1>11, <1>12, <1>13, <1>14, <1>15
     DEF Next, ResendStep, DeliverStep

\* The types hold in every state, for any group and any number of messages.
THEOREM TypeCorrect == Spec => []TypeOK
<1>1. Spec => []Typed
  BY TypedInit, TypedStep, PTL DEF Spec
<1>2. Typed => TypeOK
  BY DEF Typed
<1> QED BY <1>1, <1>2, PTL
-----------------------------------------------------------------------------
\* What a message that is sent adds to the logs.
LEMMA LogGrows ==
  ASSUME Typed, NEW n \in Member, NEW dead \in Member \cup {Nobody}, Multicast(n, dead)
  PROVE  /\ Len(log[n]) \in Nat /\ Len(log'[n]) = Len(log[n]) + 1
         /\ DOMAIN log'[n] = DOMAIN log[n] \cup {Len(log[n]) + 1}
         /\ log'[n][Len(log[n]) + 1].clock = vectorClock'[n]
         /\ past'[n][Len(log[n]) + 1] = SentBy(n) \cup Ids(delivered[n])
         /\ \A m \in Member : \A k \in DOMAIN log[m] :
              k \in DOMAIN log'[m] /\ log'[m][k] = log[m][k] /\ past'[m][k] = past[m][k]
         /\ \A m \in Member \ {n} : log'[m] = log[m] /\ past'[m] = past[m]
<1> DEFINE m == [clock |-> vectorClock'[n], dead |-> dead]
           known == SentBy(n) \cup Ids(delivered[n])
<1>1. /\ log[n] \in Seq(Message) /\ past[n] \in Seq(SUBSET Id) /\ Len(past[n]) = Len(log[n])
      /\ DOMAIN log = Member /\ DOMAIN past = Member
  BY DEF Typed, TypeOK
<1>2. log' = [log EXCEPT ![n] = Append(log[n], m)] /\ past' = [past EXCEPT ![n] = Append(past[n], known)]
  BY DEF Multicast
<1>3. m.clock = vectorClock'[n]
  OBVIOUS
<1> HIDE DEF m, known
<1>4. /\ Len(log[n]) \in Nat /\ Len(Append(log[n], m)) = Len(log[n]) + 1
      /\ DOMAIN log[n] = 1..Len(log[n]) /\ DOMAIN past[n] = 1..Len(log[n])
      /\ DOMAIN Append(log[n], m) = 1..(Len(log[n]) + 1)
      /\ \A k \in 1..Len(log[n]) : /\ Append(log[n], m)[k] = log[n][k]
                                   /\ Append(past[n], known)[k] = past[n][k]
      /\ Append(log[n], m)[Len(log[n]) + 1] = m
      /\ Append(past[n], known)[Len(log[n]) + 1] = known
  BY <1>1
<1>5. 1..(Len(log[n]) + 1) = 1..Len(log[n]) \cup {Len(log[n]) + 1}
  BY <1>4
<1>6. /\ log'[n] = Append(log[n], m) /\ past'[n] = Append(past[n], known)
      /\ \A x \in Member \ {n} : log'[x] = log[x] /\ past'[x] = past[x]
  BY <1>1, <1>2
<1>7. ASSUME NEW x \in Member, NEW k \in DOMAIN log[x]
      PROVE  k \in DOMAIN log'[x] /\ log'[x][k] = log[x][k] /\ past'[x][k] = past[x][k]
  <2>1. CASE x = n
    BY <1>4, <1>5, <1>6, <2>1
  <2>2. CASE x # n
    BY <1>6, <2>2
  <2> QED BY <2>1, <2>2
<1>8. DOMAIN log'[n] = DOMAIN log[n] \cup {Len(log[n]) + 1}
  BY <1>4, <1>5, <1>6
<1> QED BY <1>3, <1>4, <1>6, <1>7, <1>8 DEF known

\* A step sends a message, hands one up, or does not touch the clocks.
LEMMA StepKinds ==
  ASSUME [Next]_vars
  PROVE  \/ \E n \in Member, dead \in Member \cup {Nobody} : Multicast(n, dead)
         \/ \E n \in Member : \E id \in holdBackQueue[n] : Deliver(n, id)
         \/ UNCHANGED <<log, vectorClock, past, delivered>>
<1> USE MemberAssumption, BoundAssumption DEF sessionVars, queueVars
<1>1. CASE UNCHANGED vars
  BY <1>1 DEF vars
<1>2. ASSUME NEW n \in Member, SendMessage(n) \/ ResendStep(n) \/ DeliverStep(n) \/ Shutdown(n)
      PROVE  \/ Multicast(n, Nobody)
             \/ \E id \in holdBackQueue[n] : Deliver(n, id)
             \/ UNCHANGED <<log, vectorClock, past, delivered>>
  BY <1>2 DEF SendMessage, ResendStep, ResendSelect, ResendWrite, ResendCheck, DeliverStep,
              DeliverBegin, DeliverEnd, Discard, Shutdown
<1>3. ASSUME NEW n \in Member,
             \/ \E p \in Member : \E k \in DOMAIN log[n] : OnAck(n, p, k)
             \/ \E id \in wire : Read(n, id)
             \/ \E id \in spawned[n] : HoldBack(n, id)
      PROVE  UNCHANGED <<log, vectorClock, past, delivered>>
  BY <1>3 DEF OnAck, Read, HoldBack
<1>4. ASSUME NEW d \in Mortal, HandleDeadServer(d) \/ AnnounceDeath(d)
      PROVE  \/ Multicast(Leader, d)
             \/ UNCHANGED <<log, vectorClock, past, delivered>>
  BY <1>4 DEF HandleDeadServer, AnnounceDeath
<1>5. Mortal \subseteq Member /\ Leader \in Member
  OBVIOUS
<1> QED BY <1>1, <1>2, <1>3, <1>4, <1>5 DEF Next

\* A clock that counts one message more.
LEMMA BelowNext ==
  ASSUME NEW clock \in [Member -> Nat], NEW s \in Member
  PROVE  /\ Below([clock EXCEPT ![s] = clock[s] + 1]) = Below(clock) \cup {<<s, clock[s] + 1>>}
         /\ <<s, clock[s] + 1>> \notin Below(clock)
<1> DEFINE next == [clock EXCEPT ![s] = clock[s] + 1]
           new == <<s, clock[s] + 1>>
<1>1. clock[s] \in Nat /\ next[s] = clock[s] + 1 /\ \A m \in Member \ {s} : next[m] = clock[m]
  OBVIOUS
<1> HIDE DEF next
<1>2. new \in Id /\ new[1] = s /\ new[2] = clock[s] + 1
  BY <1>1 DEF Id
<1>3. new \notin Below(clock) /\ new \in Below(next)
  BY <1>1, <1>2 DEF Below
<1>4. ASSUME NEW id \in Id PROVE id \in Below(next) <=> id \in Below(clock) \/ id = new
  <2>1. id = <<id[1], id[2]>> /\ id[1] \in Member /\ id[2] \in Nat
    BY DEF Id
  <2>2. CASE id[1] = s
    <3>1. id[2] <= clock[s] + 1 <=> id[2] <= clock[s] \/ id[2] = clock[s] + 1
      BY <1>1, <2>1
    <3>2. id = new <=> id[2] = clock[s] + 1
      BY <2>1, <2>2
    <3> QED BY <1>1, <2>2, <3>1, <3>2 DEF Below
  <2>3. CASE id[1] # s
    <3>1. next[id[1]] = clock[id[1]] /\ id # new
      BY <1>1, <1>2, <2>1, <2>3
    <3> QED BY <3>1 DEF Below
  <2> QED BY <2>2, <2>3
<1>5. Below(next) \subseteq Id /\ Below(clock) \subseteq Id
  BY DEF Below
<1>6. Below(next) = Below(clock) \cup {new}
  BY <1>2, <1>4, <1>5
<1> QED BY <1>3, <1>6 DEF next

\* The messages on their way and handed up stay messages that were sent.
LEMMA WrittenStep == Typed /\ Written /\ [Next]_vars => Written'
<1> SUFFICES ASSUME Typed, Written, [Next]_vars PROVE Written'
  OBVIOUS
<1> USE MemberAssumption, BoundAssumption DEF Written, sessionVars, queueVars
<1>1. ASSUME NEW n \in Member, NEW dead \in Member \cup {Nobody}, Multicast(n, dead) PROVE Written'
  <2>1. UNCHANGED <<wire, spawned, holdBackQueue, delivered>>
    BY <1>1 DEF Multicast
  <2>2. \A m \in Member : \A k \in DOMAIN log[m] : k \in DOMAIN log'[m]
    BY <1>1, LogGrows
  <2>3. wire \subseteq Id /\ \A m \in Member : spawned[m] \cup holdBackQueue[m] \subseteq Id
    BY DEF Typed, TypeOK
  <2>4. \A m \in Member : Ids(delivered[m]) \subseteq Id
    <3>1. \A m \in Member : delivered[m] \in Seq(Id)
      BY DEF Typed, TypeOK
    <3> QED BY <3>1, IdsTyped
  <2>5. \A id \in Id : id[1] \in Member
    BY DEF Id
  <2> QED BY <2>1, <2>2, <2>3, <2>4, <2>5 DEF Ids
<1>2. ASSUME NEW n \in Member, NEW id \in holdBackQueue[n], Deliver(n, id) PROVE Written'
  <2>1. /\ delivered[n] \in Seq(Id) /\ id \in Id
        /\ delivered' = [delivered EXCEPT ![n] = Append(delivered[n], id)]
        /\ DOMAIN delivered = Member /\ DOMAIN holdBackQueue = Member
    BY <1>2 DEF Deliver, Typed, TypeOK
  <2>2. Ids(Append(delivered[n], id)) = Ids(delivered[n]) \cup {id}
    BY <2>1, OneMore DEF Ids
  <2>3. \A m \in Member : Ids(delivered'[m]) \subseteq Ids(delivered[m]) \cup holdBackQueue[m]
    BY <2>1, <2>2
  <2>4. \A m \in Member : holdBackQueue'[m] \subseteq holdBackQueue[m]
    BY <1>2, <2>1 DEF Deliver
  <2>5. UNCHANGED <<log, wire, spawned>>
    BY <1>2 DEF Deliver
  <2> HIDE DEF Written
  <2>6. \A m \in Member : \A x \in spawned[m] \cup holdBackQueue[m] \cup Ids(delivered[m]) :
          x[1] # m /\ x[2] \in DOMAIN log[x[1]]
    BY DEF Written
  <2>7. \A m \in Member : \A x \in spawned'[m] \cup holdBackQueue'[m] \cup Ids(delivered'[m]) :
          x[1] # m /\ x[2] \in DOMAIN log'[x[1]]
    BY <2>3, <2>4, <2>5, <2>6
  <2> QED BY <2>5, <2>7 DEF Written, Ids
<1>3. ASSUME NEW n \in Member, NEW k \in DOMAIN log[n], ResendWrite(n, k) PROVE Written'
  BY <1>3 DEF ResendWrite, Ids
<1>4. ASSUME NEW n \in Member, NEW id \in wire, Read(n, id) PROVE Written'
  <2>1. UNCHANGED <<log, wire, holdBackQueue, delivered>> /\ id[1] # n
        /\ spawned' = [spawned EXCEPT ![n] = @ \cup {id}]
    BY <1>4 DEF Read
  <2>2. DOMAIN spawned = Member
    BY DEF Typed, TypeOK
  <2> QED BY <2>1, <2>2 DEF Ids
<1>5. ASSUME NEW n \in Member, NEW id \in spawned[n], HoldBack(n, id) PROVE Written'
  <2>1. DOMAIN spawned = Member /\ DOMAIN holdBackQueue = Member
    BY DEF Typed, TypeOK
  <2> QED BY <1>5, <2>1 DEF HoldBack, Ids
<1>6. ASSUME NEW n \in Member, NEW id \in holdBackQueue[n], Discard(n, id) PROVE Written'
  <2>1. DOMAIN holdBackQueue = Member
    BY DEF Typed, TypeOK
  <2> QED BY <1>6, <2>1 DEF Discard, Ids
<1>7. CASE UNCHANGED <<log, wire, spawned, holdBackQueue, delivered>>
  BY <1>7 DEF Ids
<1>8. ASSUME NEW n \in Member, ResendStep(n) \/ DeliverStep(n) PROVE Written'
  <2>1. ASSUME NEW k \in DOMAIN log[n], ResendSelect(n, k) \/ ResendCheck(n, k) PROVE Written'
    BY <1>7, <2>1 DEF ResendSelect, ResendCheck
  <2>2. ASSUME DeliverBegin(n) \/ DeliverEnd(n) PROVE Written'
    BY <1>7, <2>2 DEF DeliverBegin, DeliverEnd
  <2> HIDE DEF Written
  <2> QED BY <1>2, <1>3, <1>6, <1>8, <2>1, <2>2 DEF ResendStep, DeliverStep
<1>9. ASSUME NEW n \in Member, SendMessage(n) \/ Shutdown(n) PROVE Written'
  <2>1. ASSUME Shutdown(n) PROVE Written'
    BY <1>7, <2>1 DEF Shutdown
  <2> HIDE DEF Written
  <2> QED BY <1>1, <1>9, <2>1 DEF SendMessage
<1>10. ASSUME NEW n \in Member, NEW p \in Member, NEW k \in DOMAIN log[n], OnAck(n, p, k)
       PROVE  Written'
  BY <1>7, <1>10 DEF OnAck
<1>11. ASSUME NEW d \in Mortal, HandleDeadServer(d) \/ AnnounceDeath(d) PROVE Written'
  <2>1. ASSUME HandleDeadServer(d) PROVE Written'
    BY <1>7, <2>1 DEF HandleDeadServer
  <2>2. Leader \in Member /\ d \in Member
    OBVIOUS
  <2> HIDE DEF Written
  <2> QED BY <1>1, <1>11, <2>1, <2>2 DEF AnnounceDeath
<1>12. CASE UNCHANGED vars
  BY <1>7, <1>12 DEF vars
<1> HIDE DEF Written
<1> QED BY <1>4, <1>5, <1>8, <1>9, <1>10, <1>11, <1>12 DEF Next
\* What a delivery finds and leaves: the next message of its sender, not handed
\* up before.
LEMMA DeliverNext ==
  ASSUME Typed, Written, Counted, Stamped,
         NEW n \in Member, NEW id \in holdBackQueue[n], Deliver(n, id)
  PROVE  /\ id = <<id[1], vectorClock[n][id[1]] + 1>>
         /\ id \in Id /\ id[1] \in Member \ {n} /\ id[2] \in DOMAIN log[id[1]]
         /\ id \notin Ids(delivered[n])
         /\ vectorClock' = [vectorClock EXCEPT ![n] =
                             [vectorClock[n] EXCEPT ![id[1]] = vectorClock[n][id[1]] + 1]]
         /\ delivered' = [delivered EXCEPT ![n] = Append(delivered[n], id)]
         /\ log' = log /\ past' = past
<1>1. /\ id \in Id /\ vectorClock[n] \in [Member -> Nat]
  BY DEF Typed, TypeOK
<1>2. id = <<id[1], id[2]>> /\ id[1] \in Member
  BY <1>1 DEF Id
<1>3. id[1] # n /\ id[2] \in DOMAIN log[id[1]]
  BY DEF Written
<1>4. log[id[1]][id[2]].clock[id[1]] = id[2]
  BY <1>2, <1>3 DEF Stamped
<1>5. id[2] = vectorClock[n][id[1]] + 1
  BY <1>4 DEF Deliver, CanDeliver, Clock
<1>6. id = <<id[1], vectorClock[n][id[1]] + 1>>
  BY <1>2, <1>5
<1>7. <<id[1], vectorClock[n][id[1]] + 1>> \notin Below(vectorClock[n])
  BY <1>1, <1>2, BelowNext
<1>8. id \notin Ids(delivered[n])
  BY <1>6, <1>7 DEF Counted
<1> QED BY <1>1, <1>2, <1>3, <1>6, <1>8 DEF Deliver

\* Sending and handing up advance the clock by the message.
LEMMA CountedStep == Typed /\ Written /\ Counted /\ Stamped /\ [Next]_vars => Counted'
<1> SUFFICES ASSUME Typed, Written, Counted, Stamped, [Next]_vars PROVE Counted'
  OBVIOUS
<1>1. ASSUME NEW n \in Member, NEW dead \in Member \cup {Nobody}, Multicast(n, dead) PROVE Counted'
  <2>1. vectorClock[n] \in [Member -> Nat] /\ DOMAIN vectorClock = Member
    BY DEF Typed, TypeOK
  <2>2. vectorClock' = [vectorClock EXCEPT ![n] = [vectorClock[n] EXCEPT ![n] = vectorClock[n][n] + 1]]
        /\ delivered' = delivered
    BY <1>1 DEF Multicast
  <2>3. Len(log[n]) \in Nat /\ vectorClock[n][n] = Len(log[n])
    BY <1>1, LogGrows DEF Counted
  <2>4. vectorClock'[n] = [vectorClock[n] EXCEPT ![n] = vectorClock[n][n] + 1]
    BY <2>1, <2>2
  <2>5. Below(vectorClock'[n]) = Below(vectorClock[n]) \cup {<<n, Len(log[n]) + 1>>}
    <3>1. Below([vectorClock[n] EXCEPT ![n] = vectorClock[n][n] + 1])
            = Below(vectorClock[n]) \cup {<<n, vectorClock[n][n] + 1>>}
      BY <2>1, BelowNext
    <3> QED BY <2>3, <2>4, <3>1
  <2>6. SentBy(n)' = SentBy(n) \cup {<<n, Len(log[n]) + 1>>}
    BY <1>1, LogGrows DEF SentBy
  <2>7. Len(log'[n]) = Len(log[n]) + 1
    BY <1>1, LogGrows
  <2>8. vectorClock'[n][n] = Len(log'[n])
    BY <2>1, <2>3, <2>4, <2>7
  <2>9. ASSUME NEW m \in Member, m # n
        PROVE  /\ vectorClock'[m][m] = Len(log'[m])
               /\ Below(vectorClock'[m]) = SentBy(m)' \cup Ids(delivered'[m])
    <3>1. vectorClock'[m] = vectorClock[m] /\ log'[m] = log[m] /\ delivered'[m] = delivered[m]
      BY <1>1, <2>1, <2>2, <2>9, LogGrows
    <3> QED BY <3>1 DEF Counted, SentBy
  <2>10. Below(vectorClock'[n]) = SentBy(n)' \cup Ids(delivered'[n])
    BY <2>2, <2>5, <2>6 DEF Counted
  <2> QED BY <2>8, <2>9, <2>10 DEF Counted, Below, SentBy, Ids
<1>2. ASSUME NEW n \in Member, NEW id \in holdBackQueue[n], Deliver(n, id) PROVE Counted'
  <2> DEFINE s == id[1]
  <2>1. /\ vectorClock[n] \in [Member -> Nat] /\ DOMAIN vectorClock = Member
        /\ delivered[n] \in Seq(Id) /\ DOMAIN delivered = Member
    BY DEF Typed, TypeOK
  <2>2. /\ id = <<s, vectorClock[n][s] + 1>> /\ s \in Member /\ s # n /\ id \in Id
        /\ vectorClock' = [vectorClock EXCEPT ![n] =
                            [vectorClock[n] EXCEPT ![s] = vectorClock[n][s] + 1]]
        /\ delivered' = [delivered EXCEPT ![n] = Append(delivered[n], id)]
        /\ log' = log
    BY <1>2, DeliverNext
  <2> HIDE DEF s
  <2>3. vectorClock'[n] = [vectorClock[n] EXCEPT ![s] = vectorClock[n][s] + 1]
        /\ delivered'[n] = Append(delivered[n], id)
        /\ \A m \in Member \ {n} : vectorClock'[m] = vectorClock[m] /\ delivered'[m] = delivered[m]
    BY <2>1, <2>2
  <2>4. Below(vectorClock'[n]) = Below(vectorClock[n]) \cup {id}
    BY <2>1, <2>2, <2>3, BelowNext
  <2>5. Ids(delivered'[n]) = Ids(delivered[n]) \cup {id}
    BY <2>1, <2>2, <2>3, OneMore DEF Ids
  <2>6. vectorClock'[n][n] = vectorClock[n][n]
    BY <2>1, <2>2, <2>3
  <2>7. \A m \in Member : SentBy(m)' = SentBy(m)
    BY <2>2 DEF SentBy
  <2>8. ASSUME NEW m \in Member
        PROVE  /\ vectorClock'[m][m] = Len(log'[m])
               /\ Below(vectorClock'[m]) = SentBy(m)' \cup Ids(delivered'[m])
    <3>1. CASE m = n
      <4>1. vectorClock[n][n] = Len(log[n])
            /\ Below(vectorClock[n]) = SentBy(n) \cup Ids(delivered[n])
        BY DEF Counted
      <4>2. Below(vectorClock'[n]) = SentBy(n)' \cup Ids(delivered'[n])
        BY <2>4, <2>5, <2>7, <4>1
      <4>3. vectorClock'[n][n] = Len(log'[n])
        BY <2>2, <2>6, <4>1
      <4> QED BY <3>1, <4>2, <4>3
    <3>2. CASE m # n
      BY <2>2, <2>3, <2>7, <3>2 DEF Counted
    <3> QED BY <3>1, <3>2
  <2> QED BY <2>8 DEF Counted, Below, SentBy, Ids
<1>3. CASE UNCHANGED <<log, vectorClock, past, delivered>>
  BY <1>3 DEF Counted, Below, SentBy, Ids
<1> QED BY <1>1, <1>2, <1>3, StepKinds

\* A new message is stamped with what its sender knew.
LEMMA StampedStep == Typed /\ Counted /\ Stamped /\ [Next]_vars => Stamped'
<1> SUFFICES ASSUME Typed, Counted, Stamped, [Next]_vars PROVE Stamped'
  OBVIOUS
<1>1. ASSUME NEW n \in Member, NEW dead \in Member \cup {Nobody}, Multicast(n, dead) PROVE Stamped'
  <2> DEFINE k == Len(log[n]) + 1
             clock == vectorClock'[n]
  <2>1. vectorClock[n] \in [Member -> Nat] /\ Len(log[n]) \in Nat /\ vectorClock[n][n] = Len(log[n])
    BY <1>1, LogGrows DEF Typed, TypeOK, Counted
  <2>2. clock = [vectorClock[n] EXCEPT ![n] = vectorClock[n][n] + 1]
    BY <1>1, MulticastKeeps
  <2>3. /\ log'[n][k].clock = clock
        /\ past'[n][k] = SentBy(n) \cup Ids(delivered[n])
        /\ DOMAIN log'[n] = DOMAIN log[n] \cup {k}
    BY <1>1, LogGrows
  <2> HIDE DEF clock
  <2>4. clock[n] = k
    BY <2>1, <2>2
  <2>5. Below(clock) = Below(vectorClock[n]) \cup {<<n, k>>} /\ <<n, k>> \notin Below(vectorClock[n])
    BY <2>1, <2>2, BelowNext
  <2>6. past'[n][k] = Below(clock) \ {<<n, k>>}
    BY <2>3, <2>5 DEF Counted
  <2> HIDE DEF k
  <2>7. ASSUME NEW m \in Member, NEW j \in DOMAIN log'[m]
        PROVE  /\ log'[m][j].clock[m] = j
               /\ past'[m][j] = Below(log'[m][j].clock) \ {<<m, j>>}
    <3>1. CASE m = n /\ j = k
      BY <2>3, <2>4, <2>6, <3>1
    <3>2. CASE ~ (m = n /\ j = k)
      <4>1. j \in DOMAIN log[m]
        BY <1>1, <2>3, <2>7, <3>2, LogGrows
      <4>2. log'[m][j] = log[m][j] /\ past'[m][j] = past[m][j]
        BY <1>1, <4>1, LogGrows
      <4> QED BY <4>1, <4>2 DEF Stamped
    <3> QED BY <3>1, <3>2
  <2> QED BY <2>7 DEF Stamped, Below
<1>2. ASSUME NEW n \in Member, NEW id \in holdBackQueue[n], Deliver(n, id) PROVE Stamped'
  BY <1>2 DEF Deliver, Stamped, Below
<1>3. CASE UNCHANGED <<log, vectorClock, past, delivered>>
  BY <1>3 DEF Stamped, Below
<1> QED BY <1>1, <1>2, <1>3, StepKinds

\* What the sender of a message knew is known before the message is handed up.
LEMMA DeliverAfterPast ==
  ASSUME Typed, Written, Counted, Stamped,
         NEW n \in Member, NEW id \in holdBackQueue[n], Deliver(n, id)
  PROVE  past[id[1]][id[2]] \subseteq SentBy(n) \cup Ids(delivered[n])
<1> DEFINE s == id[1]
           clock == log[s][id[2]].clock
<1>1. /\ id = <<s, vectorClock[n][s] + 1>> /\ s \in Member /\ id[2] \in DOMAIN log[s]
      /\ vectorClock[n] \in [Member -> Nat]
  BY DeliverNext DEF Typed, TypeOK
<1>2. past[s][id[2]] = Below(clock) \ {id}
  BY <1>1 DEF Stamped
<1>3. /\ clock[s] = vectorClock[n][s] + 1
      /\ \A m \in Member \ {s} : clock[m] <= vectorClock[n][m]
  BY DEF Deliver, CanDeliver, Clock
<1>4. clock \in [Member -> Nat]
  BY <1>1, Entries DEF Message
<1> HIDE DEF s, clock
<1>5. ASSUME NEW x \in Below(clock), x # id PROVE x \in Below(vectorClock[n])
  <2>1. x \in Id /\ x = <<x[1], x[2]>> /\ x[1] \in Member /\ x[2] \in Nat /\ x[2] <= clock[x[1]]
    BY DEF Below, Id
  <2>2. CASE x[1] = s
    <3>1. x[2] # vectorClock[n][s] + 1
      BY <1>1, <1>5, <2>1, <2>2
    <3>2. x[2] <= vectorClock[n][s]
      BY <1>1, <1>3, <2>1, <2>2, <3>1
    <3> QED BY <2>1, <2>2, <3>2 DEF Below
  <2>3. CASE x[1] # s
    <3>1. clock[x[1]] <= vectorClock[n][x[1]] /\ clock[x[1]] \in Nat /\ vectorClock[n][x[1]] \in Nat
      BY <1>1, <1>3, <1>4, <2>1, <2>3
    <3>2. x[2] <= vectorClock[n][x[1]]
      BY <2>1, <3>1
    <3> QED BY <2>1, <3>2 DEF Below
  <2> QED BY <2>2, <2>3
<1>6. Below(vectorClock[n]) = SentBy(n) \cup Ids(delivered[n])
  BY DEF Counted
<1> QED BY <1>2, <1>5, <1>6 DEF s
-----------------------------------------------------------------------------
Causes == Typed /\ Written /\ Counted /\ Stamped

\* The clocks tell causes, from the start.
LEMMA CausesInit == Init => Causes
<1> SUFFICES ASSUME Init PROVE Causes
  OBVIOUS
<1>1. Typed
  BY TypedInit
<1>2. /\ wire = {} /\ \A n \in Member : /\ spawned[n] = {} /\ holdBackQueue[n] = {}
                                      /\ log[n] = <<>> /\ delivered[n] = <<>>
                                      /\ vectorClock[n] = [m \in Member |-> 0]
  BY DEF Init
<1>3. \A n \in Member : DOMAIN log[n] = {} /\ Len(log[n]) = 0 /\ Ids(delivered[n]) = {} /\ SentBy(n) = {}
  <2>1. DOMAIN <<>> = {} /\ Len(<<>>) = 0
    OBVIOUS
  <2>2. \A n \in Member : DOMAIN log[n] = {} /\ Len(log[n]) = 0 /\ DOMAIN delivered[n] = {}
    BY <1>2, <2>1
  <2> QED BY <2>2 DEF Ids, SentBy
<1>4. Below([m \in Member |-> 0]) = {}
  BY DEF Below, Id
<1>5. Written /\ Stamped
  BY <1>2, <1>3 DEF Written, Stamped
<1>6. Counted
  BY <1>2, <1>3, <1>4 DEF Counted
<1> QED BY <1>1, <1>5, <1>6 DEF Causes

\* Every step keeps what the clocks tell.
LEMMA CausesStep == Causes /\ [Next]_vars => Causes'
BY TypedStep, WrittenStep, CountedStep, StampedStep DEF Causes

\* A step keeps causal order.
LEMMA CausalStep == Causes /\ CausalDelivery /\ [Next]_vars => CausalDelivery'
<1> SUFFICES ASSUME Causes, CausalDelivery, [Next]_vars PROVE CausalDelivery'
  OBVIOUS
<1> USE DEF Causes
<1>1. ASSUME NEW n \in Member, NEW dead \in Member \cup {Nobody}, Multicast(n, dead)
      PROVE  CausalDelivery'
  <2>1. delivered' = delivered
    BY <1>1 DEF Multicast
  <2>2. ASSUME NEW m \in Member, NEW i \in DOMAIN delivered[m]
        PROVE  past'[delivered[m][i][1]][delivered[m][i][2]]
                 \subseteq SentBy(m)' \cup {delivered[m][j] : j \in 1..(i - 1)}
    <3> DEFINE id == delivered[m][i]
    <3>1. id \in Ids(delivered[m]) /\ delivered[m] \in Seq(Id)
      BY DEF Ids, Typed, TypeOK
    <3>2. id \in Id /\ id[1] \in Member
      BY <3>1 DEF Id
    <3>3. id[2] \in DOMAIN log[id[1]]
      BY <3>1 DEF Written
    <3> HIDE DEF id
    <3>4. past'[id[1]][id[2]] = past[id[1]][id[2]]
      BY <1>1, <3>2, <3>3, LogGrows
    <3>5. SentBy(m) \subseteq SentBy(m)'
      BY <1>1, LogGrows DEF SentBy
    <3> QED BY <3>4, <3>5 DEF CausalDelivery, id
  <2> QED BY <2>1, <2>2 DEF CausalDelivery, SentBy
<1>2. ASSUME NEW n \in Member, NEW id \in holdBackQueue[n], Deliver(n, id) PROVE CausalDelivery'
  <2> DEFINE q == delivered[n]  k == Len(delivered[n]) + 1
  <2>1. q \in Seq(Id) /\ DOMAIN delivered = Member /\ id \in Id
    BY DEF Typed, TypeOK
  <2>2. /\ delivered' = [delivered EXCEPT ![n] = Append(q, id)]
        /\ past' = past /\ log' = log
    BY <1>2 DEF Deliver
  <2>3. past[id[1]][id[2]] \subseteq SentBy(n) \cup Ids(q)
    BY <1>2, DeliverAfterPast
  <2>4. /\ Len(q) \in Nat /\ DOMAIN q = 1..Len(q) /\ DOMAIN Append(q, id) = DOMAIN q \cup {k}
        /\ \A i \in DOMAIN q : Append(q, id)[i] = q[i]
        /\ Append(q, id)[k] = id
    BY <2>1, OneMore
  <2>5. \A m \in Member : SentBy(m)' = SentBy(m)
    BY <2>2 DEF SentBy
  <2>6. ASSUME NEW m \in Member, NEW i \in DOMAIN delivered'[m]
        PROVE  past[delivered'[m][i][1]][delivered'[m][i][2]]
                 \subseteq SentBy(m) \cup {delivered'[m][j] : j \in 1..(i - 1)}
    <3>1. CASE m # n
      <4>1. delivered'[m] = delivered[m]
        BY <2>2, <3>1
      <4> QED BY <2>6, <4>1 DEF CausalDelivery
    <3>2. CASE m = n /\ i \in DOMAIN q
      <4>1. delivered'[m] = Append(q, id) /\ i \in 1..Len(q)
        BY <2>1, <2>2, <2>4, <3>2
      <4>2. \A j \in 1..(i - 1) : j \in DOMAIN q /\ Append(q, id)[j] = q[j]
        BY <2>4, <4>1
      <4>3. {Append(q, id)[j] : j \in 1..(i - 1)} = {q[j] : j \in 1..(i - 1)}
        BY <4>2
      <4> QED BY <2>4, <3>2, <4>1, <4>3 DEF CausalDelivery
    <3>3. CASE m = n /\ i = k
      <4>1. delivered'[m] = Append(q, id) /\ 1..(i - 1) = DOMAIN q
        BY <2>1, <2>2, <2>4, <3>3
      <4>2. {Append(q, id)[j] : j \in DOMAIN q} = Ids(q)
        BY <2>4 DEF Ids
      <4> QED BY <2>3, <2>4, <3>3, <4>1, <4>2
    <3>4. m = n => i \in DOMAIN q \/ i = k
      BY <2>1, <2>2, <2>4
    <3> QED BY <3>1, <3>2, <3>3, <3>4
  <2> QED BY <2>2, <2>5, <2>6 DEF CausalDelivery
<1>3. CASE UNCHANGED <<log, vectorClock, past, delivered>>
  BY <1>3 DEF CausalDelivery, SentBy
<1> QED BY <1>1, <1>2, <1>3, StepKinds DEF Causes

(* A message is handed up only after what its sender had sent or handed up *)
(* before it, in a group of any size with any number of messages, losses,  *)
(* repetitions, deaths and shutdowns: CanDeliver (multicast.go:332-350)    *)
(* finds exactly the messages whose causes the clocks count.               *)
THEOREM CausalDeliveryCorrect == Spec => []CausalDelivery
<1>1. Init => CausalDelivery
  BY DEF Init, CausalDelivery
<1> QED BY <1>1, CausesInit, CausesStep, CausalStep, PTL DEF Spec

\* A step hands up no message again.
LEMMA OnceStep == Causes /\ DeliveredOnce /\ [Next]_vars => DeliveredOnce'
<1> SUFFICES ASSUME Causes, DeliveredOnce, [Next]_vars PROVE DeliveredOnce'
  OBVIOUS
<1> USE DEF Causes
<1>1. ASSUME NEW n \in Member, NEW id \in holdBackQueue[n], Deliver(n, id) PROVE DeliveredOnce'
  <2> DEFINE q == delivered[n]  k == Len(delivered[n]) + 1
  <2>1. q \in Seq(Id) /\ DOMAIN delivered = Member /\ id \in Id
    BY DEF Typed, TypeOK
  <2>2. delivered' = [delivered EXCEPT ![n] = Append(q, id)] /\ id \notin Ids(q)
    BY <1>1, DeliverNext
  <2>3. /\ DOMAIN Append(q, id) = DOMAIN q \cup {k}
        /\ \A i \in DOMAIN q : Append(q, id)[i] = q[i]
        /\ Append(q, id)[k] = id
    BY <2>1, OneMore
  <2>4. \A i \in DOMAIN q : q[i] # id
    BY <2>2 DEF Ids
  <2>5. \A i, j \in DOMAIN Append(q, id) : Append(q, id)[i] = Append(q, id)[j] => i = j
    BY <2>3, <2>4 DEF DeliveredOnce
  <2>6. delivered'[n] = Append(q, id) /\ \A m \in Member \ {n} : delivered'[m] = delivered[m]
    BY <2>1, <2>2
  <2> HIDE DEF q
  <2> QED BY <2>5, <2>6 DEF DeliveredOnce
<1>2. CASE delivered' = delivered
  BY <1>2 DEF DeliveredOnce
<1>3. \A n \in Member, dead \in Member \cup {Nobody} : Multicast(n, dead) => delivered' = delivered
  BY DEF Multicast
<1> QED BY <1>1, <1>2, <1>3, StepKinds

(* No message is handed up twice, however often it is transmitted and read *)
(* (the duplicate check of DeliverMessages, multicast.go:367-375).         *)
THEOREM DeliveredOnceCorrect == Spec => []DeliveredOnce
<1>1. Init => DeliveredOnce
  BY DEF Init, DeliveredOnce
<1> QED BY <1>1, CausesInit, CausesStep, OnceStep, PTL DEF Spec

-----------------------------------------------------------------------------
\* No clock counts a message that was not sent.
Behind ==
  /\ \A m, n \in Member : vectorClock[m][n] <= Len(log[n])
  /\ \A m, n \in Member : \A k \in DOMAIN log[m] : log[m][k].clock[n] <= Len(log[n])

\* Every step keeps the clocks behind.
LEMMA BehindStep == Causes /\ Behind /\ [Next]_vars => Behind'
<1> SUFFICES ASSUME Causes, Behind, [Next]_vars PROVE Behind'
  OBVIOUS
<1> USE DEF Causes
<1>1. \A m, n \in Member : vectorClock[m][n] \in Nat /\ Len(log[n]) \in Nat
  BY DEF Typed, TypeOK
<1>2. ASSUME NEW n \in Member, NEW dead \in Member \cup {Nobody}, Multicast(n, dead) PROVE Behind'
  <2>1. vectorClock[n] \in [Member -> Nat] /\ DOMAIN vectorClock = Member
    BY DEF Typed, TypeOK
  <2>2. vectorClock' = [vectorClock EXCEPT ![n] = [vectorClock[n] EXCEPT ![n] = vectorClock[n][n] + 1]]
    BY <1>2 DEF Multicast
  <2>3. Len(log'[n]) = Len(log[n]) + 1 /\ \A m \in Member \ {n} : log'[m] = log[m]
    BY <1>2, LogGrows
  <2>4. \A m \in Member : Len(log[m]) <= Len(log'[m])
    BY <1>1, <2>3
  <2>5. ASSUME NEW m \in Member, NEW x \in Member PROVE vectorClock'[m][x] <= Len(log'[x])
    <3>1. CASE m = n /\ x = n
      BY <1>1, <2>1, <2>2, <2>3, <3>1 DEF Behind
    <3>2. CASE ~ (m = n /\ x = n)
      <4>1. vectorClock'[m][x] = vectorClock[m][x]
        BY <2>1, <2>2, <3>2
      <4>2. Len(log'[x]) \in Nat
        BY <1>1, <2>3
      <4>3. vectorClock[m][x] <= Len(log[x]) /\ Len(log[x]) <= Len(log'[x])
        BY <2>4 DEF Behind
      <4> QED BY <1>1, <4>1, <4>2, <4>3
    <3> QED BY <3>1, <3>2
  <2>6. ASSUME NEW m \in Member, NEW x \in Member, NEW k \in DOMAIN log'[m]
        PROVE  log'[m][k].clock[x] <= Len(log'[x])
    <3>1. CASE k \in DOMAIN log[m]
      <4>1. log'[m][k] = log[m][k]
        BY <1>2, <3>1, LogGrows
      <4>2. log[m][k].clock[x] \in Nat
        <5>1. log[m][k] \in Message
          BY <3>1, Entries
        <5> QED BY <5>1 DEF Message
      <4>3. Len(log'[x]) \in Nat
        BY <1>1, <2>3
      <4>4. log[m][k].clock[x] <= Len(log[x]) /\ Len(log[x]) <= Len(log'[x])
        BY <2>4, <3>1 DEF Behind
      <4> QED BY <1>1, <4>1, <4>2, <4>3, <4>4
    <3>2. CASE k \notin DOMAIN log[m]
      <4>1. m = n /\ log'[m][k].clock = vectorClock'[n]
        BY <1>2, <2>6, <3>2, LogGrows
      <4> QED BY <2>5, <4>1
    <3> QED BY <3>1, <3>2
  <2> QED BY <2>5, <2>6 DEF Behind
<1>3. ASSUME NEW n \in Member, NEW id \in holdBackQueue[n], Deliver(n, id) PROVE Behind'
  <2> DEFINE s == id[1]
  <2>1. vectorClock[n] \in [Member -> Nat] /\ DOMAIN vectorClock = Member
    BY DEF Typed, TypeOK
  <2>2. /\ id = <<s, vectorClock[n][s] + 1>> /\ s \in Member /\ id[2] \in DOMAIN log[s]
        /\ vectorClock' = [vectorClock EXCEPT ![n] =
                            [vectorClock[n] EXCEPT ![s] = vectorClock[n][s] + 1]]
        /\ log' = log
    BY <1>3, DeliverNext
  <2>3. vectorClock[n][s] + 1 <= Len(log[s])
    BY <2>2, Entries
  <2> HIDE DEF s
  <2>4. ASSUME NEW m \in Member, NEW x \in Member PROVE vectorClock'[m][x] <= Len(log[x])
    BY <2>1, <2>2, <2>3 DEF Behind
  <2> QED BY <2>2, <2>4 DEF Behind
<1>4. CASE UNCHANGED <<log, vectorClock, past, delivered>>
  BY <1>4 DEF Behind
<1> QED BY <1>2, <1>3, <1>4, StepKinds

\* A message the member could neither hand up nor throw away stays so when the
\* member sends.
LEMMA SendingFreesNothing ==
  ASSUME Causes, Behind, NEW n \in Member, NEW dead \in Member \cup {Nobody}, Multicast(n, dead),
         NEW id \in holdBackQueue[n], ~ CanDeliver(n, id), ~ IsDuplicate(n, id)
  PROVE  ~ CanDeliver(n, id)' /\ ~ IsDuplicate(n, id)'
<1> DEFINE clock == log[id[1]][id[2]].clock
<1>1. id \in Id /\ vectorClock[n] \in [Member -> Nat] /\ DOMAIN vectorClock = Member
  BY DEF Causes, Typed, TypeOK
<1>2. id[1] \in Member /\ id[1] # n /\ id[2] \in DOMAIN log[id[1]]
  BY <1>1 DEF Id, Causes, Written
<1>3. log'[id[1]][id[2]] = log[id[1]][id[2]]
  BY <1>2, LogGrows DEF Causes
<1>4. vectorClock'[n] = [vectorClock[n] EXCEPT ![n] = vectorClock[n][n] + 1]
  BY MulticastKeeps DEF Causes
<1>5. \A m \in Member \ {n} : vectorClock'[n][m] = vectorClock[n][m]
  BY <1>1, <1>4
<1>6. clock \in [Member -> Nat]
  BY <1>2, Entries DEF Causes, Message
<1>7. clock[n] <= vectorClock[n][n]
  BY <1>2 DEF Behind, Causes, Counted
<1> HIDE DEF clock
<1>8. ~ IsDuplicate(n, id)'
  BY <1>2, <1>3, <1>5 DEF IsDuplicate, Clock
<1>9. ~ CanDeliver(n, id)'
  <2>1. CASE clock[id[1]] # vectorClock[n][id[1]] + 1
    BY <1>2, <1>3, <1>5, <2>1 DEF CanDeliver, Clock, clock
  <2>2. CASE clock[id[1]] = vectorClock[n][id[1]] + 1
    <3>1. PICK m \in Member \ {id[1]} : ~ (clock[m] <= vectorClock[n][m])
      BY <2>2 DEF CanDeliver, Clock, clock
    <3>2. m # n
      BY <1>7, <3>1
    <3>3. vectorClock'[n][m] = vectorClock[n][m]
      BY <1>5, <3>2
    <3> QED BY <1>3, <3>1, <3>3 DEF CanDeliver, Clock, clock
  <2> QED BY <2>1, <2>2
<1> QED BY <1>8, <1>9

\* Every step leaves the queue drained where no delivery is to come.
LEMMA DrainedStep == Causes /\ Behind /\ HoldBackDrained /\ [Next]_vars => HoldBackDrained'
<1> SUFFICES ASSUME Causes, Behind, HoldBackDrained, [Next]_vars,
                    NEW n \in Member, NEW id \in holdBackQueue'[n], ~ deliverDue'[n], ~ delivering'[n]
             PROVE  ~ CanDeliver(n, id)' /\ ~ IsDuplicate(n, id)'
  BY DEF HoldBackDrained, CanDeliver, IsDuplicate, Clock
<1> DEFINE Goal == ~ CanDeliver(n, id)' /\ ~ IsDuplicate(n, id)'
<1> USE DEF sessionVars, queueVars
<1>1. /\ DOMAIN vectorClock = Member /\ DOMAIN holdBackQueue = Member
      /\ DOMAIN deliverDue = Member /\ DOMAIN delivering = Member
  BY DEF Causes, Typed, TypeOK
<1>2. ASSUME log' = log, vectorClock'[n] = vectorClock[n], id \in holdBackQueue[n],
             ~ deliverDue[n], ~ delivering[n]
      PROVE  Goal
  BY <1>2 DEF HoldBackDrained, CanDeliver, IsDuplicate, Clock
<1> HIDE DEF Goal
<1>3. ASSUME UNCHANGED <<log, vectorClock, holdBackQueue, deliverDue, delivering>> PROVE Goal
  BY <1>2, <1>3
<1>4. ASSUME NEW m \in Member, NEW dead \in Member \cup {Nobody}, Multicast(m, dead) PROVE Goal
  <2>1. UNCHANGED <<holdBackQueue, deliverDue, delivering>>
    BY <1>4 DEF Multicast
  <2>2. ~ CanDeliver(n, id) /\ ~ IsDuplicate(n, id) /\ id \in holdBackQueue[n]
    BY <2>1 DEF HoldBackDrained
  <2>3. CASE m = n
    BY <1>4, <2>2, <2>3, SendingFreesNothing DEF Goal
  <2>4. CASE m # n
    <3>1. vectorClock'[n] = vectorClock[n]
      BY <1>1, <1>4, <2>4 DEF Multicast
    <3>2. log'[id[1]][id[2]] = log[id[1]][id[2]]
      <4>1. id \in Id /\ id[2] \in DOMAIN log[id[1]]
        BY <2>2 DEF Causes, Written, Typed, TypeOK
      <4>2. id[1] \in Member
        BY <4>1 DEF Id
      <4> QED BY <1>4, <4>1, <4>2, LogGrows DEF Causes
    <3> QED BY <2>2, <3>1, <3>2 DEF Goal, CanDeliver, IsDuplicate, Clock
  <2> QED BY <2>3, <2>4
<1>5. ASSUME NEW m \in Member, NEW x \in holdBackQueue[m], Deliver(m, x) \/ Discard(m, x) PROVE Goal
  <2>1. m # n /\ UNCHANGED <<log, deliverDue, delivering>> /\ delivering[m]
    BY <1>5 DEF Deliver, Discard
  <2>2. vectorClock'[n] = vectorClock[n] /\ holdBackQueue'[n] = holdBackQueue[n]
    BY <1>1, <1>5, <2>1 DEF Deliver, Discard
  <2> QED BY <1>2, <2>1, <2>2
<1>6. ASSUME NEW m \in Member, DeliverBegin(m) PROVE Goal
  <2>1. m # n
    BY <1>1, <1>6 DEF DeliverBegin
  <2>2. UNCHANGED <<log, vectorClock, holdBackQueue>>
        /\ deliverDue'[n] = deliverDue[n] /\ delivering'[n] = delivering[n]
    BY <1>1, <1>6, <2>1 DEF DeliverBegin
  <2> QED BY <1>2, <2>2
<1>7. ASSUME NEW m \in Member, DeliverEnd(m) PROVE Goal
  <2>1. UNCHANGED <<log, vectorClock, holdBackQueue, deliverDue>>
    BY <1>7 DEF DeliverEnd
  <2>2. CASE m = n
    BY <1>7, <2>1, <2>2 DEF DeliverEnd, Goal, CanDeliver, IsDuplicate, Clock
  <2>3. CASE m # n
    <3>1. delivering'[n] = delivering[n]
      BY <1>1, <1>7, <2>3 DEF DeliverEnd
    <3> QED BY <1>2, <2>1, <3>1
  <2> QED BY <2>2, <2>3
<1>8. ASSUME NEW m \in Member, NEW x \in spawned[m], HoldBack(m, x) PROVE Goal
  <2>1. m # n
    BY <1>1, <1>8 DEF HoldBack
  <2>2. UNCHANGED <<log, vectorClock, delivering>>
        /\ deliverDue'[n] = deliverDue[n] /\ holdBackQueue'[n] = holdBackQueue[n]
    BY <1>1, <1>8, <2>1 DEF HoldBack
  <2> QED BY <1>2, <2>2
<1>9. ASSUME NEW m \in Member, ResendStep(m) \/ DeliverStep(m) PROVE Goal
  <2>1. ASSUME NEW k \in DOMAIN log[m], ResendSelect(m, k) \/ ResendWrite(m, k) \/ ResendCheck(m, k)
        PROVE  Goal
    BY <1>3, <2>1 DEF ResendSelect, ResendWrite, ResendCheck
  <2> QED BY <1>5, <1>6, <1>7, <1>9, <2>1 DEF ResendStep, DeliverStep
<1>10. ASSUME NEW m \in Member, SendMessage(m) \/ Shutdown(m) PROVE Goal
  <2>1. ASSUME Shutdown(m) PROVE Goal
    BY <1>3, <2>1 DEF Shutdown
  <2> QED BY <1>4, <1>10, <2>1 DEF SendMessage
<1>11. ASSUME NEW m \in Member, \/ \E p \in Member : \E k \in DOMAIN log[m] : OnAck(m, p, k)
                                \/ \E x \in wire : Read(m, x)
       PROVE  Goal
  BY <1>3, <1>11 DEF OnAck, Read
<1>12. ASSUME NEW d \in Mortal, HandleDeadServer(d) \/ AnnounceDeath(d) PROVE Goal
  <2>1. ASSUME HandleDeadServer(d) PROVE Goal
    BY <1>3, <2>1 DEF HandleDeadServer
  <2>2. Leader \in Member /\ d \in Member
    BY MemberAssumption, BoundAssumption
  <2> QED BY <1>4, <1>12, <2>1, <2>2 DEF AnnounceDeath
<1>13. ASSUME UNCHANGED vars PROVE Goal
  BY <1>3, <1>13 DEF vars
<1>14. Goal
  BY <1>8, <1>9, <1>10, <1>11, <1>12, <1>13 DEF Next
<1> QED BY <1>14 DEF Goal

(* Between two deliveries the queue holds nothing that could be handed up  *)
(* or thrown away, although appending and delivering are two critical      *)
(* sections and sending moves the member's clock in between: no message    *)
(* counts more of the member's messages than it has sent.                  *)
THEOREM HoldBackDrainedCorrect == Spec => []HoldBackDrained
<1>1. Init => Behind /\ HoldBackDrained
  <2> SUFFICES ASSUME Init PROVE Behind /\ HoldBackDrained
    OBVIOUS
  <2>1. DOMAIN <<>> = {} /\ Len(<<>>) = 0
    OBVIOUS
  <2>2. Behind
    BY <2>1 DEF Init, Behind
  <2>3. HoldBackDrained
    BY DEF Init, HoldBackDrained
  <2> QED BY <2>2, <2>3
<1>2. Causes /\ Behind /\ HoldBackDrained /\ [Next]_vars => (Causes /\ Behind /\ HoldBackDrained)'
  BY CausesStep, BehindStep, DrainedStep
<1> QED BY <1>1, <1>2, CausesInit, PTL DEF Spec

-----------------------------------------------------------------------------
\* Somebody read n's k-th message, or n has dropped a member, or has no other.
Heard(n, k) == \/ \E p \in Member : <<p, <<n, k>>>> \in acks
               \/ nodeIds[n] # Member \ {n}
               \/ Member = {n}

\* A message waits for other members only, until one has been heard.
WaitingFor(n) ==
  /\ nodeIds[n] \subseteq Member \ {n}
  /\ \A k \in DOMAIN log[n] :
       /\ bufferAck[n][k] \subseteq Member \ {n}
       /\ bufferAck[n][k] = {} \/ resend[n][k].at = "acknowledged" => Heard(n, k)

Waiting == \A n \in Member : WaitingFor(n)

\* Who has been heard stays heard.
LEMMA HeardStays ==
  ASSUME Waiting, NEW n \in Member, NEW k, Heard(n, k),
         acks \subseteq acks', nodeIds'[n] \subseteq nodeIds[n]
  PROVE  Heard(n, k)'
BY DEF Heard, Waiting, WaitingFor

\* Removing a node leaves nobody waiting for it.
LEMMA RemoveWaits ==
  ASSUME Typed, Waiting, NEW n \in Member, NEW d, RemoveDeadNode(n, d),
         UNCHANGED <<log, resend>>, acks \subseteq acks'
  PROVE  Waiting'
<1>1. /\ DOMAIN nodeIds = Member /\ DOMAIN bufferAck = Member
      /\ \A m \in Member : DOMAIN bufferAck[m] = DOMAIN log[m]
  <2>1. \A m \in Member : bufferAck[m] \in Seq(SUBSET Member) /\ log[m] \in Seq(Message)
                           /\ Len(bufferAck[m]) = Len(log[m])
    BY DEF Typed, TypeOK
  <2> QED BY <2>1 DEF Typed, TypeOK
<1>2. /\ nodeIds'[n] = nodeIds[n] \ {d}
      /\ \A k \in DOMAIN log[n] : bufferAck'[n][k] = bufferAck[n][k] \ {d}
      /\ \A m \in Member \ {n} : nodeIds'[m] = nodeIds[m] /\ bufferAck'[m] = bufferAck[m]
  BY <1>1 DEF RemoveDeadNode
<1>3. ASSUME NEW m \in Member PROVE WaitingFor(m)'
  <2>1. nodeIds'[m] \subseteq nodeIds[m] /\ nodeIds[m] \subseteq Member \ {m}
    BY <1>2 DEF Waiting, WaitingFor
  <2>2. ASSUME NEW k \in DOMAIN log[m]
        PROVE  /\ bufferAck'[m][k] \subseteq Member \ {m}
               /\ bufferAck'[m][k] = {} \/ resend[m][k].at = "acknowledged" => Heard(m, k)'
    <3>1. bufferAck'[m][k] \subseteq bufferAck[m][k] /\ bufferAck[m][k] \subseteq Member \ {m}
      BY <1>2 DEF Waiting, WaitingFor
    <3>2. CASE bufferAck[m][k] = {} \/ resend[m][k].at = "acknowledged"
      BY <2>1, <3>1, <3>2, HeardStays DEF Waiting, WaitingFor
    <3>3. CASE bufferAck[m][k] # {} /\ bufferAck'[m][k] = {}
      <4>1. m = n /\ d \in Member \ {n}
        BY <1>2, <3>1, <3>3
      <4>2. nodeIds'[n] # Member \ {n}
        BY <1>2, <4>1
      <4>3. Heard(m, k)'
        BY <4>1, <4>2 DEF Heard
      <4> QED BY <3>1, <4>3
    <3> QED BY <3>1, <3>2, <3>3
  <2> QED BY <2>1, <2>2 DEF WaitingFor, Heard
<1> QED BY <1>3 DEF Waiting

\* A retransmitting goroutine that goes to another point stops as acknowledged
\* only if nobody is waited for.
LEMMA GotoWaits ==
  ASSUME Typed, Waiting, NEW n \in Member, NEW k \in DOMAIN log[n], NEW g,
         resend' = [resend EXCEPT ![n] = [resend[n] EXCEPT ![k] = g]],
         g.at = "acknowledged" => bufferAck[n][k] = {},
         UNCHANGED <<log, nodeIds, bufferAck, acks>>
  PROVE  Waiting'
<1>1. DOMAIN resend = Member /\ k \in DOMAIN resend[n]
  BY Entries DEF Typed, TypeOK
<1>2. ASSUME NEW m \in Member, NEW j \in DOMAIN log[m], resend'[m][j].at = "acknowledged"
      PROVE  bufferAck[m][j] = {} \/ resend[m][j].at = "acknowledged"
  BY <1>1, <1>2
<1>3. \A m \in Member : \A j \in DOMAIN log[m] : Heard(m, j) => Heard(m, j)'
  BY DEF Heard
<1>4. ASSUME NEW m \in Member PROVE WaitingFor(m)'
  BY <1>2, <1>3 DEF Waiting, WaitingFor
<1> QED BY <1>4 DEF Waiting

\* A message that is sent waits for a member, if there is another.
LEMMA MulticastWaits ==
  ASSUME Typed, Waiting, NEW n \in Member, NEW dead \in Member \cup {Nobody}, Multicast(n, dead)
  PROVE  Waiting'
<1> DEFINE last == Len(log[n]) + 1
           g == [at |-> "select", left |-> MaxWrites]
<1>1. /\ DOMAIN bufferAck = Member /\ DOMAIN resend = Member
      /\ log[n] \in Seq(Message)
      /\ bufferAck[n] \in Seq(SUBSET Member) /\ resend[n] \in Seq(Goroutine)
      /\ Len(bufferAck[n]) = Len(log[n]) /\ Len(resend[n]) = Len(log[n])
  BY DEF Typed, TypeOK
<1>2. /\ bufferAck' = [bufferAck EXCEPT ![n] = Append(bufferAck[n], LastPeer(n))]
      /\ resend' = [resend EXCEPT ![n] = Append(resend[n], g)]
      /\ UNCHANGED <<nodeIds, acks>>
  BY DEF Multicast
<1>3. LastPeer(n) \in SUBSET Member /\ g \in Goroutine
  BY BoundAssumption DEF LastPeer, Goroutine, Typed, TypeOK
<1>4. /\ bufferAck'[n] = Append(bufferAck[n], LastPeer(n)) /\ resend'[n] = Append(resend[n], g)
      /\ \A m \in Member \ {n} : bufferAck'[m] = bufferAck[m] /\ resend'[m] = resend[m]
  BY <1>1, <1>2
<1>5. /\ \A k \in DOMAIN log[n] : bufferAck'[n][k] = bufferAck[n][k] /\ resend'[n][k] = resend[n][k]
      /\ bufferAck'[n][last] = LastPeer(n) /\ resend'[n][last] = g
  <2>1. DOMAIN bufferAck[n] = DOMAIN log[n] /\ DOMAIN resend[n] = DOMAIN log[n]
    BY <1>1
  <2> HIDE DEF g
  <2> QED BY <1>1, <1>3, <1>4, <2>1, OneMore
<1>6. /\ DOMAIN log'[n] = DOMAIN log[n] \cup {last}
      /\ \A m \in Member \ {n} : log'[m] = log[m]
  BY LogGrows
<1>7. LastPeer(n) \subseteq nodeIds[n] /\ nodeIds[n] \subseteq Member \ {n}
  BY DEF LastPeer, Waiting, WaitingFor
<1>8. LastPeer(n) = {} => nodeIds[n] = {}
  BY <1>7, LastAssumption DEF LastPeer
<1>9. LastPeer(n) = {} => Heard(n, last)
  BY <1>8 DEF Heard
<1>10. \A m \in Member : \A k : Heard(m, k)' <=> Heard(m, k)
  BY <1>2 DEF Heard
<1>11. g.at # "acknowledged"
  OBVIOUS
<1> HIDE DEF g, last
<1>12. ASSUME NEW m \in Member, NEW k \in DOMAIN log'[m]
       PROVE  /\ bufferAck'[m][k] \subseteq Member \ {m}
              /\ bufferAck'[m][k] = {} \/ resend'[m][k].at = "acknowledged" => Heard(m, k)'
  <2>1. CASE m = n /\ k = last
    BY <1>5, <1>7, <1>9, <1>10, <1>11, <2>1
  <2>2. CASE k \in DOMAIN log[m]
    <3>1. bufferAck'[m][k] = bufferAck[m][k] /\ resend'[m][k] = resend[m][k]
      BY <1>4, <1>5, <2>2
    <3> QED BY <1>10, <2>2, <3>1 DEF Waiting, WaitingFor
  <2> QED BY <1>6, <1>12, <2>1, <2>2
<1>13. ASSUME NEW m \in Member PROVE WaitingFor(m)'
  BY <1>2, <1>12 DEF Waiting, WaitingFor
<1> QED BY <1>13 DEF Waiting

\* Every step keeps what senders wait for.
LEMMA WaitingStep == Typed /\ Waiting /\ [Next]_vars => Waiting'
<1> SUFFICES ASSUME Typed, Waiting, [Next]_vars PROVE Waiting'
  OBVIOUS
<1> USE DEF sessionVars, queueVars
<1>1. ASSUME UNCHANGED <<log, nodeIds, bufferAck, resend, acks>> PROVE Waiting'
  BY <1>1 DEF Waiting, WaitingFor, Heard
<1>2. ASSUME NEW n \in Member, NEW k \in DOMAIN log[n],
             ResendSelect(n, k) \/ ResendWrite(n, k) \/ ResendCheck(n, k)
      PROVE  Waiting'
  <2>1. resend[n][k] \in Goroutine
    BY Entries
  <2>2. ASSUME NEW at, Goto(n, k, at), at = "acknowledged" => bufferAck[n][k] = {},
               UNCHANGED <<log, nodeIds, bufferAck, acks>>
        PROVE  Waiting'
    <3> DEFINE g == [resend[n][k] EXCEPT !.at = at]
    <3>1. g.at = at
      BY <2>1, OtherPosition
    <3>2. resend' = [resend EXCEPT ![n] = [resend[n] EXCEPT ![k] = g]]
      BY <2>2 DEF Goto
    <3> HIDE DEF g
    <3> QED BY <2>2, <3>1, <3>2, GotoWaits
  <2>3. CASE ResendSelect(n, k)
    <3> DEFINE at == IF resend[n][k].left = 0 \/ mode[n] = "closed" THEN "stopped" ELSE "write"
    <3>1. Goto(n, k, at) /\ at # "acknowledged" /\ UNCHANGED <<log, nodeIds, bufferAck, acks>>
      BY <2>3 DEF ResendSelect
    <3> HIDE DEF at
    <3> QED BY <2>2, <3>1
  <2>4. CASE ResendCheck(n, k)
    <3> DEFINE at == IF bufferAck[n][k] # {} THEN "select" ELSE "acknowledged"
    <3>1. /\ Goto(n, k, at) /\ (at = "acknowledged" => bufferAck[n][k] = {})
          /\ UNCHANGED <<log, nodeIds, bufferAck, acks>>
      BY <2>4 DEF ResendCheck
    <3> HIDE DEF at
    <3> QED BY <2>2, <3>1
  <2>5. CASE ResendWrite(n, k)
    <3>1. CASE UNCHANGED resend
      BY <1>1, <2>5, <3>1 DEF ResendWrite
    <3>2. CASE resend' # resend
      <4> DEFINE g == [at |-> "sleep", left |-> resend[n][k].left - 1]
      <4>1. resend' = [resend EXCEPT ![n] = [resend[n] EXCEPT ![k] = g]]
            /\ UNCHANGED <<log, nodeIds, bufferAck, acks>>
        BY <2>5, <3>2 DEF ResendWrite
      <4>2. g.at # "acknowledged"
        OBVIOUS
      <4> HIDE DEF g
      <4> QED BY <4>1, <4>2, GotoWaits
    <3> QED BY <3>1, <3>2
  <2> QED BY <1>2, <2>3, <2>4, <2>5
<1>3. ASSUME NEW n \in Member, DeliverStep(n) \/ Shutdown(n) PROVE Waiting'
  BY <1>1, <1>3 DEF DeliverStep, DeliverBegin, DeliverEnd, Discard, Deliver, Shutdown
<1>4. ASSUME NEW n \in Member, NEW id \in spawned[n], HoldBack(n, id) PROVE Waiting'
  BY <1>1, <1>4 DEF HoldBack
<1>5. ASSUME NEW n \in Member, NEW p \in Member, NEW k \in DOMAIN log[n], OnAck(n, p, k)
      PROVE  Waiting'
  <2>1. DOMAIN bufferAck = Member /\ k \in DOMAIN bufferAck[n]
    BY Entries DEF Typed, TypeOK
  <2>2. /\ bufferAck'[n][k] = bufferAck[n][k] \ {p}
        /\ \A m \in Member : \A j \in DOMAIN log[m] : ~ (m = n /\ j = k) => bufferAck'[m][j] = bufferAck[m][j]
        /\ UNCHANGED <<log, nodeIds, resend, acks>>
    BY <1>5, <2>1 DEF OnAck
  <2>3. Heard(n, k)
    BY <1>5 DEF OnAck, Heard
  <2>4. \A m \in Member : \A j \in DOMAIN log[m] : Heard(m, j)' <=> Heard(m, j)
    BY <2>2 DEF Heard
  <2>5. ASSUME NEW m \in Member PROVE WaitingFor(m)'
    BY <2>2, <2>3, <2>4 DEF Waiting, WaitingFor
  <2> QED BY <2>5 DEF Waiting
<1>6. ASSUME NEW n \in Member, NEW id \in wire, Read(n, id) PROVE Waiting'
  <2>1. UNCHANGED <<log, resend>> /\ acks \subseteq acks'
    BY <1>6 DEF Read
  <2>2. CASE UNCHANGED <<nodeIds, bufferAck>>
    <3>1. \A m \in Member : \A j \in DOMAIN log[m] : Heard(m, j) => Heard(m, j)'
      BY <2>1, <2>2 DEF Heard
    <3>2. ASSUME NEW m \in Member PROVE WaitingFor(m)'
      BY <2>1, <2>2, <3>1 DEF Waiting, WaitingFor
    <3> QED BY <3>2 DEF Waiting
  <2>3. CASE RemoveDeadNode(n, log[id[1]][id[2]].dead)
    BY <2>1, <2>3, RemoveWaits
  <2> QED BY <1>6, <2>2, <2>3 DEF Read
<1>7. ASSUME NEW d \in Mortal, HandleDeadServer(d) \/ AnnounceDeath(d) PROVE Waiting'
  <2>1. Leader \in Member /\ d \in Member
    BY MemberAssumption, BoundAssumption
  <2>2. ASSUME HandleDeadServer(d) PROVE Waiting'
    BY <2>1, <2>2, RemoveWaits DEF HandleDeadServer
  <2> QED BY <1>7, <2>1, <2>2, MulticastWaits DEF AnnounceDeath
<1>8. ASSUME NEW n \in Member, SendMessage(n) PROVE Waiting'
  BY <1>8, MulticastWaits DEF SendMessage
<1>9. ASSUME UNCHANGED vars PROVE Waiting'
  BY <1>1, <1>9 DEF vars
<1>10. ASSUME NEW n \in Member, ResendStep(n) PROVE Waiting'
  BY <1>2, <1>10 DEF ResendStep
<1> QED BY <1>3, <1>4, <1>5, <1>6, <1>7, <1>8, <1>9, <1>10 DEF Next

(* Retransmission stops as acknowledged only if somebody read the message, *)
(* unless the sender had dropped a member: although each round of the loop *)
(* in SendMessage overwrites the entry of the one before, the last peer is *)
(* waited for (multicast.go:173-180).                                      *)
THEOREM AcknowledgedWasReadCorrect == Spec => []AcknowledgedWasRead
<1>1. Init => Waiting
  <2> SUFFICES ASSUME Init PROVE Waiting
    OBVIOUS
  <2>1. \A n \in Member : nodeIds[n] = Member \ {n} /\ log[n] = <<>>
    BY DEF Init
  <2>2. DOMAIN <<>> = {}
    OBVIOUS
  <2>3. \A n \in Member : DOMAIN log[n] = {}
    BY <2>1, <2>2
  <2>4. \A n \in Member : nodeIds[n] \subseteq Member \ {n}
    BY <2>1
  <2> QED BY <2>3, <2>4, Zenon DEF Waiting, WaitingFor
<1>2. Typed /\ Waiting /\ [Next]_vars => (Typed /\ Waiting)'
  BY TypedStep, WaitingStep
<1>3. Waiting => AcknowledgedWasRead
  BY DEF Waiting, WaitingFor, Heard, AcknowledgedWasRead
<1> QED BY <1>1, <1>2, <1>3, TypedInit, PTL DEF Spec

-----------------------------------------------------------------------------
(* The session implements causal broadcast: with past as what each sender  *)
(* knew, SendMessage is a broadcast, a message that DeliverMessages hands  *)
(* up is a delivery, and nothing else shows.                               *)
THEOREM ImplementsCausalBroadcastCorrect == Spec => ImplementsCausalBroadcast
<1>1. Init => Abstract!Init
  BY DEF Init, Abstract!Init
<1>2. Causes /\ [Next]_vars => [Abstract!Next]_(Abstract!vars)
  <2> SUFFICES ASSUME Causes, [Next]_vars PROVE [Abstract!Next]_(Abstract!vars)
    OBVIOUS
  <2>1. \A n \in Member : Abstract!SentBy(n) = SentBy(n) /\ Abstract!Ids(delivered[n]) = Ids(delivered[n])
    <3>1. \A n \in Member : /\ log[n] \in Seq(Message) /\ past[n] \in Seq(SUBSET Id)
                            /\ Len(past[n]) = Len(log[n])
      BY DEF Causes, Typed, TypeOK
    <3>2. \A n \in Member : DOMAIN past[n] = DOMAIN log[n]
      BY <3>1
    <3> QED BY <3>2 DEF SentBy, Ids, Abstract!SentBy, Abstract!Ids
  <2>2. ASSUME NEW n \in Member, NEW dead \in Member \cup {Nobody}, Multicast(n, dead)
        PROVE  Abstract!Broadcast(n)
    BY <2>1, <2>2 DEF Multicast, Abstract!Broadcast, Abstract!Known
  <2>3. ASSUME NEW n \in Member, NEW id \in holdBackQueue[n], Deliver(n, id)
        PROVE  /\ Abstract!Deliver(n, id[1], id[2]) /\ id[1] \in Member
               /\ id[2] \in DOMAIN past[id[1]]
    <3>1. /\ id \in Id /\ id[1] \in Member \ {n} /\ id[2] \in DOMAIN log[id[1]]
          /\ id \notin Ids(delivered[n])
          /\ delivered' = [delivered EXCEPT ![n] = Append(delivered[n], id)]
          /\ past' = past
      BY <2>3, DeliverNext DEF Causes
    <3>2. id = <<id[1], id[2]>>
      BY <3>1 DEF Id
    <3>3. id[2] \in DOMAIN past[id[1]]
      BY <3>1, Entries DEF Causes
    <3>4. past[id[1]][id[2]] \subseteq Abstract!Known(n)
      BY <2>1, <2>3, DeliverAfterPast DEF Causes, Abstract!Known
    <3>5. Abstract!Ids(delivered[n]) = Ids(delivered[n])
      BY <2>1
    <3> QED BY <3>1, <3>2, <3>3, <3>4, <3>5 DEF Abstract!Deliver
  <2>4. CASE UNCHANGED <<log, vectorClock, past, delivered>>
    BY <2>4 DEF Abstract!vars
  <2> QED BY <2>2, <2>3, <2>4, StepKinds DEF Abstract!Next
<1> QED BY <1>1, <1>2, CausesInit, CausesStep, PTL DEF Spec, ImplementsCausalBroadcast, Abstract!Spec
=============================================================================
