------------------------ MODULE ReliableUnicastProofs ------------------------
(***************************************************************************)
(* Theorems about ReliableUnicast for any nodes, calls, retry bound and    *)
(* channel capacity.                                                       *)
(***************************************************************************)
EXTENDS ReliableUnicast, TLAPS

Link(c) == <<From[c], To[c]>>
Sent(c) == pc[c] # "idle"

\* An acknowledgement of n's frame f by p is queued at p, on the wire or
\* queued at n.
AckPending(n, p, f) ==
  \/ \E i \in DOMAIN lAckChan[p] : lAckChan[p][i] = <<n, f>>
  \/ <<p, n, f>> \in acks
  \/ \E i \in DOMAIN sAckChan[n] : sAckChan[n][i] = <<p, f>>

\* Whatever a listener handles, keeps or hands up was sent to it.
Provenance ==
  /\ \A c \in Call : Sent(c) => frame[c] >= 1
  /\ \A c \in datagrams : Sent(c)
  /\ \A n \in Node : cur[n] # NoCall => Sent(cur[n]) /\ To[cur[n]] = n
  /\ \A n \in Node : \A b \in msgBuf[n] : Sent(b) /\ To[b] = n
  /\ \A n \in Node : \A i \in DOMAIN delivered[n] :
       Sent(delivered[n][i]) /\ To[delivered[n][i]] = n

\* Until a node gives a peer up it uses every frame number for that peer once,
\* and acknowledgements speak of numbers it has used.
Numbering ==
  /\ \A c \in Call : Sent(c) /\ Link(c) \notin givenUp
       => frame[c] <= sendFrame[From[c]][To[c]]
  /\ \A c, d \in Call :
       Sent(c) /\ Sent(d) /\ Link(c) = Link(d) /\ Link(c) \notin givenUp /\ c # d
         => frame[c] # frame[d]
  /\ \A n, p \in Node : \A f \in Nat :
       <<n, p>> \notin givenUp /\ AckPending(n, p, f) => f <= sendFrame[n][p]

\* Until a node gives a peer up, an acknowledged frame reached the peer's
\* listener, and so did every frame that no longer waits for acknowledgement.
Acknowledged ==
  \A c \in Call :
    Sent(c) /\ Link(c) \notin givenUp =>
      /\ AckPending(From[c], To[c], frame[c]) => ReachedListener(c)
      /\ <<To[c], frame[c]>> \in ackFrame[From[c]] \/ ReachedListener(c)

\* The frames of n that p has counted or is about to count.
Counted(p, n) ==
  IF /\ cur[p] # NoCall
     /\ From[cur[p]] = n
     /\ frame[cur[p]] = recvFrame[p][n] + 1
  THEN recvFrame[p][n] + 1
  ELSE recvFrame[p][n]

\* On a link used by one call at a time that was never given up, frames are
\* counted before the next one is sent.
OneAtATime ==
  \A n, p \in Node :
    <<n, p>> \notin givenUp \cup overlapped =>
      /\ \A c, d \in Call :
           /\ Link(c) = <<n, p>> /\ Link(d) = <<n, p>>
           /\ pc[c] \in Active /\ pc[d] \in Active
           => c = d
      /\ \A c \in Call : Sent(c) /\ Link(c) = <<n, p>> => frame[c] <= Counted(p, n) + 1
      /\ \/ sendFrame[n][p] <= Counted(p, n)
         \/ \E c \in Call :
              Link(c) = <<n, p>> /\ pc[c] \in Active /\ frame[c] = sendFrame[n][p]

-----------------------------------------------------------------------------
\* Every action of send, the listener and ackListener keeps the types.
LEMMA TypeCorrectStep == TypeOK /\ [Next]_vars => TypeOK'
<1> USE CallAssumption, BoundAssumption DEF Active, Returned, Index
<1> SUFFICES ASSUME TypeOK, [Next]_vars PROVE TypeOK'
  OBVIOUS
<1> USE DEF TypeOK, vars, senderVars, listenerVars, chanVars, netVars, history
<1>1. ASSUME NEW c \in Call, Send(c) PROVE TypeOK'
  <2> DEFINE n == From[c]  p == To[c]  f == sendFrame[n][p] + 1
  <2>1. n \in Node /\ p \in Node /\ f \in Nat
    OBVIOUS
  <2>2. sendFrame' \in [Node -> [Node -> Nat]]
    BY <1>1, <2>1 DEF Send
  <2>3. ackFrame' \in [Node -> SUBSET Index]
    <3>1. ackFrame' = [ackFrame EXCEPT ![n] = @ \cup {<<p, f>>}]
      BY <1>1 DEF Send
    <3>2. <<p, f>> \in Index
      BY <2>1
    <3> QED BY <3>1, <3>2
  <2>4. frame' \in [Call -> Nat] /\ pc' \in [Call -> {"idle"} \cup Active \cup Returned]
    <3>1. frame' = [frame EXCEPT ![c] = f] /\ pc' = [pc EXCEPT ![c] = "transmit"]
      BY <1>1 DEF Send
    <3>2. frame \in [Call -> Nat] /\ pc \in [Call -> {"idle"} \cup Active \cup Returned]
      OBVIOUS
    <3> HIDE CallAssumption, BoundAssumption DEF TypeOK, f, n, p, Returned, Index
    <3> QED BY <2>1, <3>1, <3>2
  <2>5. overlapped' \subseteq Node \X Node
    <3> DEFINE l == <<n, p>>
    <3>1. overlapped' \subseteq overlapped \cup {l}
      BY <1>1 DEF Send
    <3>2. l \in Node \X Node /\ overlapped \subseteq Node \X Node
      BY <2>1
    <3> HIDE DEF l, TypeOK
    <3> QED BY <3>1, <3>2
  <2> QED BY <1>1, <2>2, <2>3, <2>4, <2>5 DEF Send
<1>2. ASSUME NEW c \in Call, Transmit(c) PROVE TypeOK'
  BY <1>2 DEF Transmit
<1>3. ASSUME NEW c \in Call, TransmitFails(c) PROVE TypeOK'
  BY <1>3 DEF TransmitFails
<1>4. ASSUME NEW c \in Call, CheckAck(c) PROVE TypeOK'
  <2>1. pc' \in [Call -> {"idle"} \cup Active \cup Returned]
    BY <1>4 DEF CheckAck
  <2>2. tries' \in [Call -> 0..MaxTries]
    <3>1. tries[c] \in 0..MaxTries
      OBVIOUS
    <3>2. tries[c] < MaxTries => tries[c] + 1 \in 0..MaxTries
      <4> HIDE CallAssumption DEF TypeOK, Index, vars, senderVars, listenerVars, chanVars, netVars
      <4> QED BY <3>1
    <3>3. tries' = tries \/ (tries[c] < MaxTries /\ tries' = [tries EXCEPT ![c] = @ + 1])
      BY <1>4 DEF CheckAck
    <3> QED BY <3>2, <3>3
  <2> QED BY <1>4, <2>1, <2>2 DEF CheckAck
<1>5. ASSUME NEW c \in Call, GiveUp(c) PROVE TypeOK'
  <2>1. From[c] \in Node /\ To[c] \in Node
    OBVIOUS
  <2>2. sendFrame' \in [Node -> [Node -> Nat]]
    BY <1>5, <2>1 DEF GiveUp
  <2>3. ackFrame' \in [Node -> SUBSET Index]
    BY <1>5, <2>1 DEF GiveUp
  <2>4. pc' \in [Call -> {"idle"} \cup Active \cup Returned] /\ givenUp' \subseteq Node \X Node
    BY <1>5, <2>1 DEF GiveUp
  <2> QED BY <1>5, <2>2, <2>3, <2>4 DEF GiveUp
<1>6. ASSUME NEW n \in Node, ReadAck(n) PROVE TypeOK'
  <2>1. PICK a \in acks : a[2] = n /\ sAckChan' = [sAckChan EXCEPT ![n] = Append(@, <<a[1], a[3]>>)]
    BY <1>6 DEF ReadAck
  <2>2. <<a[1], a[3]>> \in Index
    BY <2>1
  <2>3. Append(sAckChan[n], <<a[1], a[3]>>) \in Seq(Index)
    BY <2>2
  <2>4. sAckChan' \in [Node -> Seq(Index)]
    BY <2>1, <2>3
  <2> QED BY <1>6, <2>4 DEF ReadAck
<1>7. ASSUME NEW n \in Node, ReadData(n) PROVE TypeOK'
  <2>1. PICK c \in datagrams :
          /\ lAckChan' = [lAckChan EXCEPT ![n] = Append(@, <<From[c], frame[c]>>)]
          /\ cur' = [cur EXCEPT ![n] = c]
    BY <1>7 DEF ReadData
  <2>2. <<From[c], frame[c]>> \in Index /\ c \in Call
    BY <2>1
  <2>3. Append(lAckChan[n], <<From[c], frame[c]>>) \in Seq(Index)
    BY <2>2
  <2>4. lAckChan' \in [Node -> Seq(Index)]
    BY <2>1, <2>3
  <2>5. cur' \in [Node -> Call \cup {NoCall}]
    BY <2>1, <2>2
  <2> QED BY <1>7, <2>4, <2>5 DEF ReadData
<1>8. ASSUME NEW n \in Node, OrderAhead(n) PROVE TypeOK'
  BY <1>8 DEF OrderAhead, SameIndex
<1>9. ASSUME NEW n \in Node, OrderDuplicate(n) PROVE TypeOK'
  BY <1>9 DEF OrderDuplicate
<1>10. ASSUME NEW n \in Node, OrderNext(n) PROVE TypeOK'
  <2> DEFINE c == cur[n]  flushed == SameIndex(n, c)
  <2>1. c \in Call /\ From[c] \in Node /\ flushed \subseteq msgBuf[n] /\ msgBuf[n] \subseteq Call
    BY <1>10 DEF OrderNext, SameIndex
  <2>2. recvFrame' \in [Node -> [Node -> Nat]]
    <3>1. recvFrame' = [recvFrame EXCEPT ![n][From[c]] = @ + 1]
      BY <1>10 DEF OrderNext
    <3>2. recvFrame \in [Node -> [Node -> Nat]]
      OBVIOUS
    <3> HIDE CallAssumption, BoundAssumption DEF TypeOK, c, flushed, Index
    <3> QED BY <2>1, <3>1, <3>2
  <2>3. flushed # {} => (CHOOSE b \in flushed : TRUE) \in Call
    BY <2>1
  <2>4. delivered' \in [Node -> Seq(Call)]
    <3>1. Append(delivered[n], c) \in Seq(Call)
      BY <2>1
    <3>2. flushed # {} => Append(Append(delivered[n], c), CHOOSE b \in flushed : TRUE) \in Seq(Call)
      BY <2>3, <3>1
    <3>3. delivered' = [delivered EXCEPT ![n] =
                          IF flushed = {} THEN Append(@, c)
                          ELSE Append(Append(@, c), CHOOSE b \in flushed : TRUE)]
      BY <1>10 DEF OrderNext
    <3> QED BY <3>1, <3>2, <3>3
  <2>5. msgBuf' \in [Node -> SUBSET Call] /\ cur' \in [Node -> Call \cup {NoCall}]
    BY <1>10, <2>1 DEF OrderNext
  <2> QED BY <1>10, <2>2, <2>4, <2>5 DEF OrderNext
<1>11. ASSUME NEW n \in Node, RecordAck(n) PROVE TypeOK'
  <2>1. ackFrame' \in [Node -> SUBSET Index]
    BY <1>11 DEF RecordAck
  <2>2. sAckChan' \in [Node -> Seq(Index)]
    BY <1>11 DEF RecordAck
  <2> QED BY <1>11, <2>1, <2>2 DEF RecordAck
<1>12. ASSUME NEW n \in Node, ReplyAck(n) PROVE TypeOK'
  <2>1. Head(lAckChan[n]) \in Index
    BY <1>12 DEF ReplyAck
  <2>2. acks' \subseteq Node \X Node \X Nat
    <3> DEFINE a == <<n, Head(lAckChan[n])[1], Head(lAckChan[n])[2]>>
    <3>1. a \in Node \X Node \X Nat
      BY <2>1
    <3>2. acks' = acks \/ acks' = acks \cup {a}
      BY <1>12 DEF ReplyAck
    <3>3. acks \subseteq Node \X Node \X Nat
      OBVIOUS
    <3> HIDE DEF a, TypeOK
    <3> QED BY <3>1, <3>2, <3>3
  <2>3. lAckChan' \in [Node -> Seq(Index)]
    BY <1>12 DEF ReplyAck
  <2> QED BY <1>12, <2>2, <2>3 DEF ReplyAck
<1>13. ASSUME NEW n \in Node, Shutdown(n) PROVE TypeOK'
  BY <1>13 DEF Shutdown
<1>14. CASE UNCHANGED vars
  BY <1>14
<1> QED
  BY <1>1, <1>2, <1>3, <1>4, <1>5, <1>6, <1>7, <1>8, <1>9, <1>10, <1>11, <1>12, <1>13, <1>14
  DEF Next, SendStep, ListenerStep, AckListenerStep

(* Every variable keeps its type: frames are numbers, calls end in one of  *)
(* send's two results and never retry more than MaxTries times.            *)
THEOREM TypeCorrect == Spec => []TypeOK
<1>1. Init => TypeOK
  BY CallAssumption, BoundAssumption DEF Init, TypeOK
<1> QED BY <1>1, TypeCorrectStep, PTL DEF Spec

-----------------------------------------------------------------------------
(* A call that was numbered stays numbered, with the same frame.           *)
LEMMA SentStable ==
  ASSUME TypeOK, [Next]_vars, NEW c \in Call, Sent(c)
  PROVE  Sent(c)' /\ frame'[c] = frame[c]
<1> USE DEF Sent
<1>1. pc \in [Call -> {"idle"} \cup Active \cup Returned] /\ frame \in [Call -> Nat]
  BY DEF TypeOK
<1>2. ASSUME NEW d \in Call, Send(d) PROVE Sent(c)' /\ frame'[c] = frame[c]
  BY <1>1, <1>2 DEF Send
<1>3. ASSUME NEW d \in Call, SendStep(d) PROVE Sent(c)' /\ frame'[c] = frame[c]
  BY <1>1, <1>3 DEF SendStep, Transmit, TransmitFails, CheckAck, GiveUp
<1>4. ASSUME NEW n \in Node, ListenerStep(n) \/ AckListenerStep(n) \/ Shutdown(n)
      PROVE Sent(c)' /\ frame'[c] = frame[c]
  BY <1>4 DEF ListenerStep, ReadAck, ReadData, OrderAhead, OrderDuplicate, OrderNext,
     AckListenerStep, RecordAck, ReplyAck, Shutdown, senderVars
<1>5. CASE UNCHANGED vars
  BY <1>5 DEF vars, senderVars
<1> QED BY <1>2, <1>3, <1>4, <1>5 DEF Next

\* What an execution of send changes of the state the listeners work on.
LEMMA SenderLeavesListener ==
  ASSUME NEW c \in Call, Send(c) \/ SendStep(c)
  PROVE  UNCHANGED <<listenerVars, chanVars, acks, up>>
BY DEF Send, SendStep, Transmit, TransmitFails, CheckAck, GiveUp, netVars

\* The sequence of messages handed up grows by the frame in order and at most
\* one buffered message with the same number.
LEMMA OrderNextDelivers ==
  ASSUME TypeOK, NEW n \in Node, OrderNext(n)
  PROVE  /\ \A m \in Node : m # n => delivered'[m] = delivered[m]
         /\ \A i \in DOMAIN delivered[n] :
              i \in DOMAIN delivered'[n] /\ delivered'[n][i] = delivered[n][i]
         /\ Len(delivered[n]) + 1 \in DOMAIN delivered'[n]
         /\ delivered'[n][Len(delivered[n]) + 1] = cur[n]
         /\ \A i \in DOMAIN delivered'[n] :
              \/ i \in DOMAIN delivered[n]
              \/ /\ i > Len(delivered[n])
                 /\ delivered'[n][i] \in {cur[n]} \cup SameIndex(n, cur[n])
         /\ SameIndex(n, cur[n]) = {} => delivered'[n] = Append(delivered[n], cur[n])
<1> DEFINE c == cur[n]
           flushed == SameIndex(n, c)
           b == CHOOSE x \in flushed : TRUE
<1>1. /\ delivered \in [Node -> Seq(Call)] /\ delivered[n] \in Seq(Call)
      /\ c \in Call
      /\ flushed \subseteq Call
  BY DEF TypeOK, OrderNext, SameIndex
<1>2. delivered' = [delivered EXCEPT ![n] =
                      IF flushed = {} THEN Append(@, c) ELSE Append(Append(@, c), b)]
  BY DEF OrderNext
<1>3. flushed # {} => b \in flushed
  OBVIOUS
<1> HIDE DEF c, flushed, b
<1>4. CASE flushed = {}
  <2>1. delivered' = [delivered EXCEPT ![n] = Append(delivered[n], c)]
    BY <1>2, <1>4
  <2> QED BY <1>1, <1>4, <2>1 DEF c, flushed
<1>5. CASE flushed # {}
  <2>1. delivered' = [delivered EXCEPT ![n] = Append(Append(delivered[n], c), b)]
    BY <1>2, <1>5
  <2>2. b \in flushed /\ b \in Call
    BY <1>1, <1>3, <1>5
  <2>3. Append(delivered[n], c) \in Seq(Call)
    BY <1>1
  <2> QED BY <1>1, <1>5, <2>1, <2>2, <2>3 DEF c, flushed
<1> QED BY <1>4, <1>5

-----------------------------------------------------------------------------
(* Every datagram, buffered frame and delivered message is a numbered call *)
(* addressed to the node that has it.                                      *)
THEOREM ProvenanceCorrect == Spec => []Provenance
<1> USE CallAssumption
<1>1. Init => Provenance
  BY DEF Init, Provenance, Sent
<1>2. TypeOK /\ Provenance /\ [Next]_vars => Provenance'
  <2> SUFFICES ASSUME TypeOK, Provenance, [Next]_vars PROVE Provenance'
    OBVIOUS
  <2>1. \A c \in Call : Sent(c) => Sent(c)' /\ frame'[c] = frame[c]
    BY SentStable
  <2>2. /\ pc \in [Call -> {"idle"} \cup Active \cup Returned]
        /\ frame \in [Call -> Nat]
        /\ sendFrame \in [Node -> [Node -> Nat]]
        /\ datagrams \subseteq Call
        /\ msgBuf \in [Node -> SUBSET Call]
        /\ cur \in [Node -> Call \cup {NoCall}]
        /\ delivered \in [Node -> Seq(Call)]
    BY DEF TypeOK
  <2>3. ASSUME NEW c \in Call, Send(c) PROVE Provenance'
    <3>1. \A d \in Call : Sent(d)' => frame'[d] >= 1
      <4>1. frame'[c] = sendFrame[From[c]][To[c]] + 1
        BY <2>2, <2>3 DEF Send
      <4>2. \A d \in Call : d # c => frame'[d] = frame[d] /\ (Sent(d)' => Sent(d))
        BY <2>2, <2>3 DEF Send, Sent
      <4>3. sendFrame[From[c]][To[c]] \in Nat
        BY <2>2
      <4>4. \A d \in Call : Sent(d) => frame[d] >= 1
        BY DEF Provenance
      <4> QED BY <4>1, <4>2, <4>3, <4>4
    <3>2. UNCHANGED <<datagrams, cur, msgBuf, delivered>>
      BY <2>3 DEF Send, listenerVars, netVars
    <3> HIDE DEF Sent
    <3>3. \A d \in datagrams : Sent(d)'
      BY <2>1, <2>2 DEF Provenance
    <3>4. \A m \in Node : \A b \in msgBuf[m] : Sent(b)' /\ To[b] = m
      BY <2>1, <2>2 DEF Provenance
    <3>5. ASSUME NEW m \in Node, cur[m] # NoCall PROVE Sent(cur[m])' /\ To[cur[m]] = m
      <4>1. cur[m] \in Call
        BY <2>2, <3>5
      <4>2. Sent(cur[m]) /\ To[cur[m]] = m
        BY <3>5 DEF Provenance
      <4>3. Sent(cur[m])'
        BY <2>1, <3>2, <4>1, <4>2 DEF Sent
      <4> QED BY <4>2, <4>3
    <3>6. ASSUME NEW m \in Node, NEW i \in DOMAIN delivered[m]
          PROVE  Sent(delivered[m][i])' /\ To[delivered[m][i]] = m
      <4>1. delivered[m][i] \in Call
        BY <2>2
      <4>2. Sent(delivered[m][i]) /\ To[delivered[m][i]] = m
        BY DEF Provenance
      <4>3. Sent(delivered[m][i])'
        BY <2>1, <3>2, <4>1, <4>2 DEF Sent
      <4> QED BY <4>2, <4>3
    <3> QED BY <3>1, <3>2, <3>3, <3>4, <3>5, <3>6 DEF Provenance
  <2>4. ASSUME NEW c \in Call, SendStep(c) PROVE Provenance'
    <3>1. Sent(c) /\ \A d \in Call : Sent(d)' => Sent(d)
      BY <2>2, <2>4 DEF SendStep, Transmit, TransmitFails, CheckAck, GiveUp, Sent
    <3>2. UNCHANGED <<cur, msgBuf, delivered>>
      BY <2>4, SenderLeavesListener DEF listenerVars
    <3>3. datagrams' \subseteq datagrams \cup {c}
      BY <2>4 DEF SendStep, Transmit, TransmitFails, CheckAck, GiveUp, netVars
    <3>4. \A d \in Call : Sent(d)' => frame'[d] >= 1
      BY <2>1, <3>1 DEF Provenance
    <3>5. \A d \in datagrams' : Sent(d)'
      BY <2>1, <2>2, <3>1, <3>3 DEF Provenance
    <3> QED BY <2>1, <2>2, <3>2, <3>4, <3>5 DEF Provenance
  <2>5. ASSUME NEW n \in Node, ReadData(n) PROVE Provenance'
    <3>1. PICK c \in datagrams : To[c] = n /\ cur' = [cur EXCEPT ![n] = c]
      BY <2>5 DEF ReadData
    <3>2. UNCHANGED <<pc, frame, datagrams, msgBuf, delivered>>
      BY <2>5 DEF ReadData, senderVars, netVars
    <3>3. Sent(c)
      BY <3>1 DEF Provenance
    <3>4. \A d : Sent(d)' <=> Sent(d)
      BY <3>2 DEF Sent
    <3>5. \A m \in Node : (cur'[m] = c /\ m = n) \/ cur'[m] = cur[m]
      BY <2>2, <3>1
    <3> HIDE DEF Sent
    <3>6. ASSUME NEW m \in Node, cur'[m] # NoCall PROVE (Sent(cur[m]) /\ To[cur[m]] = m)'
      <4>1. CASE cur'[m] = c /\ m = n
        <5>1. Sent(c)'
          BY <3>3, <3>4
        <5> QED BY <3>1, <4>1, <5>1 DEF Sent
      <4>2. CASE cur'[m] = cur[m]
        <5>1. Sent(cur[m]) /\ To[cur[m]] = m
          BY <3>6, <4>2 DEF Provenance
        <5> QED BY <3>2, <4>2, <5>1 DEF Sent
      <4> QED BY <3>5, <4>1, <4>2
    <3>7. /\ \A d \in Call : Sent(d)' => frame'[d] >= 1
          /\ \A d \in datagrams' : Sent(d)'
          /\ \A m \in Node : \A b \in msgBuf'[m] : Sent(b)' /\ To[b] = m
          /\ \A m \in Node : \A i \in DOMAIN delivered'[m] :
               (Sent(delivered[m][i]) /\ To[delivered[m][i]] = m)'
      BY <3>2 DEF Provenance, Sent
    <3> QED BY <3>6, <3>7 DEF Provenance
  <2>6. ASSUME NEW n \in Node, OrderAhead(n) \/ OrderDuplicate(n) \/ OrderNext(n)
        PROVE Provenance'
    <3> DEFINE c == cur[n]
    <3>1. c \in Call /\ Sent(c) /\ To[c] = n
      BY <2>2, <2>6 DEF OrderAhead, OrderDuplicate, OrderNext, Provenance
    <3>2. UNCHANGED <<pc, frame, datagrams>> /\ cur' = [cur EXCEPT ![n] = NoCall]
      BY <2>6 DEF OrderAhead, OrderDuplicate, OrderNext, senderVars, netVars
    <3>3. \A m \in Node : \A b \in msgBuf'[m] : b \in msgBuf[m] \/ (m = n /\ b = c)
      <4>1. CASE OrderAhead(n)
        BY <2>2, <4>1 DEF OrderAhead
      <4>2. CASE OrderDuplicate(n)
        BY <4>2 DEF OrderDuplicate
      <4>3. CASE OrderNext(n)
        BY <2>2, <4>3 DEF OrderNext
      <4> QED BY <2>6, <4>1, <4>2, <4>3
    <3>4. \A m \in Node : \A i \in DOMAIN delivered'[m] :
            \/ i \in DOMAIN delivered[m] /\ delivered'[m][i] = delivered[m][i]
            \/ m = n /\ (delivered'[m][i] = c \/ delivered'[m][i] \in msgBuf[n])
      <4>1. CASE delivered' = delivered
        BY <4>1
      <4>2. CASE OrderNext(n)
        BY <4>2, OrderNextDelivers DEF SameIndex
      <4> QED BY <2>6, <4>1, <4>2 DEF OrderAhead, OrderDuplicate
    <3>5. \A m \in Node : cur'[m] # NoCall => cur'[m] = cur[m] /\ cur[m] # NoCall
      BY <2>2, <3>2
    <3>6. /\ \A d \in Call : Sent(d) => frame[d] >= 1
          /\ \A d \in datagrams : Sent(d)
          /\ \A m \in Node : cur[m] # NoCall => Sent(cur[m]) /\ To[cur[m]] = m
          /\ \A m \in Node : \A b \in msgBuf[m] : Sent(b) /\ To[b] = m
          /\ \A m \in Node : \A i \in DOMAIN delivered[m] :
               Sent(delivered[m][i]) /\ To[delivered[m][i]] = m
      BY DEF Provenance
    <3>7. pc' = pc /\ frame' = frame /\ datagrams' = datagrams
      BY <3>2
    <3> HIDE DEF c
    <3>8. \A m \in Node : cur'[m] # NoCall => pc[cur'[m]] # "idle" /\ To[cur'[m]] = m
      BY <3>5, <3>6 DEF Sent
    <3>9. \A m \in Node : \A b \in msgBuf'[m] : pc[b] # "idle" /\ To[b] = m
      BY <3>1, <3>3, <3>6 DEF Sent
    <3>10. \A m \in Node : \A i \in DOMAIN delivered'[m] :
             pc[delivered'[m][i]] # "idle" /\ To[delivered'[m][i]] = m
      BY <3>1, <3>4, <3>6 DEF Sent
    <3> QED BY <3>6, <3>7, <3>8, <3>9, <3>10 DEF Provenance, Sent
  <2>7. ASSUME NEW n \in Node, ReadAck(n) \/ AckListenerStep(n) \/ Shutdown(n)
        PROVE Provenance'
    BY <2>7 DEF ReadAck, AckListenerStep, RecordAck, ReplyAck, Shutdown, Provenance, Sent,
       senderVars, listenerVars, netVars
  <2>8. CASE UNCHANGED vars
    BY <2>8 DEF Provenance, Sent, vars, senderVars, listenerVars, netVars
  <2> QED BY <2>3, <2>4, <2>5, <2>6, <2>7, <2>8 DEF Next, ListenerStep
<1> QED BY <1>1, <1>2, TypeCorrect, PTL DEF Spec

-----------------------------------------------------------------------------
\* Only the listener's in-order case moves the count and hands messages up.
LEMMA OnlyOrderNextDelivers ==
  ASSUME [Next]_vars
  PROVE  UNCHANGED <<recvFrame, delivered>> \/ \E n \in Node : OrderNext(n)
<1>1. ASSUME NEW c \in Call, Send(c) \/ SendStep(c) PROVE UNCHANGED <<recvFrame, delivered>>
  BY <1>1, SenderLeavesListener DEF listenerVars
<1>2. ASSUME NEW n \in Node, ListenerStep(n), ~ OrderNext(n)
      PROVE  UNCHANGED <<recvFrame, delivered>>
  BY <1>2 DEF ListenerStep, ReadAck, ReadData, OrderAhead, OrderDuplicate, listenerVars
<1>3. ASSUME NEW n \in Node, AckListenerStep(n) \/ Shutdown(n)
      PROVE  UNCHANGED <<recvFrame, delivered>>
  BY <1>3 DEF AckListenerStep, RecordAck, ReplyAck, Shutdown, listenerVars
<1>4. CASE UNCHANGED vars
  BY <1>4 DEF vars, listenerVars
<1> QED BY <1>1, <1>2, <1>3, <1>4 DEF Next

(* The frames handed up for a peer are 1 to its count without a gap and    *)
(* never go back, for any network behaviour and any number of calls.       *)
THEOREM OrderedDeliveryCorrect == Spec => []OrderedDelivery
<1> USE CallAssumption
<1>1. Init => OrderedDelivery
  <2> SUFFICES ASSUME Init PROVE OrderedDelivery
    OBVIOUS
  <2>1. \A n \in Node : delivered[n] = <<>> /\ \A p \in Node : recvFrame[n][p] = 0
    BY DEF Init
  <2>2. DOMAIN <<>> = {} /\ 1..0 = {}
    OBVIOUS
  <2> QED BY <2>1, <2>2 DEF OrderedDelivery
<1>2. TypeOK /\ Provenance /\ OrderedDelivery /\ [Next]_vars => OrderedDelivery'
  <2> SUFFICES ASSUME TypeOK, Provenance, OrderedDelivery, [Next]_vars
               PROVE  OrderedDelivery'
    OBVIOUS
  <2>1. /\ frame \in [Call -> Nat]
        /\ recvFrame \in [Node -> [Node -> Nat]]
        /\ delivered \in [Node -> Seq(Call)]
        /\ cur \in [Node -> Call \cup {NoCall}]
    BY DEF TypeOK
  <2>2. \A n \in Node : \A i \in DOMAIN delivered[n] :
          delivered[n][i] \in Call /\ frame'[delivered[n][i]] = frame[delivered[n][i]]
    <3> SUFFICES ASSUME NEW n \in Node, NEW i \in DOMAIN delivered[n]
                 PROVE  /\ delivered[n][i] \in Call
                        /\ frame'[delivered[n][i]] = frame[delivered[n][i]]
      OBVIOUS
    <3>1. delivered[n][i] \in Call
      BY <2>1
    <3>2. Sent(delivered[n][i])
      BY DEF Provenance
    <3> QED BY <3>1, <3>2, SentStable
  <2>3. CASE UNCHANGED <<recvFrame, delivered>>
    <3> SUFFICES ASSUME NEW n \in Node
                 PROVE  /\ \A p \in Node : \A f \in 1..recvFrame'[n][p] :
                            \E i \in DOMAIN delivered'[n] :
                              From[delivered'[n][i]] = p /\ frame'[delivered'[n][i]] = f
                        /\ \A j \in DOMAIN delivered'[n] :
                             /\ frame'[delivered'[n][j]] <= recvFrame'[n][From[delivered'[n][j]]]
                             /\ \A i \in 1..j :
                                  From[delivered'[n][i]] = From[delivered'[n][j]]
                                    => frame'[delivered'[n][i]] <= frame'[delivered'[n][j]]
      BY DEF OrderedDelivery
    <3>1. delivered' = delivered /\ recvFrame' = recvFrame
      BY <2>3
    <3>2. \A j \in DOMAIN delivered[n] : \A i \in 1..j : i \in DOMAIN delivered[n]
      BY <2>1
    <3> QED BY <2>2, <3>1, <3>2 DEF OrderedDelivery
  <2>4. ASSUME NEW n \in Node, OrderNext(n) PROVE OrderedDelivery'
    <3> DEFINE c == cur[n]
               last == Len(delivered[n])
    <3>1. /\ c \in Call
          /\ frame[c] = recvFrame[n][From[c]] + 1
          /\ recvFrame' = [recvFrame EXCEPT ![n][From[c]] = @ + 1]
          /\ frame' = frame
      BY <2>1, <2>4 DEF OrderNext, senderVars
    <3>2. \A m, p \in Node :
            recvFrame'[m][p] = IF m = n /\ p = From[c] THEN frame[c] ELSE recvFrame[m][p]
      BY <2>1, <3>1
    <3>3. \A m \in Node : \A i \in DOMAIN delivered'[m] :
            \/ i \in DOMAIN delivered[m] /\ delivered'[m][i] = delivered[m][i]
            \/ /\ m = n /\ i > last
               /\ From[delivered'[m][i]] = From[c] /\ frame[delivered'[m][i]] = frame[c]
      BY <2>4, <3>1, OrderNextDelivers DEF SameIndex
    <3>4. \A m \in Node : \A i \in DOMAIN delivered[m] :
            i \in DOMAIN delivered'[m] /\ delivered'[m][i] = delivered[m][i]
      BY <2>4, OrderNextDelivers
    <3>5. last + 1 \in DOMAIN delivered'[n] /\ delivered'[n][last + 1] = c
      BY <2>4, OrderNextDelivers
    <3>6. \A m \in Node : \A j \in DOMAIN delivered[m] : \A i \in 1..j : i \in DOMAIN delivered[m]
      BY <2>1
    <3>7. delivered' \in [Node -> Seq(Call)]
      BY TypeCorrectStep DEF TypeOK
    <3> HIDE DEF c, last
    <3>8. ASSUME NEW m \in Node, NEW p \in Node, NEW f \in 1..recvFrame'[m][p]
          PROVE  \E i \in DOMAIN delivered'[m] :
                   From[delivered'[m][i]] = p /\ frame[delivered'[m][i]] = f
      <4>1. CASE f <= recvFrame[m][p]
        <5>1. f \in 1..recvFrame[m][p]
          BY <2>1, <3>1, <3>2, <4>1
        <5>2. PICK i \in DOMAIN delivered[m] :
                From[delivered[m][i]] = p /\ frame[delivered[m][i]] = f
          BY <5>1 DEF OrderedDelivery
        <5> QED BY <3>4, <5>2
      <4>2. CASE ~ (f <= recvFrame[m][p])
        <5>1. m = n /\ p = From[c] /\ f = frame[c]
          BY <2>1, <3>1, <3>2, <4>2
        <5> QED BY <3>5, <5>1
      <4> QED BY <4>1, <4>2
    <3>9. ASSUME NEW m \in Node, NEW j \in DOMAIN delivered'[m]
          PROVE  frame[delivered'[m][j]] <= recvFrame'[m][From[delivered'[m][j]]]
      <4>1. CASE j \in DOMAIN delivered[m] /\ delivered'[m][j] = delivered[m][j]
        <5>1. frame[delivered[m][j]] <= recvFrame[m][From[delivered[m][j]]]
          BY <4>1 DEF OrderedDelivery
        <5>2. delivered[m][j] \in Call /\ From[delivered[m][j]] \in Node
          BY <2>2, <4>1
        <5> DEFINE d == delivered[m][j]
        <5>3. frame[d] \in Nat /\ recvFrame[m][From[d]] \in Nat
          BY <2>1, <5>2
        <5>4. \/ recvFrame'[m][From[d]] = recvFrame[m][From[d]]
              \/ recvFrame'[m][From[d]] = recvFrame[m][From[d]] + 1
          <6>1. frame[c] = recvFrame[n][From[c]] + 1
            BY <3>1
          <6>2. From[d] \in Node
            BY <5>2
          <6> HIDE DEF d
          <6> QED BY <3>2, <6>1, <6>2
        <5> QED BY <4>1, <5>1, <5>3, <5>4
      <4>2. CASE /\ m = n
                 /\ From[delivered'[m][j]] = From[c] /\ frame[delivered'[m][j]] = frame[c]
        BY <2>1, <3>1, <3>2, <4>2
      <4> QED BY <3>3, <4>1, <4>2
    <3>10. ASSUME NEW m \in Node, NEW j \in DOMAIN delivered'[m], NEW i \in 1..j,
                  From[delivered'[m][i]] = From[delivered'[m][j]]
           PROVE  frame[delivered'[m][i]] <= frame[delivered'[m][j]]
      <4>1. i \in DOMAIN delivered'[m]
        BY <3>7
      <4>2. CASE j \in DOMAIN delivered[m] /\ delivered'[m][j] = delivered[m][j]
        <5>1. i \in DOMAIN delivered[m]
          BY <3>6, <4>2
        <5> QED BY <3>4, <3>10, <4>2, <5>1 DEF OrderedDelivery
      <4>3. CASE /\ m = n
                 /\ From[delivered'[m][j]] = From[c] /\ frame[delivered'[m][j]] = frame[c]
        <5>1. frame[delivered'[m][i]] <= recvFrame'[m][From[c]]
          BY <3>9, <3>10, <4>1, <4>3
        <5>2. recvFrame'[m][From[c]] = frame[c]
          BY <3>1, <3>2, <4>3
        <5> QED BY <4>3, <5>1, <5>2
      <4> QED BY <3>3, <4>2, <4>3
    <3> QED BY <3>1, <3>8, <3>9, <3>10 DEF OrderedDelivery
  <2> QED BY <2>3, <2>4, OnlyOrderNextDelivers
<1> QED BY <1>1, <1>2, TypeCorrect, ProvenanceCorrect, PTL DEF Spec

-----------------------------------------------------------------------------
\* A new acknowledgement stems from a datagram the listener just took up.
LEMMA AckPendingSource ==
  ASSUME TypeOK, [Next]_vars, NEW n \in Node, NEW p \in Node, NEW f \in Nat,
         AckPending(n, p, f)'
  PROVE  \/ AckPending(n, p, f)
         \/ \E c \in datagrams :
              From[c] = n /\ To[c] = p /\ frame[c] = f /\ cur'[p] = c
<1> DEFINE Goal == \/ AckPending(n, p, f)
                   \/ \E c \in datagrams :
                        From[c] = n /\ To[c] = p /\ frame[c] = f /\ cur'[p] = c
<1>1. /\ lAckChan \in [Node -> Seq(Index)]
      /\ sAckChan \in [Node -> Seq(Index)]
      /\ cur \in [Node -> Call \cup {NoCall}]
      /\ acks \subseteq Node \X Node \X Nat
  BY DEF TypeOK
<1>2. CASE UNCHANGED <<chanVars, acks>>
  BY <1>2 DEF AckPending, chanVars
<1>3. ASSUME NEW m \in Node, ReadAck(m) PROVE Goal
  <2>1. PICK a \in acks : a[2] = m /\ sAckChan' = [sAckChan EXCEPT ![m] = Append(@, <<a[1], a[3]>>)]
    BY <1>3 DEF ReadAck
  <2>2. a = <<a[1], m, a[3]>> /\ <<a[1], a[3]>> \in Index
    BY <1>1, <2>1 DEF Index
  <2>3. UNCHANGED <<lAckChan, acks>>
    BY <1>3 DEF ReadAck, netVars
  <2>4. ASSUME NEW i \in DOMAIN sAckChan'[n], sAckChan'[n][i] = <<p, f>>, m = n
        PROVE  Goal
    <3>1. sAckChan'[n] = Append(sAckChan[n], <<a[1], a[3]>>)
      BY <1>1, <2>1, <2>4
    <3>2. sAckChan[n] \in Seq(Index)
      BY <1>1
    <3>3. \/ i \in DOMAIN sAckChan[n] /\ sAckChan[n][i] = <<p, f>>
          \/ <<a[1], a[3]>> = <<p, f>>
      BY <2>2, <2>4, <3>1, <3>2
    <3> QED BY <2>1, <2>2, <2>4, <3>3 DEF AckPending
  <2>5. CASE m # n
    BY <1>1, <2>1, <2>3, <2>5 DEF AckPending
  <2> QED BY <2>3, <2>4, <2>5 DEF AckPending
<1>4. ASSUME NEW m \in Node, ReadData(m) PROVE Goal
  <2>1. PICK c \in datagrams :
          /\ To[c] = m
          /\ lAckChan' = [lAckChan EXCEPT ![m] = Append(@, <<From[c], frame[c]>>)]
          /\ cur' = [cur EXCEPT ![m] = c]
    BY <1>4 DEF ReadData
  <2>2. UNCHANGED <<sAckChan, acks>>
    BY <1>4 DEF ReadData, netVars
  <2>3. ASSUME NEW i \in DOMAIN lAckChan'[p], lAckChan'[p][i] = <<n, f>>, m = p
        PROVE  Goal
    <3>1. lAckChan'[p] = Append(lAckChan[p], <<From[c], frame[c]>>)
      BY <1>1, <2>1, <2>3
    <3>2. lAckChan[p] \in Seq(Index)
      BY <1>1
    <3>3. \/ i \in DOMAIN lAckChan[p] /\ lAckChan[p][i] = <<n, f>>
          \/ <<From[c], frame[c]>> = <<n, f>>
      BY <2>3, <3>1, <3>2
    <3>4. cur'[p] = c
      BY <1>1, <2>1, <2>3
    <3> QED BY <2>1, <2>3, <3>3, <3>4 DEF AckPending
  <2>4. CASE m # p
    BY <1>1, <2>1, <2>2, <2>4 DEF AckPending
  <2> QED BY <2>2, <2>3, <2>4 DEF AckPending
<1>5. ASSUME NEW m \in Node, RecordAck(m) PROVE Goal
  <2>1. /\ sAckChan[m] # <<>>
        /\ sAckChan' = [sAckChan EXCEPT ![m] = Tail(@)]
        /\ UNCHANGED <<lAckChan, acks>>
    BY <1>5 DEF RecordAck, netVars
  <2>2. ASSUME NEW i \in DOMAIN sAckChan'[n], sAckChan'[n][i] = <<p, f>>, m = n
        PROVE  Goal
    <3>1. i + 1 \in DOMAIN sAckChan[n] /\ sAckChan[n][i + 1] = <<p, f>>
      BY <1>1, <2>1, <2>2
    <3> QED BY <3>1 DEF AckPending
  <2>3. CASE m # n
    BY <1>1, <2>1, <2>3 DEF AckPending
  <2> QED BY <2>1, <2>2, <2>3 DEF AckPending
<1>6. ASSUME NEW m \in Node, ReplyAck(m) PROVE Goal
  <2> DEFINE a == Head(lAckChan[m])
  <2>1. /\ lAckChan[m] # <<>>
        /\ acks' \subseteq acks \cup {<<m, a[1], a[2]>>}
        /\ lAckChan' = [lAckChan EXCEPT ![m] = Tail(@)]
        /\ UNCHANGED sAckChan
    BY <1>6 DEF ReplyAck
  <2>2. a \in Index /\ 1 \in DOMAIN lAckChan[m] /\ lAckChan[m][1] = a
    BY <1>1, <2>1
  <2>3. CASE <<p, n, f>> \in acks'
    <3>1. <<p, n, f>> \in acks \/ (m = p /\ a[1] = n /\ a[2] = f)
      BY <2>1, <2>3
    <3>2. a = <<a[1], a[2]>>
      BY <2>2 DEF Index
    <3> HIDE DEF a
    <3> QED BY <2>2, <3>1, <3>2 DEF AckPending
  <2>4. ASSUME NEW i \in DOMAIN lAckChan'[p], lAckChan'[p][i] = <<n, f>>
        PROVE  Goal
    <3>1. \E j \in DOMAIN lAckChan[p] : lAckChan[p][j] = <<n, f>>
      <4>1. CASE m = p
        <5>1. i + 1 \in DOMAIN lAckChan[p] /\ lAckChan[p][i + 1] = <<n, f>>
          BY <1>1, <2>1, <2>4, <4>1
        <5> QED BY <5>1
      <4>2. CASE m # p
        BY <1>1, <2>1, <2>4, <4>2
      <4> QED BY <4>1, <4>2
    <3> QED BY <3>1 DEF AckPending
  <2> QED BY <2>1, <2>3, <2>4 DEF AckPending
<1>7. ASSUME NEW c \in Call, Send(c) \/ SendStep(c) PROVE UNCHANGED <<chanVars, acks>>
  BY <1>7, SenderLeavesListener
<1>8. ASSUME NEW m \in Node, OrderAhead(m) \/ OrderDuplicate(m) \/ OrderNext(m) \/ Shutdown(m)
      PROVE  UNCHANGED <<chanVars, acks>>
  BY <1>8 DEF OrderAhead, OrderDuplicate, OrderNext, Shutdown, netVars
<1>9. CASE UNCHANGED vars
  BY <1>2, <1>9 DEF vars, netVars
<1> QED
  BY <1>2, <1>3, <1>4, <1>5, <1>6, <1>7, <1>8, <1>9 DEF Next, ListenerStep, AckListenerStep

\* What a step may do to a node's own numbering and to the peers it gave up.
LEMMA NumberingSteps ==
  ASSUME TypeOK, [Next]_vars
  PROVE  \/ \E c \in Call : Send(c)
         \/ \E c \in Call : GiveUp(c)
         \/ UNCHANGED <<sendFrame, frame, givenUp>> /\ \A c \in Call : Sent(c)' <=> Sent(c)
<1>1. pc \in [Call -> {"idle"} \cup Active \cup Returned]
  BY DEF TypeOK
<1>2. ASSUME NEW c \in Call, Transmit(c) \/ TransmitFails(c) \/ CheckAck(c)
      PROVE  UNCHANGED <<sendFrame, frame, givenUp>> /\ \A d \in Call : Sent(d)' <=> Sent(d)
  BY <1>1, <1>2 DEF Transmit, TransmitFails, CheckAck, history, Sent
<1>3. ASSUME NEW n \in Node, ListenerStep(n) \/ AckListenerStep(n) \/ Shutdown(n)
      PROVE  UNCHANGED <<sendFrame, frame, givenUp, pc>>
  BY <1>3 DEF ListenerStep, ReadAck, ReadData, OrderAhead, OrderDuplicate, OrderNext,
     AckListenerStep, RecordAck, ReplyAck, Shutdown, senderVars, history
<1>4. CASE UNCHANGED vars
  BY <1>4 DEF vars, senderVars, history, Sent
<1> QED BY <1>2, <1>3, <1>4 DEF Next, SendStep, Sent

\* Frame numbers of a link that was never given up are unique, and no
\* acknowledgement runs ahead of them.
THEOREM NumberingCorrect == Spec => []Numbering
<1> USE CallAssumption
<1>1. Init => Numbering
  <2> SUFFICES ASSUME Init PROVE Numbering
    OBVIOUS
  <2>1. \A c \in Call : ~ Sent(c)
    BY DEF Init, Sent
  <2>2. \A n, p \in Node : \A f \in Nat : ~ AckPending(n, p, f)
    BY DEF Init, AckPending
  <2> QED BY <2>1, <2>2 DEF Numbering
<1>2. TypeOK /\ Provenance /\ Numbering /\ [Next]_vars => Numbering'
  <2> SUFFICES ASSUME TypeOK, Provenance, Numbering, [Next]_vars PROVE Numbering'
    OBVIOUS
  <2>1. /\ frame \in [Call -> Nat]
        /\ sendFrame \in [Node -> [Node -> Nat]]
        /\ pc \in [Call -> {"idle"} \cup Active \cup Returned]
        /\ datagrams \subseteq Call
    BY DEF TypeOK
  <2>2. /\ \A c \in Call : Sent(c) /\ Link(c) \notin givenUp
              => frame[c] <= sendFrame[From[c]][To[c]]
        /\ \A c, d \in Call :
              Sent(c) /\ Sent(d) /\ Link(c) = Link(d) /\ Link(c) \notin givenUp /\ c # d
                => frame[c] # frame[d]
    BY DEF Numbering
  <2>3. ASSUME NEW n \in Node, NEW p \in Node, NEW f \in Nat,
               <<n, p>> \notin givenUp, AckPending(n, p, f)'
        PROVE  f <= sendFrame[n][p]
    <3>1. CASE AckPending(n, p, f)
      BY <2>3, <3>1 DEF Numbering
    <3>2. ASSUME NEW c \in datagrams, From[c] = n, To[c] = p, frame[c] = f
          PROVE  f <= sendFrame[n][p]
      BY <2>1, <2>2, <2>3, <3>2 DEF Provenance, Link
    <3> QED BY <2>3, <3>1, <3>2, AckPendingSource
  <2>4. ASSUME NEW c \in Call, Send(c) PROVE Numbering'
    <3> DEFINE n == From[c]
               p == To[c]
               f == sendFrame[n][p] + 1
    <3>1. /\ n \in Node /\ p \in Node
          /\ givenUp' = givenUp
          /\ frame' = [frame EXCEPT ![c] = f]
          /\ sendFrame' = [sendFrame EXCEPT ![n][p] = f]
          /\ \A d \in Call : Sent(d)' => Sent(d) \/ d = c
          /\ ~ Sent(c)
      BY <2>1, <2>4 DEF Send, Sent
    <3>2. \A m, q \in Node : sendFrame[m][q] <= sendFrame'[m][q]
      BY <2>1, <3>1
    <3>3. f \in Nat /\ sendFrame[n][p] < f /\ sendFrame'[n][p] = f /\ frame'[c] = f
      BY <2>1, <3>1
    <3>4. \A d \in Call : d # c => frame'[d] = frame[d]
      BY <2>1, <3>1
    <3>5. ASSUME NEW d \in Call, Sent(d)', Link(d) \notin givenUp
          PROVE  frame'[d] <= sendFrame'[From[d]][To[d]]
      <4>1. CASE d = c
        BY <3>3, <4>1
      <4>2. CASE d # c
        <5>1. Sent(d) /\ frame'[d] = frame[d]
          BY <3>1, <3>4, <3>5, <4>2
        <5>2. frame[d] <= sendFrame[From[d]][To[d]]
          BY <2>2, <3>5, <5>1
        <5>3. /\ From[d] \in Node /\ To[d] \in Node /\ frame[d] \in Nat
              /\ sendFrame[From[d]][To[d]] \in Nat /\ sendFrame'[From[d]][To[d]] \in Nat
          BY <2>1, <3>1, <3>3
        <5> QED BY <3>2, <5>1, <5>2, <5>3
      <4> QED BY <4>1, <4>2
    <3>6. ASSUME NEW d \in Call, Sent(d), Link(d) = Link(c), Link(d) \notin givenUp
          PROVE  frame[d] # f
      <4>1. frame[d] <= sendFrame[n][p]
        BY <2>2, <3>6 DEF Link
      <4> QED BY <2>1, <3>1, <3>3, <4>1
    <3>7. ASSUME NEW d \in Call, NEW e \in Call, Sent(d)', Sent(e)',
                 Link(d) = Link(e), Link(d) \notin givenUp, d # e
          PROVE  frame'[d] # frame'[e]
      BY <2>2, <3>1, <3>3, <3>4, <3>6, <3>7
    <3>8. ASSUME NEW m \in Node, NEW q \in Node, NEW g \in Nat,
                 <<m, q>> \notin givenUp, AckPending(m, q, g)'
          PROVE  g <= sendFrame'[m][q]
      <4>1. sendFrame[m][q] \in Nat /\ sendFrame'[m][q] \in Nat
        BY <2>1, <3>1, <3>3
      <4> QED BY <2>3, <3>2, <3>8, <4>1
    <3> QED BY <3>1, <3>5, <3>7, <3>8 DEF Numbering, Link
  <2>5. ASSUME NEW c \in Call, GiveUp(c) PROVE Numbering'
    <3>1. /\ givenUp' = givenUp \cup {Link(c)}
          /\ frame' = frame
          /\ sendFrame' = [sendFrame EXCEPT ![From[c]][To[c]] = 0]
          /\ \A d \in Call : Sent(d)' => Sent(d)
      BY <2>1, <2>5 DEF GiveUp, Sent, Link
    <3>2. \A m, q \in Node : <<m, q>> \notin givenUp'
            => <<m, q>> \notin givenUp /\ sendFrame'[m][q] = sendFrame[m][q]
      BY <2>1, <3>1 DEF Link
    <3> QED BY <2>2, <2>3, <3>1, <3>2 DEF Numbering, Link
  <2>6. CASE UNCHANGED <<sendFrame, frame, givenUp>> /\ \A c \in Call : Sent(c)' <=> Sent(c)
    BY <2>2, <2>3, <2>6 DEF Numbering, Link
  <2> QED BY <2>4, <2>5, <2>6, NumberingSteps
<1> QED BY <1>1, <1>2, TypeCorrect, ProvenanceCorrect, PTL DEF Spec

-----------------------------------------------------------------------------
\* A message the listener has read stays counted, buffered or in its hands.
LEMMA ReachedStable ==
  ASSUME TypeOK, Provenance, Numbering, [Next]_vars,
         NEW c \in Call, Sent(c), Link(c) \notin givenUp, ReachedListener(c)
  PROVE  ReachedListener(c)'
<1> USE CallAssumption
<1> DEFINE p == To[c]
           n == From[c]
<1>1. /\ p \in Node /\ n \in Node
      /\ frame'[c] = frame[c] /\ frame[c] \in Nat
      /\ recvFrame \in [Node -> [Node -> Nat]]
      /\ msgBuf \in [Node -> SUBSET Call]
      /\ cur \in [Node -> Call \cup {NoCall}]
  BY SentStable DEF TypeOK
<1>2. CASE UNCHANGED <<recvFrame, msgBuf, cur>>
  BY <1>1, <1>2 DEF ReachedListener
<1>3. ASSUME NEW m \in Node, ReadData(m) PROVE ReachedListener(c)'
  BY <1>1, <1>3 DEF ReadData, ReachedListener
<1>4. ASSUME NEW m \in Node, OrderAhead(m) PROVE ReachedListener(c)'
  <2> DEFINE d == cur[m]
  <2>1. /\ d \in Call /\ Sent(d) /\ To[d] = m
        /\ msgBuf' = [msgBuf EXCEPT ![m] = (@ \ SameIndex(m, d)) \cup {d}]
        /\ cur' = [cur EXCEPT ![m] = NoCall]
        /\ recvFrame' = recvFrame
    BY <1>1, <1>4 DEF OrderAhead, Provenance
  <2>2. ASSUME c \in SameIndex(m, d), m = p PROVE c = d
    BY <1>1, <2>1, <2>2 DEF SameIndex, Numbering, Link
  <2> HIDE DEF d
  <2>3. c \in msgBuf[p] => c \in msgBuf'[p]
    BY <1>1, <2>1, <2>2
  <2>4. cur[p] = c => cur'[p] = c \/ c \in msgBuf'[p]
    BY <1>1, <2>1 DEF d
  <2> QED BY <1>1, <2>1, <2>3, <2>4 DEF ReachedListener
<1>5. ASSUME NEW m \in Node, OrderDuplicate(m) PROVE ReachedListener(c)'
  BY <1>1, <1>5 DEF OrderDuplicate, ReachedListener
<1>6. ASSUME NEW m \in Node, OrderNext(m) PROVE ReachedListener(c)'
  <2> DEFINE d == cur[m]
  <2>1. /\ d \in Call
        /\ frame[d] = recvFrame[m][From[d]] + 1
        /\ recvFrame' = [recvFrame EXCEPT ![m][From[d]] = @ + 1]
        /\ msgBuf' = [msgBuf EXCEPT ![m] = @ \ SameIndex(m, d)]
        /\ cur' = [cur EXCEPT ![m] = NoCall]
    BY <1>1, <1>6 DEF OrderNext
  <2>2. recvFrame'[p][n] = IF m = p /\ From[d] = n THEN frame[d] ELSE recvFrame[p][n]
    BY <1>1, <2>1
  <2>3. frame[c] <= recvFrame[p][n] => frame[c] <= recvFrame'[p][n]
    BY <1>1, <2>1, <2>2
  <2>4. c \in msgBuf[p] => c \in msgBuf'[p] \/ frame[c] <= recvFrame'[p][n]
    BY <1>1, <2>1, <2>2 DEF SameIndex
  <2>5. cur[p] = c => cur'[p] = c \/ frame[c] <= recvFrame'[p][n]
    BY <1>1, <2>1, <2>2
  <2> QED BY <1>1, <2>3, <2>4, <2>5 DEF ReachedListener
<1>7. ASSUME NEW d \in Call, Send(d) \/ SendStep(d) PROVE UNCHANGED <<recvFrame, msgBuf, cur>>
  BY <1>7, SenderLeavesListener DEF listenerVars
<1>8. ASSUME NEW m \in Node, ReadAck(m) \/ AckListenerStep(m) \/ Shutdown(m)
      PROVE  UNCHANGED <<recvFrame, msgBuf, cur>>
  BY <1>8 DEF ReadAck, AckListenerStep, RecordAck, ReplyAck, Shutdown, listenerVars
<1>9. CASE UNCHANGED vars
  BY <1>2, <1>9 DEF vars, listenerVars
<1> QED BY <1>2, <1>3, <1>4, <1>5, <1>6, <1>7, <1>8, <1>9 DEF Next, ListenerStep

\* What a step may take out of ackFrame.
LEMMA AckFrameSteps ==
  ASSUME TypeOK, [Next]_vars, NEW n \in Node, NEW x \in ackFrame[n], x \notin ackFrame'[n]
  PROVE  \/ AckPending(n, x[1], x[2])
         \/ <<n, x[1]>> \in givenUp'
<1> USE CallAssumption
<1>1. /\ ackFrame \in [Node -> SUBSET Index]
      /\ sAckChan \in [Node -> Seq(Index)]
      /\ x \in Index
  BY DEF TypeOK
<1> HIDE DEF Index
<1>10. x = <<x[1], x[2]>>
  BY <1>1 DEF Index
<1>2. ASSUME NEW m \in Node, RecordAck(m) PROVE AckPending(n, x[1], x[2])
  <2>1. m = n /\ x = Head(sAckChan[n]) /\ sAckChan[n] # <<>>
    BY <1>1, <1>2 DEF RecordAck
  <2>2. 1 \in DOMAIN sAckChan[n] /\ sAckChan[n][1] = <<x[1], x[2]>>
    BY <1>1, <1>10, <2>1
  <2> QED BY <2>2 DEF AckPending
<1>3. ASSUME NEW c \in Call, GiveUp(c) PROVE <<n, x[1]>> \in givenUp'
  BY <1>1, <1>3, <1>10 DEF GiveUp
<1>4. ASSUME NEW c \in Call, Send(c) PROVE FALSE
  BY <1>1, <1>4 DEF Send
<1>5. ASSUME NEW c \in Call, Transmit(c) \/ TransmitFails(c) \/ CheckAck(c) PROVE FALSE
  BY <1>5 DEF Transmit, TransmitFails, CheckAck
<1>6. ASSUME NEW m \in Node, ListenerStep(m) \/ ReplyAck(m) \/ Shutdown(m) PROVE FALSE
  BY <1>6 DEF ListenerStep, ReadAck, ReadData, OrderAhead, OrderDuplicate, OrderNext,
     ReplyAck, Shutdown, senderVars
<1>7. CASE UNCHANGED vars
  BY <1>7 DEF vars, senderVars
<1> QED BY <1>2, <1>3, <1>4, <1>5, <1>6, <1>7 DEF Next, SendStep, AckListenerStep

\* Peers that were given up are never taken back, and a call becomes numbered
\* only in Send.
LEMMA GivenUpGrows ==
  ASSUME TypeOK, [Next]_vars
  PROVE  /\ givenUp \subseteq givenUp'
         /\ \A c \in Call : Sent(c)' => Sent(c) \/ Send(c)
<1>1. pc \in [Call -> {"idle"} \cup Active \cup Returned]
  BY DEF TypeOK
<1>2. ASSUME NEW c \in Call, Send(c)
      PROVE  givenUp' = givenUp /\ \A d \in Call : Sent(d)' => Sent(d) \/ Send(d)
  BY <1>1, <1>2 DEF Send, Sent
<1>3. ASSUME NEW c \in Call, GiveUp(c)
      PROVE  givenUp \subseteq givenUp' /\ \A d \in Call : Sent(d)' => Sent(d)
  BY <1>1, <1>3 DEF GiveUp, Sent
<1> QED BY <1>2, <1>3, NumberingSteps

(* On a link that was never given up, an acknowledgement under way, or an  *)
(* ackFrame entry that is gone, means that the listener read the frame.    *)
THEOREM AcknowledgedCorrect == Spec => []Acknowledged
<1> USE CallAssumption
<1>1. Init => Acknowledged
  BY DEF Init, Acknowledged, Sent
<1>2. TypeOK /\ Provenance /\ Numbering /\ Acknowledged /\ [Next]_vars => Acknowledged'
  <2> SUFFICES ASSUME TypeOK, Provenance, Numbering, Acknowledged, [Next]_vars,
                      NEW c \in Call, Sent(c)', Link(c) \notin givenUp'
               PROVE  /\ AckPending(From[c], To[c], frame[c])' => ReachedListener(c)'
                      /\ \/ <<To[c], frame'[c]>> \in ackFrame'[From[c]]
                         \/ ReachedListener(c)'
    BY DEF Acknowledged, Link
  <2> DEFINE n == From[c]
             p == To[c]
  <2>1. /\ n \in Node /\ p \in Node
        /\ Link(c) \notin givenUp
        /\ frame \in [Call -> Nat]
        /\ sendFrame \in [Node -> [Node -> Nat]]
        /\ ackFrame \in [Node -> SUBSET Index]
    BY GivenUpGrows DEF TypeOK
  <2>2. CASE Sent(c)
    <3>1. frame'[c] = frame[c]
      BY <2>2, SentStable
    <3>2. AckPending(n, p, frame[c]) => ReachedListener(c)
      BY <2>1, <2>2 DEF Acknowledged
    <3>3. ReachedListener(c) => ReachedListener(c)'
      BY <2>1, <2>2, ReachedStable
    <3>4. ASSUME AckPending(n, p, frame[c])' PROVE ReachedListener(c)'
      <4>1. CASE AckPending(n, p, frame[c])
        BY <3>2, <3>3, <4>1
      <4>2. ASSUME NEW d \in datagrams, From[d] = n, To[d] = p, frame[d] = frame[c], cur'[p] = d
            PROVE  ReachedListener(c)'
        <5>1. d \in Call /\ Sent(d)
          BY DEF TypeOK, Provenance
        <5>2. d = c
          BY <2>1, <2>2, <4>2, <5>1 DEF Numbering, Link
        <5> QED BY <4>2, <5>2 DEF ReachedListener
      <4>3. frame[c] \in Nat
        BY <2>1
      <4> QED BY <2>1, <3>1, <3>4, <4>1, <4>2, <4>3, AckPendingSource
    <3>5. <<p, frame[c]>> \in ackFrame'[n] \/ ReachedListener(c)'
      <4>1. CASE ReachedListener(c)
        BY <3>3, <4>1
      <4>2. CASE <<p, frame[c]>> \in ackFrame[n] /\ <<p, frame[c]>> \notin ackFrame'[n]
        <5>1. AckPending(n, p, frame[c]) \/ <<n, p>> \in givenUp'
          BY <2>1, <4>2, AckFrameSteps
        <5> QED BY <3>2, <3>3, <5>1 DEF Link
      <4> QED BY <2>2, <2>1, <4>1, <4>2 DEF Acknowledged
    <3> QED BY <3>1, <3>4, <3>5 DEF AckPending
  <2>3. CASE ~ Sent(c)
    <3>1. Send(c)
      BY <2>3, GivenUpGrows
    <3> DEFINE f == sendFrame[n][p] + 1
    <3>2. /\ frame'[c] = f /\ f \in Nat
          /\ <<p, f>> \in ackFrame'[n]
      BY <2>1, <3>1 DEF Send
    <3>3. UNCHANGED <<chanVars, acks>>
      BY <3>1 DEF Send, netVars
    <3>4. AckPending(n, p, frame[c])' => AckPending(n, p, f)
      BY <3>2, <3>3 DEF AckPending, chanVars
    <3>5. ~ AckPending(n, p, f)
      BY <2>1, <3>2 DEF Numbering, Link
    <3> QED BY <3>2, <3>4, <3>5
  <2> QED BY <2>2, <2>3
<1> QED BY <1>1, <1>2, TypeCorrect, ProvenanceCorrect, NumberingCorrect, PTL DEF Spec

(* A send that returned true was read by the peer's listener, unless the   *)
(* sender gave the peer up: whatever the network loses, repeats and        *)
(* reorders and however many calls are under way.                          *)
THEOREM TrueMeansReceivedCorrect == Spec => []TrueMeansReceived
<1> USE CallAssumption
<1>1. Init => TrueMeansReceived
  BY DEF Init, TrueMeansReceived
<1>2. TypeOK /\ Provenance /\ Numbering /\ Acknowledged /\ TrueMeansReceived /\ [Next]_vars
        => TrueMeansReceived'
  <2> SUFFICES ASSUME TypeOK, Provenance, Numbering, Acknowledged, TrueMeansReceived,
                      [Next]_vars,
                      NEW c \in Call, pc'[c] = "true", <<From[c], To[c]>> \notin givenUp'
               PROVE  ReachedListener(c)'
    BY DEF TrueMeansReceived
  <2>1. /\ pc \in [Call -> {"idle"} \cup Active \cup Returned]
        /\ Link(c) \notin givenUp
    BY GivenUpGrows DEF TypeOK, Link
  <2>2. CASE pc[c] = "true"
    BY <2>1, <2>2, ReachedStable DEF TrueMeansReceived, Link, Sent
  <2>3. CASE pc[c] # "true"
    <3>1. CheckAck(c)
      <4>1. ASSUME NEW d \in Call, Send(d) PROVE FALSE
        BY <2>1, <2>3, <4>1 DEF Send
      <4>2. ASSUME NEW d \in Call, Transmit(d) \/ TransmitFails(d) \/ GiveUp(d) PROVE FALSE
        BY <2>1, <2>3, <4>2 DEF Transmit, TransmitFails, GiveUp
      <4>3. ASSUME NEW d \in Call, CheckAck(d) PROVE d = c
        BY <2>1, <2>3, <4>3 DEF CheckAck
      <4>4. ASSUME NEW m \in Node, ListenerStep(m) \/ AckListenerStep(m) \/ Shutdown(m)
            PROVE  pc' = pc
        BY <4>4 DEF ListenerStep, ReadAck, ReadData, OrderAhead, OrderDuplicate, OrderNext,
           AckListenerStep, RecordAck, ReplyAck, Shutdown, senderVars
      <4>5. CASE UNCHANGED vars
        BY <2>3, <4>5 DEF vars, senderVars
      <4> QED BY <2>3, <4>1, <4>2, <4>3, <4>4, <4>5 DEF Next, SendStep
    <3>2. <<To[c], frame[c]>> \notin ackFrame[From[c]] /\ Sent(c)
      BY <2>1, <3>1 DEF CheckAck, Sent
    <3>3. ReachedListener(c)
      BY <2>1, <3>2 DEF Acknowledged
    <3> QED BY <2>1, <3>2, <3>3, ReachedStable
  <2> QED BY <2>2, <2>3
<1> QED
  BY <1>1, <1>2, TypeCorrect, ProvenanceCorrect, NumberingCorrect, AcknowledgedCorrect, PTL
  DEF Spec

-----------------------------------------------------------------------------
\* A listener's count, with the frame in its hands, never goes back.
LEMMA CountedGrows ==
  ASSUME TypeOK, Provenance, [Next]_vars, NEW p \in Node, NEW n \in Node
  PROVE  /\ Counted(p, n) \in Nat /\ Counted(p, n)' \in Nat
         /\ Counted(p, n) <= Counted(p, n)'
         /\ recvFrame[p][n] \in Nat /\ recvFrame[p][n] <= Counted(p, n)
<1> USE CallAssumption
<1>1. /\ recvFrame \in [Node -> [Node -> Nat]] /\ recvFrame' \in [Node -> [Node -> Nat]]
      /\ cur \in [Node -> Call \cup {NoCall}]
  BY TypeCorrectStep DEF TypeOK
<1>2. recvFrame[p][n] \in Nat /\ recvFrame'[p][n] \in Nat
  BY <1>1
<1>3. cur[p] # NoCall => cur[p] \in Call /\ frame'[cur[p]] = frame[cur[p]]
  BY <1>1, SentStable DEF Provenance
<1>4. CASE UNCHANGED <<recvFrame, cur>>
  BY <1>2, <1>3, <1>4 DEF Counted
<1>5. ASSUME NEW m \in Node, ReadData(m) PROVE Counted(p, n) <= Counted(p, n)'
  <2>1. UNCHANGED recvFrame /\ (cur'[p] = cur[p] \/ cur[p] = NoCall)
    BY <1>1, <1>5 DEF ReadData
  <2> QED BY <1>2, <1>3, <2>1 DEF Counted
<1>6. ASSUME NEW m \in Node, OrderAhead(m) \/ OrderDuplicate(m)
      PROVE  Counted(p, n) <= Counted(p, n)'
  <2>1. UNCHANGED recvFrame /\ cur' = [cur EXCEPT ![m] = NoCall] /\ cur[m] # NoCall
    BY <1>6 DEF OrderAhead, OrderDuplicate
  <2>2. frame[cur[m]] # recvFrame[m][From[cur[m]]] + 1
    <3>1. cur[m] \in Call
      BY <1>1, <2>1
    <3>2. frame[cur[m]] \in Nat /\ recvFrame[m][From[cur[m]]] \in Nat
      BY <1>1, <3>1 DEF TypeOK
    <3> QED BY <1>6, <3>2 DEF OrderAhead, OrderDuplicate
  <2>3. CASE m = p
    <3>1. Counted(p, n) = recvFrame[p][n]
      BY <2>2, <2>3 DEF Counted
    <3>2. Counted(p, n)' = recvFrame[p][n]
      BY <1>1, <2>1, <2>3 DEF Counted
    <3> QED BY <1>2, <3>1, <3>2
  <2>4. CASE m # p
    BY <1>1, <1>2, <1>3, <2>1, <2>4 DEF Counted
  <2> QED BY <2>3, <2>4
<1>7. ASSUME NEW m \in Node, OrderNext(m) PROVE Counted(p, n) <= Counted(p, n)'
  <2> DEFINE d == cur[m]
  <2>1. /\ d \in Call
        /\ frame[d] = recvFrame[m][From[d]] + 1
        /\ recvFrame' = [recvFrame EXCEPT ![m][From[d]] = @ + 1]
        /\ cur' = [cur EXCEPT ![m] = NoCall]
    BY <1>1, <1>7 DEF OrderNext
  <2>2. CASE m = p /\ From[d] = n
    <3>1. recvFrame'[p][n] = recvFrame[p][n] + 1 /\ cur'[p] = NoCall
      BY <1>1, <2>1, <2>2
    <3> QED BY <1>2, <3>1 DEF Counted
  <2>3. CASE m = p /\ From[d] # n
    <3>1. recvFrame'[p][n] = recvFrame[p][n]
      BY <1>1, <2>1, <2>3
    <3>2. Counted(p, n) = recvFrame[p][n]
      BY <2>3 DEF Counted
    <3> QED BY <1>2, <3>1, <3>2 DEF Counted
  <2>4. CASE m # p
    <3>1. recvFrame'[p][n] = recvFrame[p][n] /\ cur'[p] = cur[p]
      BY <1>1, <2>1, <2>4
    <3> QED BY <1>2, <1>3, <3>1 DEF Counted
  <2> QED BY <2>2, <2>3, <2>4
<1>8. ASSUME NEW d \in Call, Send(d) \/ SendStep(d) PROVE UNCHANGED <<recvFrame, cur>>
  BY <1>8, SenderLeavesListener DEF listenerVars
<1>9. ASSUME NEW m \in Node, ReadAck(m) \/ AckListenerStep(m) \/ Shutdown(m)
      PROVE  UNCHANGED <<recvFrame, cur>>
  BY <1>9 DEF ReadAck, AckListenerStep, RecordAck, ReplyAck, Shutdown, listenerVars
<1>10. ASSUME UNCHANGED vars PROVE UNCHANGED <<recvFrame, cur>>
  BY <1>10 DEF vars, listenerVars
<1>11. Counted(p, n) <= Counted(p, n)'
  BY <1>4, <1>5, <1>6, <1>7, <1>8, <1>9, <1>10 DEF Next, ListenerStep
<1> QED BY <1>2, <1>11 DEF Counted

\* Who is active and which links overlap.
LEMMA ActiveSteps ==
  ASSUME TypeOK, [Next]_vars
  PROVE  /\ overlapped \subseteq overlapped'
         /\ \A c \in Call : pc'[c] \in Active => pc[c] \in Active \/ Send(c)
         /\ \A c \in Call :
              pc[c] \in Active /\ pc'[c] \notin Active
                => \/ Link(c) \in givenUp'
                   \/ <<To[c], frame[c]>> \notin ackFrame[From[c]]
<1>1. pc \in [Call -> {"idle"} \cup Active \cup Returned]
  BY DEF TypeOK
<1> USE DEF Active
<1> DEFINE Goal == /\ overlapped \subseteq overlapped'
                   /\ \A c \in Call : pc'[c] \in Active => pc[c] \in Active \/ Send(c)
                   /\ \A c \in Call :
                        pc[c] \in Active /\ pc'[c] \notin Active
                          => \/ Link(c) \in givenUp'
                             \/ <<To[c], frame[c]>> \notin ackFrame[From[c]]
<1>2. ASSUME NEW c \in Call, Send(c) PROVE Goal
  BY <1>1, <1>2 DEF Send
<1>3. ASSUME NEW c \in Call, Transmit(c) \/ TransmitFails(c) PROVE Goal
  BY <1>1, <1>3 DEF Transmit, TransmitFails, history
<1>4. ASSUME NEW c \in Call, CheckAck(c) PROVE Goal
  BY <1>1, <1>4 DEF CheckAck, history
<1>5. ASSUME NEW c \in Call, GiveUp(c) PROVE Goal
  BY <1>1, <1>5 DEF GiveUp, Link
<1>6. ASSUME NEW m \in Node, ListenerStep(m) \/ AckListenerStep(m) \/ Shutdown(m)
      PROVE  UNCHANGED <<pc, overlapped>>
  BY <1>6 DEF ListenerStep, ReadAck, ReadData, OrderAhead, OrderDuplicate, OrderNext,
     AckListenerStep, RecordAck, ReplyAck, Shutdown, senderVars, history
<1>7. CASE UNCHANGED vars
  BY <1>7 DEF vars, senderVars, history
<1> QED BY <1>2, <1>3, <1>4, <1>5, <1>6, <1>7 DEF Next, SendStep

\* While a link carries one send at a time, the listener counts every frame
\* before the next is numbered: the step case of the induction.
LEMMA OneAtATimeStep ==
  ASSUME TypeOK, Provenance, Acknowledged, OneAtATime, SequentialExactlyOnce, [Next]_vars
  PROVE  OneAtATime'
<1> USE CallAssumption
<1> SUFFICES ASSUME NEW n \in Node, NEW p \in Node, <<n, p>> \notin givenUp' \cup overlapped'
             PROVE  /\ \A c, d \in Call :
                         /\ Link(c) = <<n, p>> /\ Link(d) = <<n, p>>
                         /\ pc'[c] \in Active /\ pc'[d] \in Active
                         => c = d
                    /\ \A c \in Call :
                         Sent(c)' /\ Link(c) = <<n, p>> => frame'[c] <= Counted(p, n)' + 1
                    /\ \/ sendFrame'[n][p] <= Counted(p, n)'
                       \/ \E c \in Call :
                            /\ Link(c) = <<n, p>> /\ pc'[c] \in Active
                            /\ frame'[c] = sendFrame'[n][p]
  BY DEF OneAtATime, Link
<1>0. /\ sendFrame \in [Node -> [Node -> Nat]]
      /\ frame \in [Call -> Nat]
      /\ pc \in [Call -> {"idle"} \cup Active \cup Returned]
  BY DEF TypeOK
<1>1. /\ <<n, p>> \notin givenUp /\ <<n, p>> \notin overlapped
      /\ sendFrame \in [Node -> [Node -> Nat]] /\ sendFrame[n][p] \in Nat
      /\ frame \in [Call -> Nat]
      /\ pc \in [Call -> {"idle"} \cup Active \cup Returned]
  BY <1>0, GivenUpGrows, ActiveSteps
<1>2. /\ \A c, d \in Call :
           /\ Link(c) = <<n, p>> /\ Link(d) = <<n, p>>
           /\ pc[c] \in Active /\ pc[d] \in Active
           => c = d
      /\ \A c \in Call : Sent(c) /\ Link(c) = <<n, p>> => frame[c] <= Counted(p, n) + 1
      /\ \/ sendFrame[n][p] <= Counted(p, n)
         \/ \E c \in Call :
              Link(c) = <<n, p>> /\ pc[c] \in Active /\ frame[c] = sendFrame[n][p]
  BY <1>1 DEF OneAtATime
<1>3. /\ Counted(p, n) \in Nat /\ Counted(p, n)' \in Nat
      /\ Counted(p, n) <= Counted(p, n)'
      /\ recvFrame[p][n] \in Nat /\ recvFrame[p][n] <= Counted(p, n)
  BY CountedGrows
<1>4. ASSUME NEW c \in Call, Send(c), Link(c) = <<n, p>>
      PROVE  /\ \A d \in Call : Link(d) = <<n, p>> => pc[d] \notin Active
             /\ frame'[c] = sendFrame[n][p] + 1
             /\ sendFrame'[n][p] = sendFrame[n][p] + 1
             /\ pc'[c] \in Active
  <2>1. From[c] = n /\ To[c] = p
    BY <1>4 DEF Link
  <2> QED BY <1>1, <1>4, <2>1 DEF Send, Link, Active
<1>5. ASSUME NEW c \in Call, NEW d \in Call, Link(c) = <<n, p>>, Link(d) = <<n, p>>,
             pc'[c] \in Active, pc'[d] \in Active
      PROVE  c = d
  <2>1. CASE pc[c] \in Active /\ pc[d] \in Active
    BY <1>2, <1>5, <2>1
  <2>2. ASSUME NEW e \in Call, Send(e), Link(e) = <<n, p>> PROVE c = e /\ d = e
    <3>1. \A x \in Call : Send(x) => x = e
      BY <1>1, <2>2 DEF Send, Active
    <3> QED BY <1>4, <1>5, <2>2, <3>1, ActiveSteps
  <2> QED BY <1>5, <2>1, <2>2, ActiveSteps
<1>6. ASSUME NEW c \in Call, Sent(c)', Link(c) = <<n, p>>
      PROVE  frame'[c] <= Counted(p, n)' + 1
  <2>1. CASE Sent(c)
    <3>1. frame'[c] = frame[c] /\ frame[c] <= Counted(p, n) + 1 /\ frame[c] \in Nat
      BY <1>1, <1>2, <1>6, <2>1, SentStable
    <3> QED BY <1>3, <3>1
  <2>2. CASE Send(c)
    <3>1. sendFrame[n][p] <= Counted(p, n)
      BY <1>2, <1>4, <1>6, <2>2
    <3> QED BY <1>1, <1>3, <1>4, <1>6, <2>2, <3>1
  <2> QED BY <1>6, <2>1, <2>2, GivenUpGrows
<1>7. \/ sendFrame'[n][p] <= Counted(p, n)'
      \/ \E c \in Call :
           Link(c) = <<n, p>> /\ pc'[c] \in Active /\ frame'[c] = sendFrame'[n][p]
  <2>1. ASSUME NEW c \in Call, Send(c), Link(c) = <<n, p>>
        PROVE  pc'[c] \in Active /\ frame'[c] = sendFrame'[n][p]
    BY <1>4, <2>1
  <2>2. CASE sendFrame'[n][p] = sendFrame[n][p]
    <3>1. CASE sendFrame[n][p] <= Counted(p, n)
      BY <1>1, <1>3, <2>2, <3>1
    <3>2. ASSUME NEW c \in Call,
                 Link(c) = <<n, p>>, pc[c] \in Active, frame[c] = sendFrame[n][p]
          PROVE  \/ pc'[c] \in Active /\ frame'[c] = sendFrame'[n][p]
                 \/ sendFrame[n][p] <= Counted(p, n)
      <4>1. Sent(c) /\ frame'[c] = frame[c] /\ From[c] = n /\ To[c] = p
        BY <3>2, SentStable DEF Sent, Active, Link
      <4>2. CASE pc'[c] \in Active
        BY <2>2, <3>2, <4>1, <4>2
      <4>3. CASE pc'[c] \notin Active
        <5>1. ReachedListener(c)
          <6>1. <<p, frame[c]>> \notin ackFrame[n]
            BY <3>2, <4>1, <4>3, ActiveSteps
          <6> QED BY <1>1, <3>2, <4>1, <6>1 DEF Acknowledged
        <5>2. c \notin msgBuf[p]
          BY <1>1, <4>1 DEF SequentialExactlyOnce
        <5>3. CASE frame[c] <= recvFrame[p][n]
          BY <1>1, <1>3, <3>2, <5>3
        <5>4. CASE cur[p] = c
          <6>1. frame[c] <= Counted(p, n) + 1
            BY <1>2, <3>2, <4>1
          <6>2. \/ Counted(p, n) = frame[c]
                \/ frame[c] # recvFrame[p][n] + 1 /\ Counted(p, n) = recvFrame[p][n]
            BY <4>1, <5>4, CallAssumption DEF Counted
          <6> QED BY <1>1, <1>3, <3>2, <6>1, <6>2
        <5> QED BY <4>1, <5>1, <5>2, <5>3, <5>4 DEF ReachedListener
      <4> QED BY <4>2, <4>3
    <3> QED BY <1>1, <1>2, <1>3, <2>2, <3>1, <3>2
  <2>3. ASSUME sendFrame'[n][p] # sendFrame[n][p]
        PROVE  \E c \in Call : Send(c) /\ Link(c) = <<n, p>>
    <3>1. ASSUME NEW c \in Call, Send(c) PROVE Link(c) = <<n, p>>
      BY <1>1, <2>3, <3>1 DEF Send, Link
    <3>2. ASSUME NEW c \in Call, GiveUp(c) PROVE FALSE
      BY <1>1, <2>3, <3>2 DEF GiveUp
    <3> QED BY <2>3, <3>1, <3>2, NumberingSteps
  <2> QED BY <2>1, <2>2, <2>3
<1> QED BY <1>5, <1>6, <1>7

\* From OneAtATime: nothing is buffered and nothing handed up a second time on
\* a link with one send at a time.
LEMMA SequentialStep ==
  ASSUME TypeOK, Provenance, OrderedDelivery, OneAtATime, SequentialExactlyOnce, [Next]_vars
  PROVE  SequentialExactlyOnce'
<1> USE CallAssumption
<1> SUFFICES ASSUME NEW n \in Node, NEW p \in Node, <<n, p>> \notin givenUp' \cup overlapped'
             PROVE  /\ \A b \in msgBuf'[p] : From[b] # n
                    /\ \A i, j \in DOMAIN delivered'[p] :
                         From[delivered'[p][i]] = n /\ delivered'[p][i] = delivered'[p][j]
                           => i = j
  BY DEF SequentialExactlyOnce
<1>1. /\ <<n, p>> \notin givenUp /\ <<n, p>> \notin overlapped
      /\ recvFrame \in [Node -> [Node -> Nat]]
      /\ frame \in [Call -> Nat]
      /\ msgBuf \in [Node -> SUBSET Call]
      /\ cur \in [Node -> Call \cup {NoCall}]
      /\ delivered \in [Node -> Seq(Call)]
  BY GivenUpGrows, ActiveSteps DEF TypeOK
<1>2. /\ \A b \in msgBuf[p] : From[b] # n
      /\ \A i, j \in DOMAIN delivered[p] :
           From[delivered[p][i]] = n /\ delivered[p][i] = delivered[p][j] => i = j
  BY <1>1 DEF SequentialExactlyOnce
<1>3. ASSUME NEW m \in Node, OrderAhead(m) PROVE \A b \in msgBuf'[p] : From[b] # n
  <2>1. CASE m # p
    BY <1>1, <1>2, <1>3, <2>1 DEF OrderAhead
  <2>2. CASE m = p
    <3> DEFINE c == cur[p]
    <3>1. /\ c # NoCall /\ c \in Call /\ Sent(c) /\ To[c] = p
          /\ frame[c] > recvFrame[p][From[c]] + 1
          /\ msgBuf'[p] \subseteq msgBuf[p] \cup {c}
      BY <1>1, <1>3, <2>2 DEF OrderAhead, Provenance
    <3>2. ASSUME From[c] = n PROVE FALSE
      <4>1. recvFrame[p][n] \in Nat /\ frame[c] \in Nat
        BY <1>1, <3>1
      <4>2. Counted(p, n) = recvFrame[p][n]
        BY <3>1, <3>2, <4>1 DEF Counted
      <4>3. frame[c] <= Counted(p, n) + 1
        BY <1>1, <3>1, <3>2 DEF OneAtATime, Link
      <4> QED BY <3>1, <3>2, <4>1, <4>2, <4>3
    <3> QED BY <1>2, <3>1, <3>2
  <2> QED BY <2>1, <2>2
<1>4. ASSUME NEW m \in Node, OrderNext(m) PROVE \A b \in msgBuf'[p] : From[b] # n
  BY <1>1, <1>2, <1>4 DEF OrderNext
<1>5. \/ msgBuf' = msgBuf
      \/ \E m \in Node : OrderAhead(m) \/ OrderNext(m)
  <2>1. ASSUME NEW c \in Call, Send(c) \/ SendStep(c) PROVE msgBuf' = msgBuf
    BY <2>1, SenderLeavesListener DEF listenerVars
  <2>2. ASSUME NEW m \in Node,
               \/ ReadAck(m) \/ ReadData(m) \/ OrderDuplicate(m)
               \/ AckListenerStep(m) \/ Shutdown(m)
        PROVE  msgBuf' = msgBuf
    BY <2>2 DEF ReadAck, ReadData, OrderDuplicate, AckListenerStep, RecordAck, ReplyAck,
       Shutdown, listenerVars
  <2>3. CASE UNCHANGED vars
    BY <2>3 DEF vars, listenerVars
  <2> QED BY <2>1, <2>2, <2>3 DEF Next, ListenerStep
<1>6. ASSUME NEW m \in Node, OrderNext(m),
             NEW i \in DOMAIN delivered'[p], NEW j \in DOMAIN delivered'[p],
             From[delivered'[p][i]] = n, delivered'[p][i] = delivered'[p][j]
      PROVE  i = j
  <2>1. CASE m # p
    <3>1. delivered'[p] = delivered[p]
      BY <1>6, <2>1, OrderNextDelivers
    <3> QED BY <1>2, <1>6, <3>1
  <2>2. CASE m = p
    <3> DEFINE c == cur[p]
    <3>1. c \in Call /\ frame[c] = recvFrame[p][From[c]] + 1
      BY <1>1, <1>6, <2>2 DEF OrderNext
    <3>2. CASE From[c] = n
      <4>1. SameIndex(p, c) = {}
        BY <1>2, <3>2 DEF SameIndex
      <4>2. delivered'[p] = Append(delivered[p], c)
        BY <1>6, <2>2, <4>1, OrderNextDelivers
      <4>3. \A k \in DOMAIN delivered[p] : delivered[p][k] # c
        <5> SUFFICES ASSUME NEW k \in DOMAIN delivered[p], delivered[p][k] = c PROVE FALSE
          OBVIOUS
        <5>1. frame[c] <= recvFrame[p][n]
          BY <3>2 DEF OrderedDelivery
        <5>2. recvFrame[p][n] \in Nat /\ frame[c] \in Nat
          BY <1>1, <3>1
        <5> QED BY <3>1, <3>2, <5>1, <5>2
      <4>4. \A k \in DOMAIN delivered'[p] :
              \/ k \in DOMAIN delivered[p] /\ delivered'[p][k] = delivered[p][k]
              \/ k = Len(delivered[p]) + 1 /\ delivered'[p][k] = c
        <5>1. delivered[p] \in Seq(Call)
          BY <1>1
        <5> HIDE DEF c
        <5> QED BY <3>1, <4>2, <5>1
      <4> QED BY <1>2, <1>6, <4>3, <4>4
    <3>3. CASE From[c] # n
      <4>1. \A k \in DOMAIN delivered'[p] : From[delivered'[p][k]] = n =>
              k \in DOMAIN delivered[p] /\ delivered'[p][k] = delivered[p][k]
        BY <1>6, <2>2, <3>3, OrderNextDelivers DEF SameIndex
      <4> QED BY <1>2, <1>6, <4>1
    <3> QED BY <3>2, <3>3
  <2> QED BY <2>1, <2>2
<1>7. \A b \in msgBuf'[p] : From[b] # n
  BY <1>2, <1>3, <1>4, <1>5
<1>8. ASSUME NEW i \in DOMAIN delivered'[p], NEW j \in DOMAIN delivered'[p],
             From[delivered'[p][i]] = n, delivered'[p][i] = delivered'[p][j]
      PROVE  i = j
  BY <1>2, <1>6, <1>8, OnlyOrderNextDelivers
<1> QED BY <1>7, <1>8

(* On a link with one send at a time that was never given up, nothing is   *)
(* left in the listener's buffer and nothing is handed up twice.           *)
THEOREM SequentialExactlyOnceCorrect == Spec => []SequentialExactlyOnce
<1>1. Init => OneAtATime /\ SequentialExactlyOnce
  <2> SUFFICES ASSUME Init PROVE OneAtATime /\ SequentialExactlyOnce
    OBVIOUS
  <2>1. \A c \in Call : ~ Sent(c) /\ pc[c] \notin Active
    BY DEF Init, Sent, Active
  <2>2. \A n, p \in Node : Counted(p, n) = 0 /\ sendFrame[n][p] = 0
    BY DEF Init, Counted
  <2>3. \A p \in Node : msgBuf[p] = {} /\ DOMAIN delivered[p] = {}
    BY DEF Init
  <2> QED BY <2>1, <2>2, <2>3 DEF OneAtATime, SequentialExactlyOnce
<1> DEFINE J == OneAtATime /\ SequentialExactlyOnce
<1>2. TypeOK /\ Provenance /\ OrderedDelivery /\ Acknowledged /\ J /\ [Next]_vars => J'
  BY OneAtATimeStep, SequentialStep
<1> QED
  BY <1>1, <1>2, TypeCorrect, ProvenanceCorrect, OrderedDeliveryCorrect, AcknowledgedCorrect,
     PTL DEF Spec

-----------------------------------------------------------------------------
\* Every number a node has used on a link it has not given up is a call's.
Taken ==
  \A n, p \in Node : \A f \in 1..sendFrame[n][p] :
    <<n, p>> \notin givenUp => \E c \in Call : Sent(c) /\ Link(c) = <<n, p>> /\ frame[c] = f

(* Every frame number of a link that was never given up is that of a call. *)
THEOREM TakenCorrect == Spec => []Taken
<1> USE CallAssumption
<1>1. Init => Taken
  <2> SUFFICES ASSUME Init, NEW n \in Node, NEW p \in Node, NEW f \in 1..sendFrame[n][p]
               PROVE  FALSE
    BY DEF Taken
  <2>1. sendFrame[n][p] = 0
    BY DEF Init
  <2> QED BY <2>1
<1>2. TypeOK /\ Taken /\ [Next]_vars => Taken'
  <2> SUFFICES ASSUME TypeOK, Taken, [Next]_vars,
                      NEW n \in Node, NEW p \in Node, NEW f \in 1..sendFrame'[n][p],
                      <<n, p>> \notin givenUp'
               PROVE  \E c \in Call : Sent(c)' /\ Link(c) = <<n, p>> /\ frame'[c] = f
    BY DEF Taken, Link
  <2>1. /\ <<n, p>> \notin givenUp
        /\ sendFrame \in [Node -> [Node -> Nat]] /\ sendFrame[n][p] \in Nat
        /\ frame \in [Call -> Nat]
        /\ pc \in [Call -> {"idle"} \cup Active \cup Returned]
    <3>1. givenUp \subseteq givenUp'
      BY GivenUpGrows
    <3> QED BY <3>1 DEF TypeOK
  <2>2. CASE f \in 1..sendFrame[n][p]
    <3>1. PICK c \in Call : Sent(c) /\ Link(c) = <<n, p>> /\ frame[c] = f
      BY <2>1, <2>2 DEF Taken
    <3> QED BY <3>1, SentStable
  <2>3. CASE f \notin 1..sendFrame[n][p]
    <3>1. ASSUME NEW c \in Call, Send(c)
          PROVE  Sent(c)' /\ Link(c) = <<n, p>> /\ frame'[c] = f
      <4>1. /\ sendFrame' = [sendFrame EXCEPT ![From[c]][To[c]] = sendFrame[From[c]][To[c]] + 1]
            /\ frame' = [frame EXCEPT ![c] = sendFrame[From[c]][To[c]] + 1]
            /\ pc' = [pc EXCEPT ![c] = "transmit"]
        BY <3>1 DEF Send
      <4>2. From[c] = n /\ To[c] = p
        BY <2>1, <2>3, <4>1
      <4>3. f = sendFrame[n][p] + 1
        BY <2>1, <2>3, <4>1, <4>2
      <4> QED BY <2>1, <4>1, <4>2, <4>3 DEF Sent, Link
    <3>2. ASSUME NEW c \in Call, GiveUp(c) PROVE FALSE
      <4>1. /\ sendFrame' = [sendFrame EXCEPT ![From[c]][To[c]] = 0]
            /\ From[c] \in Node /\ To[c] \in Node
        BY <3>2 DEF GiveUp
      <4>2. sendFrame'[n][p] = 0 \/ sendFrame'[n][p] = sendFrame[n][p]
        BY <2>1, <4>1
      <4> QED BY <2>3, <4>2
    <3>3. sendFrame' # sendFrame
      BY <2>3
    <3> QED BY <3>1, <3>2, <3>3, NumberingSteps
  <2> QED BY <2>2, <2>3
<1> QED BY <1>1, <1>2, TypeCorrect, PTL DEF Spec

\* On a link that was never given up the number finds its call.
LEMMA NumberedCall ==
  ASSUME Numbering, NEW c \in Call, Sent(c), Link(c) \notin givenUp
  PROVE  Numbered(From[c], To[c], frame[c]) = c
<1>1. ASSUME NEW d \in Call, From[d] = From[c], To[d] = To[c], Sent(d), frame[d] = frame[c]
      PROVE  d = c
  BY <1>1 DEF Numbering, Link
<1> QED BY <1>1 DEF Numbered, Sent

\* The abstract queue of a link that was never given up holds its calls by number.
LEMMA QueueEntries ==
  ASSUME TypeOK, Numbering, Taken, NEW n \in Node, NEW p \in Node, <<n, p>> \notin givenUp
  PROVE  /\ Queue[n][p] \in Seq(Call)
         /\ Len(Queue[n][p]) = sendFrame[n][p]
         /\ \A f \in 1..sendFrame[n][p] :
              /\ Queue[n][p][f] \in Call /\ Sent(Queue[n][p][f])
              /\ From[Queue[n][p][f]] = n /\ To[Queue[n][p][f]] = p
              /\ frame[Queue[n][p][f]] = f
         /\ \A c \in Call : Sent(c) /\ Link(c) = <<n, p>>
              => frame[c] <= sendFrame[n][p] /\ (frame[c] >= 1 => Queue[n][p][frame[c]] = c)
<1>1. Queue[n][p] = [f \in 1..sendFrame[n][p] |-> Numbered(n, p, f)]
  BY DEF Queue
<1>2. sendFrame[n][p] \in Nat /\ frame \in [Call -> Nat]
  BY DEF TypeOK
<1>3. ASSUME NEW f \in 1..sendFrame[n][p]
      PROVE  /\ Numbered(n, p, f) \in Call /\ Sent(Numbered(n, p, f))
             /\ From[Numbered(n, p, f)] = n /\ To[Numbered(n, p, f)] = p
             /\ frame[Numbered(n, p, f)] = f
  <2>1. PICK c \in Call : Sent(c) /\ Link(c) = <<n, p>> /\ frame[c] = f
    BY DEF Taken
  <2>2. From[c] = n /\ To[c] = p
    BY <2>1 DEF Link
  <2>3. Numbered(n, p, f) = c
    BY <2>1, <2>2, NumberedCall
  <2> QED BY <2>1, <2>2, <2>3
<1>4. ASSUME NEW c \in Call, Sent(c), Link(c) = <<n, p>>
      PROVE  /\ frame[c] <= sendFrame[n][p]
             /\ frame[c] >= 1 => Numbered(n, p, frame[c]) = c /\ frame[c] \in 1..sendFrame[n][p]
  <2>1. From[c] = n /\ To[c] = p
    BY <1>4 DEF Link
  <2>2. frame[c] <= sendFrame[n][p]
    BY <1>4, <2>1 DEF Numbering
  <2>3. Numbered(n, p, frame[c]) = c
    BY <1>4, <2>1, NumberedCall
  <2> QED BY <1>2, <2>2, <2>3
<1> HIDE DEF Queue
<1>5. Queue[n][p] \in Seq(Call) /\ Len(Queue[n][p]) = sendFrame[n][p]
  BY <1>1, <1>2, <1>3
<1>6. \A f \in 1..sendFrame[n][p] : Queue[n][p][f] = Numbered(n, p, f)
  BY <1>1
<1>7. ASSUME NEW f \in 1..sendFrame[n][p]
      PROVE  /\ Queue[n][p][f] \in Call /\ Sent(Queue[n][p][f])
             /\ From[Queue[n][p][f]] = n /\ To[Queue[n][p][f]] = p
             /\ frame[Queue[n][p][f]] = f
  BY <1>3, <1>6
<1>8. ASSUME NEW c \in Call, Sent(c), Link(c) = <<n, p>>
      PROVE  frame[c] <= sendFrame[n][p] /\ (frame[c] >= 1 => Queue[n][p][frame[c]] = c)
  BY <1>4, <1>6, <1>8
<1> QED BY <1>5, <1>7, <1>8

\* A listener has not counted more than was numbered.
LEMMA CountWithinNumbers ==
  ASSUME TypeOK, Provenance, Numbering, OrderedDelivery,
         NEW n \in Node, NEW p \in Node, <<n, p>> \notin givenUp
  PROVE  recvFrame[p][n] <= sendFrame[n][p]
<1>1. /\ recvFrame[p][n] \in Nat /\ sendFrame[n][p] \in Nat
      /\ delivered \in [Node -> Seq(Call)]
  BY DEF TypeOK
<1>2. CASE recvFrame[p][n] = 0
  BY <1>1, <1>2
<1>3. CASE recvFrame[p][n] # 0
  <2>1. recvFrame[p][n] \in 1..recvFrame[p][n]
    BY <1>1, <1>3
  <2>2. PICK i \in DOMAIN delivered[p] :
          From[delivered[p][i]] = n /\ frame[delivered[p][i]] = recvFrame[p][n]
    BY <2>1 DEF OrderedDelivery
  <2>3. delivered[p][i] \in Call /\ Sent(delivered[p][i]) /\ To[delivered[p][i]] = p
    BY <1>1 DEF Provenance
  <2> QED BY <2>2, <2>3 DEF Numbering, Link
<1> QED BY <1>2, <1>3

\* What was handed up of such a link is what the listener has counted.
LEMMA HandedUpIsCounted ==
  ASSUME TypeOK, Provenance, Numbering, Taken, OrderedDelivery,
         NEW n \in Node, NEW p \in Node, <<n, p>> \notin givenUp,
         NEW f \in 1..sendFrame[n][p]
  PROVE  (\E i \in DOMAIN delivered[p] : delivered[p][i] = Queue[n][p][f])
           <=> f <= recvFrame[p][n]
<1>1. /\ recvFrame[p][n] \in Nat /\ sendFrame[n][p] \in Nat
      /\ delivered \in [Node -> Seq(Call)]
  BY DEF TypeOK
<1> DEFINE c == Queue[n][p][f]
<1>2. From[c] = n /\ To[c] = p /\ frame[c] = f
  BY QueueEntries
<1> HIDE DEF c
<1>3. ASSUME NEW i \in DOMAIN delivered[p], delivered[p][i] = c PROVE f <= recvFrame[p][n]
  <2>1. frame[delivered[p][i]] <= recvFrame[p][From[delivered[p][i]]]
    BY DEF OrderedDelivery
  <2> QED BY <1>2, <1>3, <2>1
<1>4. ASSUME f <= recvFrame[p][n] PROVE \E i \in DOMAIN delivered[p] : delivered[p][i] = c
  <2>1. f \in 1..recvFrame[p][n]
    BY <1>1, <1>4
  <2>2. PICK i \in DOMAIN delivered[p] :
          From[delivered[p][i]] = n /\ frame[delivered[p][i]] = f
    BY <2>1 DEF OrderedDelivery
  <2> DEFINE d == delivered[p][i]
  <2>3. d \in Call /\ Sent(d) /\ To[d] = p
    BY <1>1 DEF Provenance
  <2>4. Link(d) = <<n, p>> /\ frame[d] = f
    BY <2>2, <2>3 DEF Link
  <2> HIDE DEF d
  <2>5. Queue[n][p][frame[d]] = d
    BY <2>3, <2>4, QueueEntries
  <2>6. c = d
    BY <2>4, <2>5 DEF c
  <2> QED BY <2>6 DEF d
<1> QED BY <1>3, <1>4 DEF c

\* On a link that was never given up a message reaches the listener by being read.
LEMMA ReachedSource ==
  ASSUME TypeOK, Provenance, Numbering, OrderedDelivery, [Next]_vars,
         NEW c \in Call, Sent(c)', Link(c) \notin givenUp', ReachedListener(c)'
  PROVE  Sent(c) /\ (ReachedListener(c) \/ \E m \in Node : ReadData(m) /\ cur'[m] = c)
<1> USE CallAssumption
<1> DEFINE p == To[c]
           n == From[c]
<1>1. /\ p \in Node /\ n \in Node
      /\ recvFrame \in [Node -> [Node -> Nat]]
      /\ frame \in [Call -> Nat]
      /\ sendFrame[n][p] \in Nat
      /\ msgBuf \in [Node -> SUBSET Call]
      /\ cur \in [Node -> Call \cup {NoCall}]
  BY DEF TypeOK
<1>2. Link(c) \notin givenUp
  BY GivenUpGrows
<1>3. CASE ~ Sent(c)
  <2>1. Send(c)
    BY <1>3, GivenUpGrows
  <2>2. frame'[c] = sendFrame[n][p] + 1
    BY <1>1, <2>1 DEF Send
  <2>3. UNCHANGED <<recvFrame, msgBuf, cur>>
    BY <2>1 DEF Send, listenerVars
  <2>4. recvFrame[p][n] <= sendFrame[n][p] /\ recvFrame[p][n] \in Nat
    BY <1>1, <1>2, CountWithinNumbers DEF Link
  <2>5. c \notin msgBuf[p] /\ cur[p] # c
    BY <1>1, <1>3 DEF Provenance
  <2> QED BY <1>1, <2>2, <2>3, <2>4, <2>5 DEF ReachedListener
<1>4. ASSUME Sent(c), UNCHANGED <<recvFrame, msgBuf, cur>> PROVE ReachedListener(c)
  <2>1. frame'[c] = frame[c]
    BY <1>4, SentStable
  <2> QED BY <1>4, <2>1 DEF ReachedListener
<1>5. ASSUME Sent(c), NEW m \in Node, ReadData(m) PROVE ReachedListener(c) \/ cur'[m] = c
  <2>1. frame'[c] = frame[c]
    BY <1>5, SentStable
  <2>2. UNCHANGED <<recvFrame, msgBuf>> /\ \A q \in Node : q # m => cur'[q] = cur[q]
    BY <1>1, <1>5 DEF ReadData
  <2> QED BY <1>1, <2>1, <2>2 DEF ReachedListener
<1>6. ASSUME Sent(c), NEW m \in Node, OrderAhead(m) \/ OrderDuplicate(m)
      PROVE  ReachedListener(c)
  <2>1. frame'[c] = frame[c]
    BY <1>6, SentStable
  <2>2. /\ cur[m] \in Call /\ To[cur[m]] = m
        /\ recvFrame' = recvFrame
        /\ cur' = [cur EXCEPT ![m] = NoCall]
    BY <1>1, <1>6 DEF OrderAhead, OrderDuplicate, Provenance
  <2>3. \A q \in Node : \A x \in msgBuf'[q] : x \in msgBuf[q] \/ (q = m /\ x = cur[m])
    BY <1>1, <1>6 DEF OrderAhead, OrderDuplicate
  <2>4. cur'[p] = c => cur[p] = c
    BY <1>1, <2>2
  <2> QED BY <1>1, <2>1, <2>2, <2>3, <2>4 DEF ReachedListener
<1>7. ASSUME Sent(c), NEW m \in Node, OrderNext(m) PROVE ReachedListener(c)
  <2> DEFINE d == cur[m]
  <2>1. /\ d \in Call /\ Sent(d) /\ To[d] = m
        /\ frame[d] = recvFrame[m][From[d]] + 1
        /\ recvFrame' = [recvFrame EXCEPT ![m][From[d]] = @ + 1]
        /\ cur' = [cur EXCEPT ![m] = NoCall]
        /\ \A q \in Node : msgBuf'[q] \subseteq msgBuf[q]
    BY <1>1, <1>7 DEF OrderNext, Provenance
  <2>2. frame'[c] = frame[c] /\ frame[c] \in Nat
    BY <1>1, <1>7, SentStable
  <2>3. cur'[p] = c => cur[p] = c
    BY <1>1, <2>1
  <2>4. ASSUME frame[c] <= recvFrame'[p][n], ~ (frame[c] <= recvFrame[p][n]) PROVE d = c
    <3>1. m = p /\ From[d] = n /\ frame[d] = frame[c]
      BY <1>1, <2>1, <2>2, <2>4
    <3> HIDE DEF d
    <3> QED BY <1>2, <1>7, <2>1, <3>1 DEF Numbering, Link
  <2>5. d = c => cur[p] = c
    BY <2>1
  <2> HIDE DEF d
  <2> QED BY <1>1, <2>1, <2>2, <2>3, <2>4, <2>5 DEF ReachedListener
<1>8. ASSUME NEW d \in Call, Send(d) \/ SendStep(d) PROVE UNCHANGED <<recvFrame, msgBuf, cur>>
  BY <1>8, SenderLeavesListener DEF listenerVars
<1>9. ASSUME NEW m \in Node, ReadAck(m) \/ AckListenerStep(m) \/ Shutdown(m)
      PROVE  UNCHANGED <<recvFrame, msgBuf, cur>>
  BY <1>9 DEF ReadAck, AckListenerStep, RecordAck, ReplyAck, Shutdown, listenerVars
<1>10. ASSUME UNCHANGED vars PROVE UNCHANGED <<recvFrame, msgBuf, cur>>
  BY <1>10 DEF vars, listenerVars
<1>11. CASE Sent(c)
  BY <1>11, <1>4, <1>5, <1>6, <1>7, <1>8, <1>9, <1>10 DEF Next, ListenerStep
<1> QED BY <1>3, <1>11

\* What QueueEntries says of every link.
Queued ==
  \A n, p \in Node : <<n, p>> \notin givenUp =>
    /\ Queue[n][p] \in Seq(Call)
    /\ Len(Queue[n][p]) = sendFrame[n][p]
    /\ \A f \in 1..sendFrame[n][p] :
         /\ Queue[n][p][f] \in Call /\ Sent(Queue[n][p][f])
         /\ From[Queue[n][p][f]] = n /\ To[Queue[n][p][f]] = p
         /\ frame[Queue[n][p][f]] = f
    /\ \A c \in Call : Sent(c) /\ Link(c) = <<n, p>>
         => frame[c] <= sendFrame[n][p] /\ (frame[c] >= 1 => Queue[n][p][frame[c]] = c)

\* The invariants the refinement rests on.
Kept ==
  /\ TypeOK /\ Provenance /\ Numbering /\ OrderedDelivery
  /\ Acknowledged /\ SequentialExactlyOnce /\ Taken /\ Queued

\* They hold together.
LEMMA KeptCorrect == Spec => []Kept
<1>1. TypeOK /\ Numbering /\ Taken => Queued
  BY QueueEntries DEF Queued
<1> QED
  BY <1>1, TypeCorrect, ProvenanceCorrect, NumberingCorrect, OrderedDeliveryCorrect,
     AcknowledgedCorrect, SequentialExactlyOnceCorrect, TakenCorrect, PTL DEF Kept

\* The queue of a link is kept as long as its numbering is, and empty once the
\* link is given up.
LEMMA QueueSteps ==
  ASSUME Kept, Kept', [Next]_vars, NEW n \in Node, NEW p \in Node
  PROVE  /\ <<n, p>> \in givenUp => Queue[n][p] = <<>>
         /\ <<n, p>> \in givenUp' => Queue'[n][p] = <<>>
         /\ <<n, p>> \notin givenUp' =>
              \A f \in 1..sendFrame[n][p] :
                f \in 1..sendFrame'[n][p] => Queue'[n][p][f] = Queue[n][p][f]
         /\ <<n, p>> \notin givenUp' /\ sendFrame'[n][p] = sendFrame[n][p]
              => Queue'[n][p] = Queue[n][p]
<1>0. /\ TypeOK /\ Numbering /\ Queued
      /\ Numbering' /\ Queued'
  BY DEF Kept
<1>1. /\ <<n, p>> \in givenUp => Queue[n][p] = <<>>
      /\ <<n, p>> \in givenUp' => Queue'[n][p] = <<>>
  BY DEF Queue
<1>2. /\ <<n, p>> \notin givenUp =>
           Queue[n][p] = [f \in 1..sendFrame[n][p] |-> Numbered(n, p, f)]
      /\ <<n, p>> \notin givenUp' =>
           Queue'[n][p] = [f \in 1..sendFrame'[n][p] |-> Numbered(n, p, f)']
  BY DEF Queue
<1>3. ASSUME <<n, p>> \notin givenUp', NEW f \in 1..sendFrame[n][p], f \in 1..sendFrame'[n][p]
      PROVE  Queue'[n][p][f] = Queue[n][p][f]
  <2>1. <<n, p>> \notin givenUp
    BY <1>0, <1>3, GivenUpGrows
  <2>2. PICK c \in Call : /\ c = Queue[n][p][f]
                          /\ Sent(c) /\ From[c] = n /\ To[c] = p /\ frame[c] = f
    BY <1>0, <2>1 DEF Queued
  <2>3. PICK d \in Call : /\ d = Queue'[n][p][f]
                          /\ Sent(d)' /\ From[d] = n /\ To[d] = p /\ frame'[d] = f
    BY <1>0, <1>3 DEF Queued, Sent
  <2>4. Sent(c)' /\ frame'[c] = f
    BY <1>0, <2>2, SentStable
  <2>5. \A x, y \in Call :
          Sent(x)' /\ Sent(y)' /\ Link(x) = Link(y) /\ Link(x) \notin givenUp' /\ x # y
            => frame'[x] # frame'[y]
    BY <1>0 DEF Numbering, Link
  <2>6. c = d
    BY <1>3, <2>2, <2>3, <2>4, <2>5 DEF Link
  <2> QED BY <2>2, <2>3, <2>6
<1>4. ASSUME <<n, p>> \notin givenUp', sendFrame'[n][p] = sendFrame[n][p]
      PROVE  Queue'[n][p] = Queue[n][p]
  <2>1. <<n, p>> \notin givenUp
    BY <1>0, <1>4, GivenUpGrows
  <2>2. /\ Queue[n][p] = [f \in 1..sendFrame[n][p] |-> Numbered(n, p, f)]
        /\ Queue'[n][p] = [f \in 1..sendFrame[n][p] |-> Numbered(n, p, f)']
    BY <1>2, <1>4, <2>1
  <2>3. \A f \in 1..sendFrame[n][p] : Queue'[n][p][f] = Queue[n][p][f]
    BY <1>3, <1>4
  <2> QED BY <2>2, <2>3
<1> QED BY <1>1, <1>3, <1>4

\* What a step does to the messages that arrived.
LEMMA ArrivedSteps ==
  ASSUME Kept, [Next]_vars
  PROVE  /\ \A c \in Arrived' :
              \/ c \in Arrived
              \/ \E m \in Node : cur[m] = NoCall /\ cur'[m] = c
         /\ \A c \in Arrived : Link(c) \notin givenUp' => c \in Arrived'
         /\ \A c \in Arrived' : c \in Call /\ Link(c) \notin givenUp'
<1>1. TypeOK /\ Provenance /\ Numbering /\ OrderedDelivery
  BY DEF Kept
<1>2. ASSUME NEW c \in Arrived'
      PROVE  c \in Call /\ Sent(c)' /\ Link(c) \notin givenUp' /\ ReachedListener(c)'
  BY DEF Arrived, Sent, Link
<1>3. ASSUME NEW c \in Arrived'
      PROVE  c \in Arrived \/ \E m \in Node : cur[m] = NoCall /\ cur'[m] = c
  <2>1. Link(c) \notin givenUp
    BY <1>1, <1>2, GivenUpGrows
  <2>2. Sent(c) /\ (ReachedListener(c) \/ \E m \in Node : ReadData(m) /\ cur'[m] = c)
    BY <1>1, <1>2, ReachedSource
  <2> QED BY <1>2, <2>1, <2>2 DEF ReadData, Arrived, Sent, Link
<1>4. ASSUME NEW c \in Arrived, Link(c) \notin givenUp' PROVE c \in Arrived'
  <2>1. c \in Call /\ Sent(c) /\ Link(c) \notin givenUp /\ ReachedListener(c)
    BY DEF Arrived, Sent, Link
  <2>2. Sent(c)' /\ ReachedListener(c)'
    BY <1>1, <2>1, SentStable, ReachedStable
  <2> QED BY <1>4, <2>1, <2>2 DEF Arrived, Sent, Link
<1> QED BY <1>2, <1>3, <1>4

\* Without a give-up, only reading changes what arrived.
LEMMA ArrivedKept ==
  ASSUME Kept, [Next]_vars, givenUp' = givenUp,
         \A m \in Node : cur[m] = NoCall => cur'[m] = NoCall
  PROVE  Arrived' = Arrived
<1>1. \A c \in Arrived : c \in Call /\ Link(c) \notin givenUp
  BY DEF Arrived, Link
<1>2. \A c \in Call : c # NoCall
  BY CallAssumption
<1> QED BY <1>1, <1>2, ArrivedSteps

\* A step that leaves every other queue alone changes one entry.
LEMMA QueueChange ==
  ASSUME NEW n \in Node, NEW p \in Node,
         \A m, q \in Node : <<m, q>> # <<n, p>> => Queue'[m][q] = Queue[m][q]
  PROVE  Queue' = [Queue EXCEPT ![n][p] = Queue'[n][p]]
<1> DEFINE Q == Queue
           R == Queue'
<1>1. Q = [m \in Node |-> Q[m]] /\ R = [m \in Node |-> R[m]]
  BY DEF Queue
<1>2. \A m \in Node : Q[m] = [q \in Node |-> Q[m][q]] /\ R[m] = [q \in Node |-> R[m][q]]
  BY DEF Queue
<1>3. \A m, q \in Node : <<m, q>> # <<n, p>> => R[m][q] = Q[m][q]
  OBVIOUS
<1> HIDE DEF Q, R
<1>4. R[n] = [Q[n] EXCEPT ![p] = R[n][p]]
  BY <1>2, <1>3
<1>5. \A m \in Node : m # n => R[m] = Q[m]
  BY <1>2, <1>3
<1>6. R = [Q EXCEPT ![n][p] = R[n][p]]
  BY <1>1, <1>4, <1>5
<1> QED BY <1>6 DEF Q, R

\* Without a give-up, only numbering changes the queues.
LEMMA QueueKept ==
  ASSUME Kept, Kept', [Next]_vars, UNCHANGED <<sendFrame, givenUp>>
  PROVE  Queue' = Queue
<1>1. ASSUME NEW n \in Node, NEW p \in Node PROVE Queue'[n][p] = Queue[n][p]
  BY QueueSteps
<1> QED BY <1>1 DEF Queue

\* send numbers the call: the abstract link puts it last.
LEMMA SendShows ==
  ASSUME Kept, Kept', [Next]_vars, NEW c \in Call, Send(c)
  PROVE  Abstract!Send(c)
<1> USE CallAssumption
<1> SUFFICES ASSUME NEW n \in Node, NEW p \in Node, From[c] = n, To[c] = p
             PROVE  Abstract!Send(c)
  OBVIOUS
<1>1. /\ pc \in [Call -> {"idle"} \cup Active \cup Returned]
      /\ sendFrame \in [Node -> [Node -> Nat]]
      /\ frame \in [Call -> Nat]
      /\ Link(c) = <<n, p>>
      /\ Queued /\ Queued'
  BY DEF Kept, TypeOK, Link
<1>2. /\ pc[c] = "idle"
      /\ pc' = [pc EXCEPT ![c] = "transmit"]
      /\ sendFrame' = [sendFrame EXCEPT ![n][p] = sendFrame[n][p] + 1]
      /\ frame' = [frame EXCEPT ![c] = sendFrame[n][p] + 1]
      /\ UNCHANGED <<cur, delivered, givenUp>>
      /\ overlapped' = IF \E d \in Call : From[d] = n /\ To[d] = p /\ pc[d] \in Active
                       THEN overlapped \cup {<<n, p>>}
                       ELSE overlapped
  BY DEF Send, listenerVars
<1>3. Verdict[c] = "idle" /\ Verdict' = [Verdict EXCEPT ![c] = "running"]
  BY <1>1, <1>2 DEF Verdict, Active
<1>4. \A d \in Call : Verdict[d] = "running" <=> pc[d] \in Active
  BY <1>1 DEF Verdict, Active, Returned
<1>5. overlapped' = IF \E d \in Call : Link(d) = Link(c) /\ Verdict[d] = "running"
                    THEN overlapped \cup {Link(c)}
                    ELSE overlapped
  BY <1>2, <1>4 DEF Link
<1>6. Arrived' = Arrived
  BY <1>2, ArrivedKept
<1>7. ASSUME NEW m \in Node, NEW q \in Node, <<m, q>> # <<n, p>>
      PROVE  Queue'[m][q] = Queue[m][q]
  <2>1. sendFrame'[m][q] = sendFrame[m][q]
    BY <1>1, <1>2, <1>7
  <2>2. CASE <<m, q>> \in givenUp
    BY <1>2, <2>2, QueueSteps
  <2>3. CASE <<m, q>> \notin givenUp
    BY <1>2, <2>1, <2>3, QueueSteps
  <2> QED BY <2>2, <2>3
<1>8. CASE <<n, p>> \in givenUp
  <2>1. Queue'[n][p] = Queue[n][p]
    BY <1>2, <1>8, QueueSteps
  <2>2. \A m, q \in Node : Queue'[m][q] = Queue[m][q]
    BY <1>7, <2>1
  <2>3. Queue' = Queue
    BY <2>2 DEF Queue
  <2> QED BY <1>1, <1>2, <1>3, <1>5, <1>6, <1>8, <2>3 DEF Abstract!Send, Abstract!Link, Link
<1>9. CASE <<n, p>> \notin givenUp
  <2> DEFINE k == sendFrame[n][p]
             old == Queue[n][p]
             new == Queue'[n][p]
  <2>1. k \in Nat /\ sendFrame'[n][p] = k + 1 /\ frame'[c] = k + 1
    BY <1>1, <1>2
  <2>2. old \in Seq(Call) /\ Len(old) = k
    BY <1>1, <1>9 DEF Queued
  <2>3. new \in Seq(Call) /\ Len(new) = k + 1
    BY <1>1, <1>2, <1>9, <2>1 DEF Queued
  <2>4. new[k + 1] = c
    <3>1. pc'[c] # "idle"
      BY <1>1, <1>2
    <3>2. Queued' /\ <<n, p>> \notin givenUp'
      BY <1>1, <1>2, <1>9
    <3>3. \A d \in Call : Sent(d)' /\ Link(d) = <<n, p>> /\ frame'[d] >= 1
            => Queue'[n][p][frame'[d]] = d
      BY <3>2 DEF Queued, Link
    <3> QED BY <1>1, <2>1, <3>1, <3>3 DEF Sent
  <2>5. \A f \in 1..k : new[f] = old[f]
    <3>1. \A f \in 1..k : f \in 1..sendFrame'[n][p]
      BY <2>1
    <3> QED BY <1>2, <1>9, <3>1, QueueSteps
  <2>6. new = Append(old, c)
    <3> HIDE DEF new, old, k
    <3> QED BY <2>1, <2>2, <2>3, <2>4, <2>5
  <2>7. \A m, q \in Node : <<m, q>> # <<n, p>> => Queue'[m][q] = Queue[m][q]
    BY <1>7
  <2>8. Queue' = [Queue EXCEPT ![n][p] = Queue'[n][p]]
    BY <2>7, QueueChange
  <2>9. Queue' = [Queue EXCEPT ![n][p] = Append(@, c)]
    BY <2>6, <2>8
  <2> QED BY <1>1, <1>2, <1>3, <1>5, <1>6, <1>9, <2>9 DEF Abstract!Send, Abstract!Link, Link
<1> QED BY <1>8, <1>9

\* A call that stops waiting for its acknowledgement returns true, and one that
\* goes on shows nothing.
LEMMA CheckAckShows ==
  ASSUME Kept, Kept', [Next]_vars, NEW c \in Call, CheckAck(c)
  PROVE  Abstract!ReturnTrue(c) \/ UNCHANGED Abstract!vars
<1>1. /\ pc \in [Call -> {"idle"} \cup Active \cup Returned]
      /\ pc[c] = "wait"
      /\ UNCHANGED <<sendFrame, cur, delivered, givenUp, overlapped>>
  BY DEF Kept, TypeOK, CheckAck, listenerVars, history
<1>2. Queue' = Queue /\ Arrived' = Arrived
  BY <1>1, QueueKept, ArrivedKept
<1>3. CASE <<To[c], frame[c]>> \notin ackFrame[From[c]]
  <2>1. pc' = [pc EXCEPT ![c] = "true"]
    BY <1>3 DEF CheckAck
  <2>2. Verdict[c] = "running" /\ Verdict' = [Verdict EXCEPT ![c] = "true"]
    BY <1>1, <2>1 DEF Verdict, Active
  <2>3. c \in Arrived \/ Link(c) \in givenUp
    BY <1>1, <1>3 DEF Kept, Acknowledged, Arrived, Sent, Link
  <2> QED BY <1>1, <1>2, <2>2, <2>3 DEF Abstract!ReturnTrue, Abstract!Link, Link
<1>4. CASE <<To[c], frame[c]>> \in ackFrame[From[c]]
  <2>1. pc' = [pc EXCEPT ![c] = "giveUp"] \/ pc' = [pc EXCEPT ![c] = "transmit"]
    BY <1>4 DEF CheckAck
  <2>2. Verdict' = Verdict
    BY <1>1, <2>1 DEF Verdict, Active
  <2> QED BY <1>1, <1>2, <2>2 DEF Abstract!vars
<1> QED BY <1>3, <1>4

\* handleDeadNode returns false and breaks the link.
LEMMA GiveUpShows ==
  ASSUME Kept, Kept', [Next]_vars, NEW c \in Call, GiveUp(c)
  PROVE  Abstract!ReturnFalse(c)
<1> USE CallAssumption
<1> SUFFICES ASSUME NEW n \in Node, NEW p \in Node, From[c] = n, To[c] = p
             PROVE  Abstract!ReturnFalse(c)
  OBVIOUS
<1>1. /\ pc \in [Call -> {"idle"} \cup Active \cup Returned]
      /\ sendFrame \in [Node -> [Node -> Nat]]
      /\ Link(c) = <<n, p>>
  BY DEF Kept, TypeOK, Link
<1>2. /\ pc[c] = "giveUp"
      /\ pc' = [pc EXCEPT ![c] = "false"]
      /\ sendFrame' = [sendFrame EXCEPT ![n][p] = 0]
      /\ givenUp' = givenUp \cup {<<n, p>>}
      /\ UNCHANGED <<cur, delivered, overlapped>>
  BY DEF GiveUp, listenerVars
<1>3. Verdict[c] = "running" /\ Verdict' = [Verdict EXCEPT ![c] = "false"]
  BY <1>1, <1>2 DEF Verdict, Active
<1>4. Queue' = [Queue EXCEPT ![n][p] = <<>>]
  <2>1. ASSUME NEW m \in Node, NEW q \in Node, <<m, q>> # <<n, p>>
        PROVE  Queue'[m][q] = Queue[m][q]
    <3>1. sendFrame'[m][q] = sendFrame[m][q]
      BY <1>1, <1>2, <2>1
    <3>2. <<m, q>> \in givenUp' <=> <<m, q>> \in givenUp
      BY <1>2, <2>1
    <3>3. CASE <<m, q>> \in givenUp
      BY <3>2, <3>3, QueueSteps
    <3>4. CASE <<m, q>> \notin givenUp
      BY <3>1, <3>2, <3>4, QueueSteps
    <3> QED BY <3>3, <3>4
  <2>2. Queue' = [Queue EXCEPT ![n][p] = Queue'[n][p]]
    BY <2>1, QueueChange
  <2>3. Queue'[n][p] = <<>>
    BY <1>2, QueueSteps
  <2> QED BY <2>2, <2>3
<1>5. Arrived' = {d \in Arrived : Link(d) # Link(c)}
  <2>1. \A d \in Arrived : d \in Call /\ Link(d) \notin givenUp
    BY DEF Arrived, Link
  <2>2. \A d \in Call : d # NoCall
    BY CallAssumption
  <2>3. \A d \in Call : Link(d) \in givenUp' <=> Link(d) \in givenUp \/ Link(d) = Link(c)
    BY <1>1, <1>2
  <2> QED BY <1>2, <2>1, <2>2, <2>3, ArrivedSteps
<1> QED BY <1>1, <1>2, <1>3, <1>4, <1>5 DEF Abstract!ReturnFalse, Abstract!Link, Link

\* A data datagram that the listener reads.
LEMMA ReadDataShows ==
  ASSUME Kept, Kept', [Next]_vars, NEW p \in Node, ReadData(p)
  PROVE  (\E c \in Call : Abstract!Read(c)) \/ UNCHANGED Abstract!vars
<1> USE CallAssumption
<1>1. PICK c \in datagrams : To[c] = p /\ cur' = [cur EXCEPT ![p] = c]
  BY DEF ReadData
<1>2. /\ UNCHANGED <<pc, sendFrame, delivered, givenUp, overlapped>>
      /\ cur[p] = NoCall
  BY DEF ReadData, senderVars, history
<1>3. /\ cur \in [Node -> Call \cup {NoCall}]
      /\ pc \in [Call -> {"idle"} \cup Active \cup Returned]
      /\ c \in Call /\ Sent(c)
  BY DEF Kept, TypeOK, Provenance
<1>4. Queue' = Queue /\ Verdict' = Verdict
  <2>1. Queue' = Queue
    BY <1>2, QueueKept
  <2> QED BY <1>2, <2>1 DEF Verdict
<1>5. \A m \in Node : cur[m] = NoCall => cur'[m] = NoCall \/ cur'[m] = c
  BY <1>1, <1>3
<1>6. \A d \in Call : d # NoCall
  OBVIOUS
<1>7. \A d \in Arrived : d \in Call /\ Link(d) \notin givenUp
  BY DEF Arrived, Link
<1>8. CASE Link(c) \in givenUp
  <2>1. Arrived' = Arrived
    BY <1>2, <1>5, <1>6, <1>7, <1>8, ArrivedSteps
  <2> QED BY <1>2, <1>4, <2>1 DEF Abstract!vars
<1>9. CASE Link(c) \notin givenUp
  <2>1. c \in Arrived'
    <3>1. cur'[To[c]] = c
      BY <1>1, <1>3
    <3> QED BY <1>2, <1>3, <1>9, <3>1 DEF Arrived, ReachedListener, Sent, Link
  <2>2. Arrived' = Arrived \cup {c}
    BY <1>2, <1>5, <1>6, <1>7, <2>1, ArrivedSteps
  <2>3. Verdict[c] # "idle"
    BY <1>3 DEF Verdict, Sent
  <2> QED BY <1>2, <1>3, <1>4, <1>9, <2>2, <2>3 DEF Abstract!Read, Abstract!Link, Link
<1> QED BY <1>8, <1>9

\* What the listener counts it hands up: the next call of its link.
LEMMA OrderNextShows ==
  ASSUME Kept, Kept', [Next]_vars, NEW p \in Node, OrderNext(p)
  PROVE  \E n \in Node : Abstract!HandUp(n, p) \/ Abstract!HandUpBroken(n, p)
<1> USE CallAssumption
<1>1. /\ cur \in [Node -> Call \cup {NoCall}]
      /\ pc \in [Call -> {"idle"} \cup Active \cup Returned]
      /\ frame \in [Call -> Nat]
      /\ msgBuf \in [Node -> SUBSET Call]
      /\ delivered \in [Node -> Seq(Call)]
      /\ TypeOK /\ Provenance /\ Numbering /\ OrderedDelivery /\ Taken /\ Queued
  BY DEF Kept, TypeOK
<1>2. PICK c \in Call : /\ c = cur[p] /\ Sent(c) /\ To[c] = p
                        /\ frame[c] = recvFrame[p][From[c]] + 1
  BY <1>1 DEF OrderNext, Provenance
<1>3. PICK n \in Node : From[c] = n
  OBVIOUS
<1>4. /\ Link(c) = <<n, p>>
      /\ frame[c] = recvFrame[p][n] + 1
      /\ recvFrame[p][n] \in Nat /\ sendFrame[n][p] \in Nat
  BY <1>1, <1>2, <1>3 DEF Link, TypeOK
<1> DEFINE flushed == SameIndex(p, c)
           b == CHOOSE x \in flushed : TRUE
<1>5. /\ delivered' = [delivered EXCEPT ![p] =
                         IF flushed = {} THEN Append(@, c) ELSE Append(Append(@, c), b)]
      /\ UNCHANGED <<pc, sendFrame, givenUp, overlapped>>
      /\ cur' = [cur EXCEPT ![p] = NoCall]
  BY <1>2 DEF OrderNext, senderVars, history
<1>6. UNCHANGED <<Verdict, Queue, Arrived>>
  <2>1. Queue' = Queue
    BY <1>5, QueueKept
  <2>2. \A m \in Node : cur[m] = NoCall => cur'[m] = NoCall
    BY <1>1, <1>5
  <2>3. Arrived' = Arrived
    BY <1>5, <2>2, ArrivedKept
  <2> QED BY <1>5, <2>1, <2>3 DEF Verdict
<1>7. \A x \in flushed : /\ x \in Call /\ Sent(x) /\ x \in msgBuf[p]
                         /\ Link(x) = <<n, p>> /\ frame[x] = frame[c]
  BY <1>1, <1>2, <1>3 DEF SameIndex, Provenance, Link
<1>8. flushed # {} => b \in flushed
  OBVIOUS
<1> HIDE DEF flushed, b
<1>9. CASE <<n, p>> \in givenUp
  <2> DEFINE Calls == {x \in Call : Link(x) = <<n, p>> /\ Verdict[x] # "idle"}
  <2>1. \A x \in Call : Sent(x) => Verdict[x] # "idle"
    BY DEF Verdict, Sent
  <2>2. c \in Calls /\ (flushed # {} => b \in Calls)
    BY <1>2, <1>4, <1>7, <1>8, <2>1
  <2>3. \E x, y \in Calls :
          \/ delivered' = [delivered EXCEPT ![p] = Append(@, x)]
          \/ delivered' = [delivered EXCEPT ![p] = Append(Append(@, x), y)]
    <3>1. CASE flushed = {}
      <4>1. delivered' = [delivered EXCEPT ![p] = Append(@, c)]
        BY <1>5, <3>1
      <4> HIDE DEF Calls
      <4> QED BY <2>2, <4>1
    <3>2. CASE flushed # {}
      <4>1. delivered' = [delivered EXCEPT ![p] = Append(Append(@, c), b)]
        BY <1>5, <3>2
      <4> HIDE DEF Calls
      <4> QED BY <2>2, <3>2, <4>1
    <3> QED BY <3>1, <3>2
  <2>4. Abstract!HandUpBroken(n, p)
    BY <1>5, <1>6, <1>9, <2>3 DEF Abstract!HandUpBroken, Abstract!Link, Link
  <2> QED BY <2>4
<1>10. CASE <<n, p>> \notin givenUp
  <2> DEFINE k == frame[c]
  <2>0. TypeOK /\ Numbering /\ Taken
    BY <1>1
  <2>1. /\ k \in 1..sendFrame[n][p] /\ k \in Nat
        /\ k \in DOMAIN Queue[n][p] /\ Queue[n][p][k] = c
    <3>1. Queue[n][p] \in Seq(Call) /\ Len(Queue[n][p]) = sendFrame[n][p]
      BY <1>10, <2>0, QueueEntries
    <3>2. k <= sendFrame[n][p] /\ (k >= 1 => Queue[n][p][k] = c)
      BY <1>2, <1>4, <1>10, <2>0, QueueEntries
    <3> QED BY <1>4, <3>1, <3>2
  <2>10. ASSUME NEW f \in 1..sendFrame[n][p]
         PROVE  Abstract!HandedUp(p, Queue[n][p][f]) <=> f <= recvFrame[p][n]
    BY <1>1, <1>10, HandedUpIsCounted DEF Abstract!HandedUp
  <2>2. c \in Arrived
    BY <1>2, <1>4, <1>10 DEF Arrived, ReachedListener, Sent, Link
  <2>3. ~ Abstract!HandedUp(p, c)
    <3>1. ~ (k <= recvFrame[p][n])
      BY <1>4
    <3> QED BY <2>1, <2>10, <3>1
  <2>4. ASSUME NEW i \in 1 .. k - 1 PROVE Abstract!HandedUp(p, Queue[n][p][i])
    <3>1. i \in 1..sendFrame[n][p] /\ i <= recvFrame[p][n]
      BY <1>4, <2>1
    <3> QED BY <2>10, <3>1
  <2>5. \A x \in flushed : x = c
    BY <1>1, <1>2, <1>4, <1>7, <1>10 DEF Numbering
  <2>6. flushed # {} => b = c /\ <<n, p>> \in overlapped
    <3>1. flushed # {} => b = c
      BY <1>8, <2>5
    <3>2. ASSUME flushed # {}, <<n, p>> \notin overlapped PROVE FALSE
      <4>1. \A x \in msgBuf[p] : From[x] # n
        BY <1>10, <3>2 DEF Kept, SequentialExactlyOnce
      <4> QED BY <1>3, <1>7, <2>5, <3>2, <4>1
    <3> QED BY <3>1, <3>2
  <2>7. \/ delivered' = [delivered EXCEPT ![p] = Append(@, c)]
        \/ /\ <<n, p>> \in overlapped
           /\ delivered' = [delivered EXCEPT ![p] = Append(Append(@, c), c)]
    <3>1. CASE flushed = {}
      BY <1>5, <3>1
    <3>2. CASE flushed # {}
      BY <1>5, <2>6, <3>2
    <3> QED BY <3>1, <3>2
  <2>8. Abstract!HandUp(n, p)
    BY <1>5, <1>6, <2>1, <2>2, <2>3, <2>4, <2>7 DEF Abstract!HandUp
  <2> QED BY <2>8
<1> QED BY <1>9, <1>10

\* Every other step shows nothing.
LEMMA OtherStepsShow ==
  ASSUME Kept, Kept', [Next]_vars,
         \/ \E c \in Call : Transmit(c) \/ TransmitFails(c)
         \/ \E p \in Node : ReadAck(p) \/ OrderAhead(p) \/ OrderDuplicate(p)
         \/ \E p \in Node : AckListenerStep(p) \/ Shutdown(p)
         \/ UNCHANGED vars
  PROVE  UNCHANGED Abstract!vars
<1>1. /\ cur \in [Node -> Call \cup {NoCall}]
      /\ pc \in [Call -> {"idle"} \cup Active \cup Returned]
  BY DEF Kept, TypeOK
<1> DEFINE Quiet == /\ UNCHANGED <<sendFrame, delivered, givenUp, overlapped>>
                    /\ \A m \in Node : cur[m] = NoCall => cur'[m] = NoCall
<1>2. ASSUME NEW c \in Call, Transmit(c) \/ TransmitFails(c)
      PROVE  Quiet /\ Verdict' = Verdict
  BY <1>1, <1>2 DEF Transmit, TransmitFails, Verdict, Active, listenerVars, history
<1>3. ASSUME NEW p \in Node, ReadAck(p) \/ OrderAhead(p) \/ OrderDuplicate(p)
      PROVE  Quiet /\ pc' = pc
  BY <1>1, <1>3 DEF ReadAck, OrderAhead, OrderDuplicate, senderVars, listenerVars, history
<1>4. ASSUME NEW p \in Node, AckListenerStep(p) \/ Shutdown(p)
      PROVE  Quiet /\ pc' = pc
  BY <1>4 DEF AckListenerStep, RecordAck, ReplyAck, Shutdown, senderVars, listenerVars, history
<1>6. pc' = pc => Verdict' = Verdict
  BY DEF Verdict
<1>7. Quiet /\ Verdict' = Verdict
  <2>1. CASE UNCHANGED vars
    <3>1. Quiet /\ pc' = pc
      BY <2>1 DEF vars, senderVars, listenerVars, history
    <3> QED BY <1>6, <3>1
  <2> QED BY <1>2, <1>3, <1>4, <1>6, <2>1
<1>8. Queue' = Queue /\ Arrived' = Arrived
  BY <1>7, QueueKept, ArrivedKept
<1> QED BY <1>7, <1>8 DEF Abstract!vars

(* The unicast implements the abstract link, for any nodes, calls, retry   *)
(* bound and channel capacity: send, handleDeadNode and CheckAck's success *)
(* map to Send, ReturnFalse and ReturnTrue, the listener's reading and its *)
(* in-order case to Read and HandUp, and everything else shows nothing.    *)
THEOREM ImplementsUnicastLinkCorrect == Spec => ImplementsUnicastLink
<1>1. Init => Abstract!Init
  <2> SUFFICES ASSUME Init PROVE Abstract!Init
    OBVIOUS
  <2>1. Verdict = [c \in Call |-> "idle"]
    BY DEF Init, Verdict, Active
  <2>2. Arrived = {}
    BY DEF Init, Arrived
  <2>3. Queue = [n \in Node |-> [p \in Node |-> <<>>]]
    <3>1. \A n, p \in Node : sendFrame[n][p] = 0 /\ <<n, p>> \notin givenUp
      BY DEF Init
    <3>2. 1..0 = {}
      OBVIOUS
    <3>3. ASSUME NEW n \in Node, NEW p \in Node
          PROVE  [f \in 1..sendFrame[n][p] |-> Numbered(n, p, f)] = <<>>
      <4> DEFINE q == [f \in 1..sendFrame[n][p] |-> Numbered(n, p, f)]
      <4>1. q = [f \in 1..0 |-> Numbered(n, p, f)]
        BY <3>1
      <4>2. q = [f \in {} |-> Numbered(n, p, f)]
        BY <3>2, <4>1
      <4>3. <<>> = [f \in {} |-> Numbered(n, p, f)]
        OBVIOUS
      <4> HIDE DEF q
      <4>4. q = <<>>
        BY <4>2, <4>3
      <4> QED BY <4>4 DEF q
    <3> QED BY <3>1, <3>3 DEF Queue
  <2> QED BY <2>1, <2>2, <2>3 DEF Init, Abstract!Init
<1>2. Kept /\ Kept' /\ [Next]_vars => [Abstract!Next]_(Abstract!vars)
  <2> SUFFICES ASSUME Kept, Kept', [Next]_vars PROVE [Abstract!Next]_(Abstract!vars)
    OBVIOUS
  <2>1. ASSUME NEW c \in Call, Send(c) PROVE Abstract!Send(c)
    BY <2>1, SendShows
  <2>2. ASSUME NEW c \in Call, CheckAck(c)
        PROVE  Abstract!ReturnTrue(c) \/ UNCHANGED Abstract!vars
    BY <2>2, CheckAckShows
  <2>3. ASSUME NEW c \in Call, GiveUp(c) PROVE Abstract!ReturnFalse(c)
    BY <2>3, GiveUpShows
  <2>4. ASSUME NEW p \in Node, ReadData(p)
        PROVE  (\E c \in Call : Abstract!Read(c)) \/ UNCHANGED Abstract!vars
    BY <2>4, ReadDataShows
  <2>5. ASSUME NEW p \in Node, OrderNext(p)
        PROVE  \E n \in Node : Abstract!HandUp(n, p) \/ Abstract!HandUpBroken(n, p)
    BY <2>5, OrderNextShows
  <2>6. \/ \E c \in Call : Send(c) \/ CheckAck(c) \/ GiveUp(c)
        \/ \E p \in Node : ReadData(p) \/ OrderNext(p)
        \/ UNCHANGED Abstract!vars
    BY OtherStepsShow DEF Next, SendStep, ListenerStep
  <2> QED BY <2>1, <2>2, <2>3, <2>4, <2>5, <2>6 DEF Abstract!Next
<1> QED BY <1>1, <1>2, KeptCorrect, PTL DEF Spec, ImplementsUnicastLink, Abstract!Spec
=============================================================================
