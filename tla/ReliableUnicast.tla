--------------------------- MODULE ReliableUnicast ---------------------------
(***************************************************************************)
(* server/unicast/unicast.go: the acknowledged, numbered unicast every     *)
(* server uses for control messages.                                       *)
(*                                                                         *)
(* Each node runs one listener goroutine (reliableListener.start), one     *)
(* goroutine that handles acknowledgements (reliableSender.ackListener)    *)
(* and any number of concurrent calls of reliableSender.send.  A call is   *)
(* a member of Call; it stands for its payload too.  The UDP network may   *)
(* lose, duplicate, delay and reorder: whatever was written may be read at *)
(* any later time, any number of times, or never.                          *)
(***************************************************************************)
EXTENDS Naturals, Sequences

CONSTANTS
  Node,      \* server UUIDs; a respawned server is another member
  Call,      \* the calls of send(), each with its payload
  From, To,  \* the node that executes a call, the peer it addresses
  MaxTries,  \* retransmissions before the peer is taken for dead: 20
  ChanCap,   \* capacity of sAckChan and lAckChan: 5
  NoCall     \* "the listener holds no datagram"

ASSUME CallAssumption ==
  /\ From \in [Call -> Node]
  /\ To \in [Call -> Node]
  /\ NoCall \notin Call

ASSUME BoundAssumption == MaxTries \in Nat /\ ChanCap \in Nat \ {0}

VARIABLES
  \* reliableSender
  sendFrame,  \* peerFrame: last frame number used for a peer, 0 = no entry
  ackFrame,   \* ackFrame: the keys <<peer, frame>> still unacknowledged
  pc,         \* control state of each call of send()
  frame,      \* currFrame of each call
  tries,      \* Tries of each call
  \* reliableListener
  recvFrame,  \* peerFrame: last frame passed up for a peer, 0 = no entry
  msgBuf,     \* msgBuf: frames that arrived ahead of order
  cur,        \* the data datagram the listener is processing
  delivered,  \* everything put on msgChan, in order
  \* channels between the goroutines of a node, and the network
  sAckChan,   \* acknowledgements read by the listener
  lAckChan,   \* acknowledgements the listener asks to be sent
  datagrams,  \* data datagrams written
  acks,       \* acknowledgement datagrams written: <<acker, sender, frame>>
  up,         \* nodes whose sockets are open
  \* history: what the properties speak of, never read by an action
  givenUp,    \* <<n, p>>: n ran handleDeadNode(p)
  overlapped  \* <<n, p>>: n had two calls to p unfinished at once

senderVars   == <<sendFrame, ackFrame, pc, frame, tries>>
listenerVars == <<recvFrame, msgBuf, cur, delivered>>
chanVars     == <<sAckChan, lAckChan>>
netVars      == <<datagrams, acks, up>>
history      == <<givenUp, overlapped>>
vars == <<senderVars, listenerVars, chanVars, netVars, history>>

Index == Node \X Nat           \* the msgIndex keys: uuid ++ frame number

Active   == {"transmit", "wait", "giveUp"}
Returned == {"true", "false"}

Init ==
  /\ sendFrame = [n \in Node |-> [p \in Node |-> 0]]
  /\ ackFrame = [n \in Node |-> {}]
  /\ pc = [c \in Call |-> "idle"]
  /\ frame = [c \in Call |-> 0]
  /\ tries = [c \in Call |-> 0]
  /\ recvFrame = [n \in Node |-> [p \in Node |-> 0]]
  /\ msgBuf = [n \in Node |-> {}]
  /\ cur = [n \in Node |-> NoCall]
  /\ delivered = [n \in Node |-> <<>>]
  /\ sAckChan = [n \in Node |-> <<>>]
  /\ lAckChan = [n \in Node |-> <<>>]
  /\ datagrams = {}
  /\ acks = {}
  /\ up = Node
  /\ givenUp = {}
  /\ overlapped = {}

-----------------------------------------------------------------------------
(* reliableSender.send *)

\* The locked prefix of send: number the message and register it for an ack.
Send(c) ==
  LET n == From[c]
      p == To[c]
      f == sendFrame[n][p] + 1
  IN  /\ pc[c] = "idle"
      /\ sendFrame' = [sendFrame EXCEPT ![n][p] = f]
      /\ ackFrame' = [ackFrame EXCEPT ![n] = @ \cup {<<p, f>>}]
      /\ frame' = [frame EXCEPT ![c] = f]
      /\ pc' = [pc EXCEPT ![c] = "transmit"]
      /\ overlapped' = IF \E d \in Call : From[d] = n /\ To[d] = p /\ pc[d] \in Active
                       THEN overlapped \cup {<<n, p>>}
                       ELSE overlapped
      /\ UNCHANGED <<tries, listenerVars, chanVars, netVars, givenUp>>

\* sendUDP succeeds; the call sleeps 20 ms before it looks for the ack.
Transmit(c) ==
  /\ pc[c] = "transmit"
  /\ From[c] \in up
  /\ datagrams' = datagrams \cup {c}
  /\ pc' = [pc EXCEPT ![c] = "wait"]
  /\ UNCHANGED <<sendFrame, ackFrame, frame, tries, listenerVars, chanVars, acks, up, history>>

\* sendUDP returns an error, as it always does on a closed socket.
TransmitFails(c) ==
  /\ pc[c] = "transmit"
  /\ pc' = [pc EXCEPT ![c] = "giveUp"]
  /\ UNCHANGED <<sendFrame, ackFrame, frame, tries, listenerVars, chanVars, netVars, history>>

\* Variant: a retransmission is not counted.
CheckAckUncounted(c) ==
  /\ pc[c] = "wait"
  /\ pc' = [pc EXCEPT ![c] = IF <<To[c], frame[c]>> \in ackFrame[From[c]]
                               THEN "transmit" ELSE "true"]
  /\ UNCHANGED <<sendFrame, ackFrame, frame, tries, listenerVars, chanVars, netVars, history>>

\* Variant: one retransmission too many.
CheckAckOffByOne(c) ==
  /\ pc[c] = "wait"
  /\ \/ /\ <<To[c], frame[c]>> \notin ackFrame[From[c]]
        /\ pc' = [pc EXCEPT ![c] = "true"]
        /\ UNCHANGED tries
     \/ /\ <<To[c], frame[c]>> \in ackFrame[From[c]]
        /\ tries[c] <= MaxTries
        /\ pc' = [pc EXCEPT ![c] = "transmit"]
        /\ tries' = [tries EXCEPT ![c] = @ + 1]
  /\ UNCHANGED <<sendFrame, ackFrame, frame, listenerVars, chanVars, netVars, history>>

\* After the sleep: done if the ackFrame entry is gone, whoever removed it.
CheckAck(c) ==
  /\ pc[c] = "wait"
  /\ \/ /\ <<To[c], frame[c]>> \notin ackFrame[From[c]]
        /\ pc' = [pc EXCEPT ![c] = "true"]
        /\ UNCHANGED tries
     \/ /\ <<To[c], frame[c]>> \in ackFrame[From[c]]
        /\ tries[c] = MaxTries
        /\ pc' = [pc EXCEPT ![c] = "giveUp"]
        /\ UNCHANGED tries
     \/ /\ <<To[c], frame[c]>> \in ackFrame[From[c]]
        /\ tries[c] < MaxTries
        /\ pc' = [pc EXCEPT ![c] = "transmit"]
        /\ tries' = [tries EXCEPT ![c] = @ + 1]
  /\ UNCHANGED <<sendFrame, ackFrame, frame, listenerVars, chanVars, netVars, history>>

\* handleDeadNode, under a lock of its own, then return false: it forgets
\* the peer's numbering and every entry the peer's other calls wait on.
GiveUp(c) ==
  LET n == From[c]
      p == To[c]
  IN  /\ pc[c] = "giveUp"
      /\ sendFrame' = [sendFrame EXCEPT ![n][p] = 0]
      /\ ackFrame' = [ackFrame EXCEPT ![n] = {x \in @ : x[1] # p}]
      /\ pc' = [pc EXCEPT ![c] = "false"]
      /\ givenUp' = givenUp \cup {<<n, p>>}
      /\ UNCHANGED <<frame, tries, listenerVars, chanVars, netVars, overlapped>>

-----------------------------------------------------------------------------
(* reliableListener.start *)

\* A datagram with Response = 1: pass its index on; waits while sAckChan is full.
ReadAck(n) ==
  /\ n \in up
  /\ cur[n] = NoCall
  /\ Len(sAckChan[n]) < ChanCap
  /\ \E a \in acks :
       /\ a[2] = n
       /\ sAckChan' = [sAckChan EXCEPT ![n] = Append(@, <<a[1], a[3]>>)]
  /\ UNCHANGED <<senderVars, listenerVars, lAckChan, netVars, history>>

\* A data datagram: queue its acknowledgement before anything else is decided.
ReadData(n) ==
  /\ n \in up
  /\ cur[n] = NoCall
  /\ Len(lAckChan[n]) < ChanCap
  /\ \E c \in datagrams :
       /\ To[c] = n
       /\ lAckChan' = [lAckChan EXCEPT ![n] = Append(@, <<From[c], frame[c]>>)]
       /\ cur' = [cur EXCEPT ![n] = c]
  /\ UNCHANGED <<senderVars, recvFrame, msgBuf, delivered, sAckChan, netVars, history>>

\* Entries of msgBuf stored under the key of c.
SameIndex(n, c) == {b \in msgBuf[n] : From[b] = From[c] /\ frame[b] = frame[c]}

\* Variant: the next frame counts as ahead of order.
OrderAheadOffByOne(n) ==
  LET c == cur[n]
  IN  /\ c # NoCall
      /\ frame[c] >= recvFrame[n][From[c]] + 1
      /\ msgBuf' = [msgBuf EXCEPT ![n] = (@ \ SameIndex(n, c)) \cup {c}]
      /\ cur' = [cur EXCEPT ![n] = NoCall]
      /\ UNCHANGED <<senderVars, recvFrame, delivered, chanVars, netVars, history>>

\* "prev frames missing": keep the frame for later.
OrderAhead(n) ==
  LET c == cur[n]
  IN  /\ c # NoCall
      /\ frame[c] > recvFrame[n][From[c]] + 1
      /\ msgBuf' = [msgBuf EXCEPT ![n] = (@ \ SameIndex(n, c)) \cup {c}]
      /\ cur' = [cur EXCEPT ![n] = NoCall]
      /\ UNCHANGED <<senderVars, recvFrame, delivered, chanVars, netVars, history>>

\* "discarding duplicate message"
OrderDuplicate(n) ==
  LET c == cur[n]
  IN  /\ c # NoCall
      /\ frame[c] < recvFrame[n][From[c]] + 1
      /\ cur' = [cur EXCEPT ![n] = NoCall]
      /\ UNCHANGED <<senderVars, recvFrame, msgBuf, delivered, chanVars, netVars, history>>

\* Variant: the count jumps to the frame that arrived, whatever is missing.
OrderNextGap(n) ==
  LET c == cur[n]
  IN  /\ c # NoCall
      /\ frame[c] > recvFrame[n][From[c]]
      /\ recvFrame' = [recvFrame EXCEPT ![n][From[c]] = frame[c]]
      /\ delivered' = [delivered EXCEPT ![n] = Append(@, c)]
      /\ cur' = [cur EXCEPT ![n] = NoCall]
      /\ UNCHANGED <<senderVars, msgBuf, chanVars, netVars, history>>

\* Variant: the flush loop passes up the frame after, without counting it.
OrderNextFlushesAhead(n) ==
  LET c == cur[n]
      flushed == {b \in msgBuf[n] : From[b] = From[c] /\ frame[b] = frame[c] + 1}
  IN  /\ c # NoCall
      /\ frame[c] = recvFrame[n][From[c]] + 1
      /\ recvFrame' = [recvFrame EXCEPT ![n][From[c]] = @ + 1]
      /\ delivered' = [delivered EXCEPT ![n] =
                         IF flushed = {} THEN Append(@, c)
                         ELSE Append(Append(@, c), CHOOSE b \in flushed : TRUE)]
      /\ msgBuf' = [msgBuf EXCEPT ![n] = @ \ flushed]
      /\ cur' = [cur EXCEPT ![n] = NoCall]
      /\ UNCHANGED <<senderVars, chanVars, netVars, history>>

\* The next frame in order: count it, pass it up, then pass up what the
\* buffer holds under the number just counted (the flush loop reads
\* peerFrame without advancing it, so it finds at most that one entry).
OrderNext(n) ==
  LET c == cur[n]
      flushed == SameIndex(n, c)
  IN  /\ c # NoCall
      /\ frame[c] = recvFrame[n][From[c]] + 1
      /\ recvFrame' = [recvFrame EXCEPT ![n][From[c]] = @ + 1]
      /\ delivered' = [delivered EXCEPT ![n] =
                         IF flushed = {} THEN Append(@, c)
                         ELSE Append(Append(@, c), CHOOSE b \in flushed : TRUE)]
      /\ msgBuf' = [msgBuf EXCEPT ![n] = @ \ flushed]
      /\ cur' = [cur EXCEPT ![n] = NoCall]
      /\ UNCHANGED <<senderVars, chanVars, netVars, history>>

-----------------------------------------------------------------------------
(* reliableSender.ackListener *)

\* Variant: an acknowledgement settles every frame of its peer.
RecordAckOfPeer(n) ==
  /\ sAckChan[n] # <<>>
  /\ ackFrame' = [ackFrame EXCEPT ![n] = {x \in @ : x[1] # Head(sAckChan[n])[1]}]
  /\ sAckChan' = [sAckChan EXCEPT ![n] = Tail(@)]
  /\ UNCHANGED <<sendFrame, pc, frame, tries, listenerVars, lAckChan, netVars, history>>

\* An acknowledgement came in: the frame no longer waits for one.
RecordAck(n) ==
  /\ sAckChan[n] # <<>>
  /\ ackFrame' = [ackFrame EXCEPT ![n] = @ \ {Head(sAckChan[n])}]
  /\ sAckChan' = [sAckChan EXCEPT ![n] = Tail(@)]
  /\ UNCHANGED <<sendFrame, pc, frame, tries, listenerVars, lAckChan, netVars, history>>

\* Send the acknowledgement the listener asked for; a write on a closed
\* socket fails and the error is ignored.
ReplyAck(n) ==
  LET next == Head(lAckChan[n])
  IN  /\ lAckChan[n] # <<>>
      /\ acks' = IF n \in up THEN acks \cup {<<n, next[1], next[2]>>} ELSE acks
      /\ lAckChan' = [lAckChan EXCEPT ![n] = Tail(@)]
      /\ UNCHANGED <<senderVars, listenerVars, sAckChan, datagrams, up, history>>

\* ReliableUnicast.Shutdown: both sockets are closed.
Shutdown(n) ==
  /\ n \in up
  /\ up' = up \ {n}
  /\ UNCHANGED <<senderVars, listenerVars, chanVars, datagrams, acks, history>>

-----------------------------------------------------------------------------
SendStep(c) == Transmit(c) \/ TransmitFails(c) \/ CheckAck(c) \/ GiveUp(c)

ListenerStep(n) ==
  \/ ReadAck(n) \/ ReadData(n)
  \/ OrderAhead(n) \/ OrderDuplicate(n) \/ OrderNext(n)

AckListenerStep(n) == RecordAck(n) \/ ReplyAck(n)

Next ==
  \/ \E c \in Call : Send(c) \/ SendStep(c)
  \/ \E n \in Node : ListenerStep(n) \/ AckListenerStep(n) \/ Shutdown(n)

Spec == Init /\ [][Next]_vars

\* A call of send is a goroutine that only sleeps 20 ms between its steps: it
\* keeps running.  Nothing is assumed of the network, of the listeners or of
\* the acknowledging goroutines.
Fairness == \A c \in Call : WF_vars(SendStep(c))

FairSpec == Spec /\ Fairness

-----------------------------------------------------------------------------
TypeOK ==
  /\ sendFrame \in [Node -> [Node -> Nat]]
  /\ ackFrame \in [Node -> SUBSET Index]
  /\ pc \in [Call -> {"idle"} \cup Active \cup Returned]
  /\ frame \in [Call -> Nat]
  /\ tries \in [Call -> 0..MaxTries]
  /\ recvFrame \in [Node -> [Node -> Nat]]
  /\ msgBuf \in [Node -> SUBSET Call]
  /\ cur \in [Node -> Call \cup {NoCall}]
  /\ delivered \in [Node -> Seq(Call)]
  /\ sAckChan \in [Node -> Seq(Index)]
  /\ lAckChan \in [Node -> Seq(Index)]
  /\ datagrams \subseteq Call
  /\ acks \subseteq Node \X Node \X Nat
  /\ up \subseteq Node
  /\ givenUp \subseteq Node \X Node
  /\ overlapped \subseteq Node \X Node

\* The peer's listener has read the datagram of c: it was passed up (or has
\* the number of a frame that was), is buffered, or is being processed.
ReachedListener(c) ==
  LET p == To[c]
  IN  \/ frame[c] <= recvFrame[p][From[c]]
      \/ c \in msgBuf[p]
      \/ cur[p] = c

(* What one peer's messages look like to the application: the frames       *)
(* handed up are exactly 1 to peerFrame, without a gap, and never go back, *)
(* whatever the network and the sender's retransmissions do (start, the    *)
(* comparison with lastAckFrame and the flush loop).                       *)
OrderedDelivery ==
  \A n \in Node :
    /\ \A p \in Node : \A f \in 1..recvFrame[n][p] :
         \E i \in DOMAIN delivered[n] :
           From[delivered[n][i]] = p /\ frame[delivered[n][i]] = f
    /\ \A j \in DOMAIN delivered[n] :
         /\ frame[delivered[n][j]] <= recvFrame[n][From[delivered[n][j]]]
         /\ \A i \in 1..j : From[delivered[n][i]] = From[delivered[n][j]]
                              => frame[delivered[n][i]] <= frame[delivered[n][j]]

(* A send that returned true was read by the peer's listener, unless the   *)
(* sender ran handleDeadNode for that peer at some time: an entry of       *)
(* ackFrame is removed only by an acknowledgement or by handleDeadNode.    *)
TrueMeansReceived ==
  \A c \in Call :
    pc[c] = "true" /\ <<From[c], To[c]>> \notin givenUp => ReachedListener(c)

(* The discipline under which the listener's buffer does no harm: as long  *)
(* as a node never has two unfinished sends to a peer and never gave the   *)
(* peer up, nothing is buffered for ever and nothing is passed up twice.   *)
SequentialExactlyOnce ==
  \A n, p \in Node :
    <<n, p>> \notin givenUp \cup overlapped =>
      /\ \A b \in msgBuf[p] : From[b] # n
      /\ \A i, j \in DOMAIN delivered[p] :
           From[delivered[p][i]] = n /\ delivered[p][i] = delivered[p][j] => i = j

(* The unicast implements the abstract link: a call is running until it    *)
(* returns, the messages of a link are in the order of their numbers, and  *)
(* those the listener has read are the ones it counted, keeps or handles.  *)
Verdict == [c \in Call |-> IF pc[c] \in Active THEN "running" ELSE pc[c]]

Numbered(n, p, f) ==
  CHOOSE c \in Call : From[c] = n /\ To[c] = p /\ pc[c] # "idle" /\ frame[c] = f

Queue == [n \in Node |-> [p \in Node |->
           IF <<n, p>> \in givenUp THEN <<>>
           ELSE [f \in 1..sendFrame[n][p] |-> Numbered(n, p, f)]]]

Arrived ==
  {c \in Call : pc[c] # "idle" /\ <<From[c], To[c]>> \notin givenUp /\ ReachedListener(c)}

Abstract == INSTANCE UnicastLink WITH
  verdict <- Verdict, sent <- Queue, read <- Arrived,
  delivered <- delivered, broken <- givenUp, shared <- overlapped
ImplementsUnicastLink == Abstract!Spec

(* Every call of send returns: retransmission is bounded by Tries, and no  *)
(* behaviour of peer, network or other calls keeps it going.               *)
SendReturns == \A c \in Call : pc[c] \in Active ~> pc[c] \in Returned

-----------------------------------------------------------------------------
(* What the source's comments and tests say and the code does not do.      *)

(* "ordered message for application layer" (unicast.go:22), with the       *)
(* listener's "discarding duplicate message": no message is passed up      *)
(* twice.                                                                  *)
NoDuplicateDelivery ==
  \A n \in Node : \A i, j \in DOMAIN delivered[n] :
    delivered[n][i] = delivered[n][j] => i = j
=============================================================================
