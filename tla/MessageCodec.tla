---------------------------- MODULE MessageCodec ----------------------------
(***************************************************************************)
(* What the servers put into datagrams and take out of them: Encode and    *)
(* Decode of server/message/message.go inside the envelopes of             *)
(* unicast/unicast.go and multicast/multicast.go, and what each listener   *)
(* does with the outcome.                                                  *)
(*                                                                         *)
(* A datagram is a sequence of cells; a cell is one character or one       *)
(* integer, whatever its width, and NUL is the zero byte.  Both listeners  *)
(* read into a buffer of 1024 bytes, here of one of the sizes BufLens, and  *)
(* what does not fit is cut off.                                           *)
(***************************************************************************)
EXTENDS Naturals, Sequences, FiniteSets, SequencesExt

CONSTANTS
  Member,  \* the servers, positive numbers
  IdLen,   \* length of an id: 36
  BufLens, \* bound: the lengths of a listener's buffer, in the place of 1024
  Text,    \* the chat lines of clients
  Clocks   \* bound: the values of a vector clock entry

ASSUME MemberAssumption == IsFiniteSet(Member) /\ Member \subseteq Nat \ {0}
ASSUME ContentAssumption == Text \subseteq Seq(Nat) /\ Clocks \subseteq Nat
\* What precedes the length of a unicast message always fits: 82 of 1024 bytes.
ASSUME LengthAssumption == /\ IdLen \in Nat \ {0}
                           /\ BufLens \subseteq Nat
                           /\ \A n \in BufLens : n >= 3 + 2 * IdLen

VARIABLES
  sent,      \* the envelope and the message a server sent
  datagram,  \* its cells
  room,      \* length of the listener's buffer
  received   \* what the listener made of it

vars == <<sent, datagram, room, received>>

NUL == 0
Space == 1
Id(n) == [i \in 1..IdLen |-> n]
Ip(n) == [i \in 1..n |-> n]      \* addresses differ in length

\* The MessageTypes that are sent, numbered by iota.
ConnectToLeader == 0
Election == 1
ElectionVictory == 3
Application == 5
DeadNode == 6
PeerInfo == 8
MulticastSessionChange == 9
MulticastAck == 10

Blank == [type |-> 0, uuid |-> <<>>, ip |-> <<>>, frame |-> 0, msg |-> <<>>,
          peers |-> <<>>, port |-> 0]

-----------------------------------------------------------------------------
(* Reading from bytes.NewReader: ok until something was missing, got is    *)
(* what was read so far.                                                   *)

Reader(data) == [rest |-> data, ok |-> TRUE, got |-> <<>>]

\* binary.Read of an integer
TakeInt(r) ==
  IF r.ok /\ r.rest # <<>>
  THEN [rest |-> Tail(r.rest), ok |-> TRUE, got |-> Append(r.got, Head(r.rest))]
  ELSE [r EXCEPT !.ok = FALSE, !.got = Append(@, 0)]

\* Variant: the buffer is cut to what was read.
TakeShort(r, n) ==
  IF r.ok /\ r.rest # <<>>
  THEN [rest |-> SubSeq(r.rest, n + 1, Len(r.rest)), ok |-> TRUE,
        got |-> Append(r.got, SubSeq(r.rest, 1, IF n < Len(r.rest) THEN n ELSE Len(r.rest)))]
  ELSE [r EXCEPT !.ok = FALSE, !.got = Append(@, <<>>)]

\* reader.Read into a new buffer of n bytes: an error at the end of the data,
\* even when n is 0, but not when fewer than n bytes are left.
Take(r, n) ==
  IF r.ok /\ r.rest # <<>>
  THEN [rest |-> SubSeq(r.rest, n + 1, Len(r.rest)), ok |-> TRUE,
        got |-> Append(r.got, [i \in 1..n |-> IF i <= Len(r.rest) THEN r.rest[i] ELSE NUL])]
  ELSE [r EXCEPT !.ok = FALSE, !.got = Append(@, <<>>)]

\* A length and that many bytes.
TakeStr(r) == LET l == TakeInt(r) IN [Take(l, Last(l.got)) EXCEPT !.got = Append(r.got, Last(@))]

-----------------------------------------------------------------------------
(* message.go                                                              *)

PutStr(s) == <<Len(s)>> \o s
PutPeer(q) == PutStr(q.id) \o PutStr(q.ip) \o <<q.clock>>

Encode(m) ==
  <<m.type>> \o
  CASE m.type = MulticastAck -> <<m.frame>> \o m.msg
    [] m.type = Application -> PutStr(m.msg)
    [] m.type = DeadNode -> PutStr(m.uuid) \o PutStr(m.ip)
    [] m.type \in {PeerInfo, MulticastSessionChange} ->
         <<Len(m.peers)>> \o FlattenSeq([i \in DOMAIN m.peers |-> PutPeer(m.peers[i])])
           \o <<m.port>>
    [] OTHER -> <<>>

\* Variant: the address before the id.
GetPeerSwapped(r) ==
  LET p == TakeInt(TakeStr(TakeStr([r EXCEPT !.got = <<>>])))
  IN  [p EXCEPT !.got = Append(r.got, [id |-> p.got[2], ip |-> p.got[1], clock |-> p.got[3]])]

\* One round of the loop over PeerIds.
GetPeer(r) ==
  LET p == TakeInt(TakeStr(TakeStr([r EXCEPT !.got = <<>>])))
  IN  [p EXCEPT !.got = Append(r.got, [id |-> p.got[1], ip |-> p.got[2], clock |-> p.got[3]])]

GetPeers(r) ==
  LET count == TakeInt(r)
      round[i \in 0..Last(count.got)] ==
        IF i = 0 THEN [count EXCEPT !.got = <<>>] ELSE GetPeer(round[i - 1])
      peers == round[Last(count.got)]
  IN  [peers EXCEPT !.got = Append(r.got, peers.got)]

\* The message, and whether err is nil.
Decode(data) ==
  LET type == TakeInt(Reader(data))
      m == [Blank EXCEPT !.type = type.got[1]]
      frame == TakeInt(type)
      msg == TakeStr(type)
      dead == TakeStr(TakeStr(type))
      change == TakeInt(GetPeers(type))
  IN  CASE ~ type.ok -> [ok |-> FALSE, m |-> Blank]
        [] m.type = MulticastAck -> [ok |-> frame.ok, m |-> [m EXCEPT !.frame = frame.got[2]]]
        [] m.type = Application -> [ok |-> msg.ok, m |-> [m EXCEPT !.msg = msg.got[2]]]
        [] m.type = DeadNode ->
             [ok |-> dead.ok, m |-> [m EXCEPT !.uuid = dead.got[2], !.ip = dead.got[3]]]
        [] m.type \in {PeerInfo, MulticastSessionChange} ->
             [ok |-> change.ok, m |-> [m EXCEPT !.peers = change.got[2], !.port = change.got[3]]]
        [] OTHER -> [ok |-> TRUE, m |-> m]

-----------------------------------------------------------------------------
(* The envelopes                                                           *)

\* An id is cut or filled up to IdLen.
PutId(s) == [i \in 1..IdLen |-> IF i <= Len(s) THEN s[i] ELSE NUL]

EncodeUnicast(e, message) ==
  <<e.response, e.frame, e.tries>> \o PutId(e.from) \o PutId(e.to)
    \o IF e.response = 1 THEN <<>> ELSE PutStr(message)

DecodeUnicast(data) ==
  LET h == Take(Take(TakeInt(TakeInt(TakeInt(Reader(data)))), IdLen), IdLen)
      message == TakeStr(h)
      whole == IF h.got[1] = 1 THEN h ELSE message
  IN  [ok |-> whole.ok,
       e |-> [response |-> h.got[1], frame |-> h.got[2], tries |-> h.got[3],
              from |-> h.got[4], to |-> h.got[5]],
       message |-> IF h.got[1] = 1 THEN <<>> ELSE message.got[6]]

\* The entries of a vector clock leave the map in any order.
EncodeMulticast(e, order, message) ==
  <<e.frame>> \o PutId(e.uuid) \o <<Len(order)>>
    \o FlattenSeq([i \in DOMAIN order |-> <<e.clock[order[i]]>> \o PutId(order[i])])
    \o PutStr(message)

\* The map made of pairs of a clock and an id, in one sequence.
ClockOf(cells) ==
  LET ids == {i \in DOMAIN cells : i % 2 = 0}
  IN  [id \in {cells[i] : i \in ids} |-> cells[(CHOOSE i \in ids : cells[i] = id) - 1]]

\* The number of entries and then each entry: its clock, then its id.
GetClock(r) ==
  LET count == TakeInt(r)
      round[i \in 0..Last(count.got)] ==
        IF i = 0 THEN [count EXCEPT !.got = <<>>] ELSE Take(TakeInt(round[i - 1]), IdLen)
      clock == round[Last(count.got)]
  IN  [clock EXCEPT !.got = Append(r.got, ClockOf(clock.got))]

DecodeMulticast(data) ==
  LET d == TakeStr(GetClock(Take(TakeInt(Reader(data)), IdLen)))
  IN  [ok |-> d.ok, e |-> [frame |-> d.got[1], uuid |-> d.got[2], clock |-> d.got[3]],
       message |-> d.got[4]]

-----------------------------------------------------------------------------
(* Sending                                                                 *)

Nothing == [as |-> "nothing"]

Init == sent = Nothing /\ datagram = <<>> /\ room \in BufLens /\ received = Nothing

\* Peer ids, addresses and clocks in the order they leave the map of peers;
\* every clock is 0.
PeerList(order) ==
  [i \in DOMAIN order |-> [id |-> Id(order[i]), ip |-> Ip(order[i]), clock |-> 0]]

\* The peers, or those of the next multicast session.
PeersMessage(t, peers, port) == [Blank EXCEPT !.type = t, !.peers = peers, !.port = port]

Orders == UNION {SetToSeqs(S) : S \in (SUBSET Member) \ {{}}}
PeersMessages ==
  {PeersMessage(t, PeerList(order), p) :
     t \in {PeerInfo, MulticastSessionChange}, p \in {1, 2}, order \in Orders}

\* The control messages that go by unicast.
UnicastMessage ==
  {[Blank EXCEPT !.type = t] : t \in {ConnectToLeader, Election}}
  \cup {[Blank EXCEPT !.type = MulticastAck, !.frame = f] : f \in Clocks}
  \cup PeersMessages

SendUnicast ==
  \E m \in UnicastMessage, from, to \in Member, f \in Clocks, response \in {0, 1} :
    LET e == [response |-> response, frame |-> f, tries |-> 0, from |-> Id(from), to |-> Id(to)]
    IN  /\ sent = Nothing
        /\ from # to
        /\ sent' = [as |-> "unicast", e |-> e, m |-> IF response = 1 THEN Blank ELSE m]
        /\ datagram' = EncodeUnicast(e, Encode(m))
        /\ UNCHANGED <<room, received>>

\* Variant: the line is sent as it was typed.
LineAsTyped(text) == text

\* startMutlicastSender sends an empty line as a space.
Line(text) == IF text = <<>> THEN <<Space>> ELSE text

MulticastMessage ==
  {[Blank EXCEPT !.type = ElectionVictory]}
  \cup {[Blank EXCEPT !.type = Application, !.msg = Line(t)] : t \in Text}
  \cup {[Blank EXCEPT !.type = DeadNode, !.uuid = Id(n), !.ip = Ip(n)] : n \in Member}

SendMulticast ==
  \E m \in MulticastMessage, S \in SUBSET Member, f \in Clocks :
    \E from \in S, clock \in [{Id(n) : n \in S} -> Clocks], order \in SetToSeqs({Id(n) : n \in S}) :
      LET e == [frame |-> f, uuid |-> Id(from), clock |-> clock]
      IN  /\ sent = Nothing
          /\ sent' = [as |-> "multicast", e |-> e, m |-> m]
          /\ datagram' = EncodeMulticast(e, order, Encode(m))
          /\ UNCHANGED <<room, received>>

-----------------------------------------------------------------------------
(* Receiving                                                               *)

Cut == SubSeq(datagram, 1, IF room < Len(datagram) THEN room ELSE Len(datagram))

\* After an error ToUUID is empty, and the datagram is ignored.  What is
\* handed up is decoded by startUnicastMessageListener, which panics on an
\* error.
ReadUnicast ==
  LET d == DecodeUnicast(Cut)
      m == Decode(d.message)
  IN  /\ sent.as = "unicast" /\ received = Nothing
      /\ received' = IF ~ d.ok THEN [as |-> "ignored"]
                     ELSE IF d.e.response = 1 THEN [as |-> "message", e |-> d.e, m |-> Blank]
                     ELSE IF m.ok THEN [as |-> "message", e |-> d.e, m |-> m.m]
                     ELSE [as |-> "panic"]
      /\ UNCHANGED <<sent, datagram, room>>

\* After an error StartListener logs it and goes on with an empty message,
\* whose type it cannot look at: the server panics, as it does when the message
\* inside cannot be decoded.
ReadMulticast ==
  LET d == DecodeMulticast(Cut)
      m == Decode(d.message)
  IN  /\ sent.as = "multicast" /\ received = Nothing
      /\ received' = IF d.ok /\ m.ok THEN [as |-> "message", e |-> d.e, m |-> m.m]
                                     ELSE [as |-> "panic"]
      /\ UNCHANGED <<sent, datagram, room>>

Next == SendUnicast \/ SendMulticast \/ ReadUnicast \/ ReadMulticast

Spec == Init /\ [][Next]_vars

-----------------------------------------------------------------------------
Uncut == Len(datagram) <= room

(* What fits into the listener's buffer arrives as it was sent, in every    *)
(* field of the envelope and of the message, in whatever order the maps     *)
(* gave their entries (multicast_test.go:10-46, for every message of the    *)
(* program).                                                                *)
RoundTrip ==
  received # Nothing /\ Uncut =>
    received.as = "message" /\ received.e = sent.e /\ received.m = sent.m

(* A datagram cut anywhere does not stop the unicast handler (the Panic of  *)
(* server/unicast.go:39), and stops a multicast listener only if nothing of *)
(* the message itself was left: a server that is sent a long peer list or a *)
(* long line goes on.                                                       *)
PanicsOnlyHeadless ==
  received.as = "panic" =>
    /\ sent.as = "multicast"
    /\ room <= 3 + IdLen + Cardinality(DOMAIN sent.e.clock) * (1 + IdLen)

(* A message that is taken for whole although its datagram was cut has its *)
(* true sender, frame and vector clock, so that the order of delivery never *)
(* rests on a damaged clock; a line has its full length, true up to the cut *)
(* and filled with NULs after it, or is empty if its length was lost.       *)
CutOnlyPads ==
  received.as = "message" =>
    /\ received.e = sent.e
    /\ sent.m.type = Application =>
         /\ received.m.type = Application
         /\ Len(received.m.msg) \in {0, Len(sent.m.msg)}
         /\ \E k \in 0..Len(sent.m.msg) : \A i \in DOMAIN received.m.msg :
              received.m.msg[i] = IF i <= k THEN sent.m.msg[i] ELSE NUL
=============================================================================
