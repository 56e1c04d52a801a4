--------------------------- MODULE CausalMulticast ---------------------------
(***************************************************************************)
(* server/multicast/multicast.go: one multicast session, from              *)
(* NewReliableMulticast to Shutdown, of a fixed group of members.          *)
(*                                                                         *)
(* Every member runs a listener goroutine, a goroutine per message read,   *)
(* which appends it to the hold-back queue and then tries to deliver, a    *)
(* goroutine per message sent, which retransmits it, and the server's      *)
(* goroutines that call SendMessage, OnAck and RemoveDeadNode; m.mu is     *)
(* all that orders them.  Multicast datagrams may be lost, duplicated,     *)
(* delayed and reordered: what was written may be read at any later time.  *)
(* The k-th message of a member (Frame k-1 in the code) is <<member, k>>.  *)
(***************************************************************************)
EXTENDS Naturals, Sequences

CONSTANTS
  Member,    \* peerIds: the same for every member of the session
  Rank,      \* the order of peerIds
  Leader,    \* the member whose heartbeat monitor declares members dead
  MaxWrites, \* transmissions of a message: 20
  MaxSends,  \* bound on the messages a member sends
  Mortal,    \* bound: the members that may be declared dead
  Closing,   \* bound: the members whose session may be shut down
  Nobody     \* "the message declares nobody dead"

ASSUME MemberAssumption ==
  /\ Leader \in Member
  /\ Nobody \notin Member
  /\ Rank \in [Member -> Nat]
  /\ \A m, n \in Member : Rank[m] = Rank[n] => m = n

\* peerIds is a list: any part of it has a last entry.
ASSUME LastAssumption ==
  \A S \in SUBSET Member : S # {} => \E p \in S : \A q \in S : Rank[q] <= Rank[p]

ASSUME BoundAssumption ==
  /\ MaxWrites \in Nat
  /\ MaxSends \in [Member -> Nat]
  /\ Mortal \subseteq Member
  /\ Closing \subseteq Member

VARIABLES
  log,           \* messages sent: VectorClock, and the node declared dead
  vectorClock,
  nodeIds,       \* the peers still thought alive
  bufferAck,     \* bufferAck[n][k]: who must acknowledge n's k-th message
  resend,        \* the goroutine that retransmits n's k-th message
  spawned,       \* messages read, not yet appended to the queue
  holdBackQueue,
  deliverDue,    \* some goroutine is about to call DeliverMessages
  delivering,    \* DeliverMessages holds m.mu
  announce,      \* the death handleDeadServer is about to multicast
  wire,          \* messages written to the multicast socket
  acks,          \* MulticastAck sent: <<reader, message>>
  mode,          \* "open", "closed" by Shutdown, "exited" by log.Fatal
  delivered,     \* everything put on msgChan, in order
  past           \* history: what n knew when it sent its k-th message

sessionVars == <<vectorClock, nodeIds, bufferAck>>
queueVars   == <<spawned, holdBackQueue, deliverDue, delivering>>
vars == <<log, sessionVars, resend, queueVars, announce, wire, acks, mode, delivered, past>>

Id == Member \X (Nat \ {0})

Ids(q) == {q[i] : i \in DOMAIN q}
SentBy(n) == {<<n, k>> : k \in DOMAIN log[n]}
Clock(id) == log[id[1]][id[2]].clock

Init ==
  /\ log = [n \in Member |-> <<>>]
  /\ vectorClock = [n \in Member |-> [m \in Member |-> 0]]
  /\ nodeIds = [n \in Member |-> Member \ {n}]
  /\ bufferAck = [n \in Member |-> <<>>]
  /\ resend = [n \in Member |-> <<>>]
  /\ spawned = [n \in Member |-> {}]
  /\ holdBackQueue = [n \in Member |-> {}]
  /\ deliverDue = [n \in Member |-> FALSE]
  /\ delivering = [n \in Member |-> FALSE]
  /\ announce = {}
  /\ wire = {}
  /\ acks = {}
  /\ mode = [n \in Member |-> "open"]
  /\ delivered = [n \in Member |-> <<>>]
  /\ past = [n \in Member |-> <<>>]

\* n can take m.mu: DeliverMessages keeps it for its whole loop.
Unlocked(n) == mode[n] # "exited" /\ ~ delivering[n]

-----------------------------------------------------------------------------
(* SendMessage and the goroutine it starts                                 *)

\* Variant: nobody is waited for.
LastPeerStrict(n) == {p \in nodeIds[n] : \A q \in nodeIds[n] : Rank[q] < Rank[p]}

\* The peer that comes last: each iteration of the loop over nodeIds
\* overwrites the frame's entry, so only that peer is waited for.
LastPeer(n) == {p \in nodeIds[n] : \A q \in nodeIds[n] : Rank[q] <= Rank[p]}

Multicast(n, dead) ==
  /\ Unlocked(n)
  /\ Len(log[n]) < MaxSends[n]
  /\ vectorClock' = [vectorClock EXCEPT ![n][n] = @ + 1]
  /\ log' = [log EXCEPT ![n] = Append(@, [clock |-> vectorClock'[n], dead |-> dead])]
  /\ bufferAck' = [bufferAck EXCEPT ![n] = Append(@, LastPeer(n))]
  /\ resend' = [resend EXCEPT ![n] = Append(@, [at |-> "select", left |-> MaxWrites])]
  /\ past' = [past EXCEPT ![n] = Append(@, SentBy(n) \cup Ids(delivered[n]))]
  /\ UNCHANGED <<nodeIds, queueVars, wire, acks, mode, delivered>>

\* An application message or an election victory.
SendMessage(n) == Multicast(n, Nobody) /\ UNCHANGED announce

Goto(n, k, at) == resend' = [resend EXCEPT ![n][k].at = at]

\* Variant: the loop has no bound.
ResendSelectForever(n, k) ==
  /\ mode[n] # "exited"
  /\ resend[n][k].at = "select"
  /\ Goto(n, k, IF mode[n] = "closed" THEN "stopped" ELSE "write")
  /\ UNCHANGED <<log, sessionVars, queueVars, announce, wire, acks, mode, delivered, past>>

\* The head of the loop: 20 rounds, each of which first looks at m.quit.
ResendSelect(n, k) ==
  /\ mode[n] # "exited"
  /\ resend[n][k].at = "select"
  /\ Goto(n, k, IF resend[n][k].left = 0 \/ mode[n] = "closed" THEN "stopped" ELSE "write")
  /\ UNCHANGED <<log, sessionVars, queueVars, announce, wire, acks, mode, delivered, past>>

\* Write, then sleep one second.  Writing on a socket that Shutdown closed in
\* the meantime is log.Fatal: the server's process ends.
ResendWrite(n, k) ==
  /\ resend[n][k].at = "write"
  /\ \/ /\ mode[n] = "open"
        /\ wire' = wire \cup {<<n, k>>}
        /\ resend' = [resend EXCEPT ![n][k] = [at |-> "sleep", left |-> @.left - 1]]
        /\ UNCHANGED mode
     \/ /\ mode[n] = "closed"
        /\ mode' = [mode EXCEPT ![n] = "exited"]
        /\ UNCHANGED <<wire, resend>>
  /\ UNCHANGED <<log, sessionVars, queueVars, announce, acks, delivered, past>>

\* After the sleep: go on while somebody has not acknowledged.
ResendCheck(n, k) ==
  /\ Unlocked(n)
  /\ resend[n][k].at = "sleep"
  /\ Goto(n, k, IF bufferAck[n][k] # {} THEN "select" ELSE "acknowledged")
  /\ UNCHANGED <<log, sessionVars, queueVars, announce, wire, acks, mode, delivered, past>>

-----------------------------------------------------------------------------
(* OnAck, RemoveDeadNode, handleDeadServer                                 *)

OnAck(n, p, k) ==
  /\ Unlocked(n)
  /\ <<p, <<n, k>>>> \in acks
  /\ bufferAck' = [bufferAck EXCEPT ![n][k] = @ \ {p}]
  /\ UNCHANGED <<log, vectorClock, nodeIds, resend, queueVars, announce, wire, acks, mode,
                 delivered, past>>

RemoveDeadNode(n, d) ==
  /\ nodeIds' = [nodeIds EXCEPT ![n] = @ \ {d}]
  /\ bufferAck' = [bufferAck EXCEPT ![n] = [k \in DOMAIN @ |-> @[k] \ {d}]]

\* server.go handleDeadServer: remove the node, then multicast its death,
\* with s.mu held: one death at a time.
HandleDeadServer(d) ==
  /\ Unlocked(Leader)
  /\ announce = {}
  /\ d \in nodeIds[Leader]
  /\ RemoveDeadNode(Leader, d)
  /\ announce' = {d}
  /\ UNCHANGED <<log, vectorClock, resend, queueVars, wire, acks, mode, delivered, past>>

AnnounceDeath(d) ==
  /\ d \in announce
  /\ Multicast(Leader, d)
  /\ announce' = {}

-----------------------------------------------------------------------------
(* StartListener                                                           *)

\* A datagram of another member: acknowledge it, drop the node it declares
\* dead, and start a goroutine for it.
Read(n, id) ==
  LET dead == log[id[1]][id[2]].dead
  IN  /\ mode[n] = "open"
      /\ id[1] # n
      /\ acks' = acks \cup {<<n, id>>}
      /\ spawned' = [spawned EXCEPT ![n] = @ \cup {id}]
      /\ IF dead = Nobody THEN UNCHANGED <<nodeIds, bufferAck>>
                          ELSE Unlocked(n) /\ RemoveDeadNode(n, dead)
      /\ UNCHANGED <<log, vectorClock, resend, holdBackQueue, deliverDue, delivering, announce,
                     wire, mode, delivered, past>>

\* That goroutine's first critical section.  The queue is a set: its order
\* only chooses among messages that may all be delivered.
HoldBack(n, id) ==
  /\ Unlocked(n)
  /\ id \in spawned[n]
  /\ spawned' = [spawned EXCEPT ![n] = @ \ {id}]
  /\ holdBackQueue' = [holdBackQueue EXCEPT ![n] = @ \cup {id}]
  /\ deliverDue' = [deliverDue EXCEPT ![n] = TRUE]
  /\ UNCHANGED <<log, sessionVars, resend, delivering, announce, wire, acks, mode, delivered, past>>

-----------------------------------------------------------------------------
(* DeliverMessages                                                         *)

IsDuplicate(n, id) == Clock(id)[id[1]] <= vectorClock[n][id[1]]

\* Variant: only the sender's own order counts.
CanDeliverFifo(n, id) == Clock(id)[id[1]] = vectorClock[n][id[1]] + 1

CanDeliver(n, id) ==
  /\ Clock(id)[id[1]] = vectorClock[n][id[1]] + 1
  /\ \A k \in Member \ {id[1]} : Clock(id)[k] <= vectorClock[n][k]

DeliverBegin(n) ==
  /\ Unlocked(n)
  /\ deliverDue[n]
  /\ deliverDue' = [deliverDue EXCEPT ![n] = FALSE]
  /\ delivering' = [delivering EXCEPT ![n] = TRUE]
  /\ UNCHANGED <<log, sessionVars, resend, spawned, holdBackQueue, announce, wire, acks, mode,
                 delivered, past>>

Discard(n, id) ==
  /\ delivering[n] /\ mode[n] # "exited"
  /\ id \in holdBackQueue[n]
  /\ IsDuplicate(n, id)
  /\ holdBackQueue' = [holdBackQueue EXCEPT ![n] = @ \ {id}]
  /\ UNCHANGED <<log, sessionVars, resend, spawned, deliverDue, delivering, announce, wire, acks,
                 mode, delivered, past>>

\* Variant: the sender's clock entry is not advanced.
DeliverUncounted(n, id) ==
  /\ delivering[n] /\ mode[n] # "exited"
  /\ id \in holdBackQueue[n]
  /\ CanDeliver(n, id)
  /\ delivered' = [delivered EXCEPT ![n] = Append(@, id)]
  /\ holdBackQueue' = [holdBackQueue EXCEPT ![n] = @ \ {id}]
  /\ UNCHANGED <<log, sessionVars, resend, spawned, deliverDue, delivering, announce, wire, acks,
                 mode, past>>

Deliver(n, id) ==
  /\ delivering[n] /\ mode[n] # "exited"
  /\ id \in holdBackQueue[n]
  /\ CanDeliver(n, id)
  /\ delivered' = [delivered EXCEPT ![n] = Append(@, id)]
  /\ vectorClock' = [vectorClock EXCEPT ![n][id[1]] = @ + 1]
  /\ holdBackQueue' = [holdBackQueue EXCEPT ![n] = @ \ {id}]
  /\ UNCHANGED <<log, nodeIds, bufferAck, resend, spawned, deliverDue, delivering, announce, wire,
                 acks, mode, past>>

\* Variant: one pass over the queue is enough.
DeliverEndEarly(n) ==
  /\ delivering[n] /\ mode[n] # "exited"
  /\ delivering' = [delivering EXCEPT ![n] = FALSE]
  /\ UNCHANGED <<log, sessionVars, resend, spawned, holdBackQueue, deliverDue, announce, wire,
                 acks, mode, delivered, past>>

\* A pass over the queue that found nothing to do ends the loop.
DeliverEnd(n) ==
  /\ delivering[n] /\ mode[n] # "exited"
  /\ \A id \in holdBackQueue[n] : ~ IsDuplicate(n, id) /\ ~ CanDeliver(n, id)
  /\ delivering' = [delivering EXCEPT ![n] = FALSE]
  /\ UNCHANGED <<log, sessionVars, resend, spawned, holdBackQueue, deliverDue, announce, wire,
                 acks, mode, delivered, past>>

-----------------------------------------------------------------------------
\* Shutdown: close(m.quit) and both sockets.  Goroutines that were started
\* before go on, and so do calls of SendMessage.
Shutdown(n) ==
  /\ n \in Closing
  /\ mode[n] = "open"
  /\ mode' = [mode EXCEPT ![n] = "closed"]
  /\ UNCHANGED <<log, sessionVars, resend, queueVars, announce, wire, acks, delivered, past>>

ResendStep(n) ==
  \E k \in DOMAIN log[n] : ResendSelect(n, k) \/ ResendWrite(n, k) \/ ResendCheck(n, k)

DeliverStep(n) ==
  \/ DeliverBegin(n) \/ DeliverEnd(n)
  \/ \E id \in holdBackQueue[n] : Discard(n, id) \/ Deliver(n, id)

Next ==
  \/ \E n \in Member :
       \/ SendMessage(n) \/ ResendStep(n) \/ DeliverStep(n) \/ Shutdown(n)
       \/ \E p \in Member : \E k \in DOMAIN log[n] : OnAck(n, p, k)
       \/ \E id \in wire : Read(n, id)
       \/ \E id \in spawned[n] : HoldBack(n, id)
  \/ \E d \in Mortal : HandleDeadServer(d) \/ AnnounceDeath(d)

Spec == Init /\ [][Next]_vars

\* Goroutines that are not blocked run, and a sync.Mutex does not starve those
\* that wait for m.mu; nothing is assumed of the network.
Fairness ==
  \A n \in Member :
    /\ WF_vars(DeliverStep(n))
    /\ \A s \in Member : \A k \in 1..MaxSends[s] : SF_vars(HoldBack(n, <<s, k>>))

FairSpec == Spec /\ Fairness

-----------------------------------------------------------------------------
Message == [clock : [Member -> Nat], dead : Member \cup {Nobody}]
Goroutine ==
  [at : {"select", "write", "sleep", "stopped", "acknowledged"}, left : 0..MaxWrites]

TypeOK ==
  /\ log \in [Member -> Seq(Message)]
  /\ vectorClock \in [Member -> [Member -> Nat]]
  /\ nodeIds \in [Member -> SUBSET Member]
  /\ bufferAck \in [Member -> Seq(SUBSET Member)]
  /\ resend \in [Member -> Seq(Goroutine)]
  /\ spawned \in [Member -> SUBSET Id]
  /\ holdBackQueue \in [Member -> SUBSET Id]
  /\ deliverDue \in [Member -> BOOLEAN]
  /\ delivering \in [Member -> BOOLEAN]
  /\ announce \subseteq Member
  /\ wire \subseteq Id
  /\ acks \subseteq Member \X Id
  /\ mode \in [Member -> {"open", "closed", "exited"}]
  /\ delivered \in [Member -> Seq(Id)]
  /\ past \in [Member -> Seq(SUBSET Id)]

(* Causal order: a message is handed up only after everything its sender   *)
(* had sent or handed up before it, whatever was lost, repeated, reordered *)
(* or declared dead (CanDeliver and the clock arithmetic of SendMessage    *)
(* and DeliverMessages).                                                   *)
CausalDelivery ==
  \A n \in Member : \A i \in DOMAIN delivered[n] :
    past[delivered[n][i][1]][delivered[n][i][2]]
      \subseteq SentBy(n) \cup {delivered[n][j] : j \in 1..(i - 1)}

(* No message is handed up twice, although every retransmission is read    *)
(* and queued again (the isDuplicate case).                                *)
DeliveredOnce ==
  \A n \in Member : \A i, j \in DOMAIN delivered[n] :
    delivered[n][i] = delivered[n][j] => i = j

(* Between two deliveries the hold-back queue holds nothing that could be  *)
(* handed up or thrown away: appending and delivering are two critical     *)
(* sections, and no interleaving with senders leaves a ready message       *)
(* behind without a delivery still to come.                                *)
HoldBackDrained ==
  \A n \in Member : \A id \in holdBackQueue[n] :
    ~ deliverDue[n] /\ ~ delivering[n] => ~ CanDeliver(n, id) /\ ~ IsDuplicate(n, id)

(* Retransmission stops as acknowledged only if some member read the       *)
(* message, or the sender had dropped a member from nodeIds.               *)
AcknowledgedWasRead ==
  \A n \in Member : \A k \in DOMAIN log[n] :
    resend[n][k].at = "acknowledged" =>
      \/ \E p \in Member : <<p, <<n, k>>>> \in acks
      \/ nodeIds[n] # Member \ {n}
      \/ Member = {n}

(* The session implements the abstract broadcast, with past as what each   *)
(* sender knew.                                                            *)
Abstract == INSTANCE CausalBroadcast WITH
  Member <- Member, past <- past, delivered <- delivered
ImplementsCausalBroadcast == Abstract!Spec

\* n read the message and it has not got lost in a goroutine.
Has(n, id) == id \in spawned[n] \cup holdBackQueue[n] \cup Ids(delivered[n]) \cup SentBy(n)

(* A message that was read, with everything before it, is handed up: no    *)
(* delivery is forgotten between the goroutines, even after Shutdown.      *)
ReadyDelivered ==
  \A n, s \in Member : \A k \in 1..MaxSends[s] :
    (/\ <<s, k>> \in spawned[n] \cup holdBackQueue[n]
     /\ \A id \in past[s][k] : Has(n, id))
      ~> (<<s, k>> \in Ids(delivered[n]) \/ mode[n] = "exited")
=============================================================================
