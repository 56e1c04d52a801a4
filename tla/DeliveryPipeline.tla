-------------------------- MODULE DeliveryPipeline --------------------------
(***************************************************************************)
(* The way of a chat line through one server: server/multicast.go,         *)
(* server/client.go, DeliverMessages of server/multicast/multicast.go and  *)
(* handleDeadServer of server/server.go, with the channels between their   *)
(* goroutines and the mutexes s.mu and m.mu.                               *)
(*                                                                         *)
(* The multicast session is its order: session is the sequence of what     *)
(* this server multicast and handed up, all under m.mu.  A critical        *)
(* section in which nothing blocks is one step, and so is the fan-out,     *)
(* which holds a mutex of its own: a client is taken to read what it gets. *)
(***************************************************************************)
EXTENDS Naturals, Sequences

CONSTANTS
  Client,    \* TCP connections of clients; who connects again is another one
  MaxLines,  \* bound on the lines a client types
  Remote,    \* bound: the messages of other members in this session
  Peer,      \* the other servers
  DeathOf,   \* the server a remote message declares dead, or NoPeer
  NoPeer,    \* the remote message is a chat line
  DeadNode,  \* the message by which this server announces a death
  RmCap,     \* capacity of rmMsgChan: 5
  ChatCap    \* capacity of clientMsgChan and applicationMsgChan: 10

Line == Client \X (1..MaxLines)

ASSUME MessageAssumption ==
  /\ NoPeer \notin Peer /\ DeadNode \notin Remote \cup Line
  /\ Remote \cap Line = {}
  /\ DeathOf \in [Remote -> Peer \cup {NoPeer}]
  /\ MaxLines \in Nat
ASSUME CapacityAssumption == RmCap \in Nat \ {0} /\ ChatCap \in Nat \ {0}

Nothing == <<>>    \* a goroutine has no message in its hands

VARIABLES
  holdBack,  \* remote messages that DeliverMessages could hand up
  session,   \* what was multicast or handed up here, in order
  rmMsgChan,
  chat,      \* clientMsgChan and applicationMsgChan
  sMu, mMu,  \* who holds s.mu, m.mu across a step that may block
  serving,   \* s.state is LEADER or FOLLOWER
  peers,     \* s.peers without this server
  dead,      \* handleDeadServer: where it is
  ml,        \* startMulticastMessageListener
  sender,    \* startMutlicastSender
  conn,      \* the connection of each client
  seen,      \* lines written to each client, in order
  arrived,   \* history: remote messages that have arrived
  knew       \* history: lines the client had seen when it typed the line

sessionVars == <<holdBack, session, arrived>>
serverVars  == <<serving, peers, dead>>
clientVars  == <<conn, seen, knew>>
vars == <<sessionVars, rmMsgChan, chat, sMu, mMu, serverVars, ml, sender, clientVars>>

Lines(q) == {q[i] : i \in DOMAIN q}

Init ==
  /\ holdBack = {}
  /\ session = <<>>
  /\ rmMsgChan = <<>>
  /\ chat = [ch \in {"client", "application"} |-> <<>>]
  /\ sMu = "free" /\ mMu = "free"
  /\ serving \in BOOLEAN
  /\ peers = Peer
  /\ dead = "idle"
  /\ ml = [at |-> "idle", msg |-> Nothing]
  /\ sender = [at |-> "idle", msg |-> Nothing]
  /\ conn = [c \in Client |-> [at |-> "new", typed |-> 0]]
  /\ seen = [c \in Client |-> <<>>]
  /\ arrived = {}
  /\ knew = [l \in Line |-> {}]

Put(ch, x) == Len(chat[ch]) < ChatCap /\ chat' = [chat EXCEPT ![ch] = Append(@, x)]

-----------------------------------------------------------------------------
(* The session                                                             *)

\* A message is appended to the hold-back queue, and the messages before it
\* have been handed up.
Arrive(r) ==
  /\ mMu = "free"
  /\ r \notin arrived
  /\ arrived' = arrived \cup {r}
  /\ holdBack' = holdBack \cup {r}
  /\ UNCHANGED <<session, rmMsgChan, chat, sMu, mMu, serverVars, ml, sender, clientVars>>

DeliverBegin ==
  /\ mMu = "free"
  /\ holdBack # {}
  /\ mMu' = "deliver"
  /\ UNCHANGED <<sessionVars, rmMsgChan, chat, sMu, serverVars, ml, sender, clientVars>>

\* Variant: the send does not wait for room.
DeliverUnbounded(r) ==
  /\ mMu = "deliver"
  /\ r \in holdBack
  /\ rmMsgChan' = Append(rmMsgChan, r)
  /\ session' = Append(session, r)
  /\ holdBack' = holdBack \ {r}
  /\ UNCHANGED <<arrived, chat, sMu, mMu, serverVars, ml, sender, clientVars>>

\* Variant: the message is not counted in the clock, so that what is multicast
\* next does not follow it.
DeliverUncounted(r) ==
  /\ mMu = "deliver"
  /\ r \in holdBack
  /\ Len(rmMsgChan) < RmCap
  /\ rmMsgChan' = Append(rmMsgChan, r)
  /\ holdBack' = holdBack \ {r}
  /\ UNCHANGED <<session, arrived, chat, sMu, mMu, serverVars, ml, sender, clientVars>>

\* m.msgChan <- msg, with m.mu held.
Deliver(r) ==
  /\ mMu = "deliver"
  /\ r \in holdBack
  /\ Len(rmMsgChan) < RmCap
  /\ rmMsgChan' = Append(rmMsgChan, r)
  /\ session' = Append(session, r)
  /\ holdBack' = holdBack \ {r}
  /\ UNCHANGED <<arrived, chat, sMu, mMu, serverVars, ml, sender, clientVars>>

\* Variant: the return leaves m.mu locked.
DeliverEndLocked == mMu = "deliver" /\ holdBack = {} /\ UNCHANGED vars

DeliverEnd ==
  /\ mMu = "deliver"
  /\ holdBack = {}
  /\ mMu' = "free"
  /\ UNCHANGED <<sessionVars, rmMsgChan, chat, sMu, serverVars, ml, sender, clientVars>>

-----------------------------------------------------------------------------
(* handleDeadServer, which holds s.mu to its end                           *)

DeadBegin(p) ==
  /\ sMu = "free"
  /\ p \in peers
  /\ sMu' = "dead"
  /\ peers' = peers \ {p}
  /\ dead' = "remove"
  /\ UNCHANGED <<sessionVars, rmMsgChan, chat, mMu, serving, ml, sender, clientVars>>

\* s.rm.RemoveDeadNode
DeadRemove ==
  /\ dead = "remove"
  /\ mMu = "free"
  /\ dead' = "announce"
  /\ UNCHANGED <<sessionVars, rmMsgChan, chat, sMu, mMu, serving, peers, ml, sender, clientVars>>

\* s.rm.SendMessage
DeadAnnounce ==
  /\ dead = "announce"
  /\ mMu = "free"
  /\ session' = Append(session, DeadNode)
  /\ dead' = "idle"
  /\ sMu' = "free"
  /\ UNCHANGED <<holdBack, arrived, rmMsgChan, chat, mMu, serving, peers, ml, sender, clientVars>>

\* The main loop assigns s.state.
ChangeState ==
  /\ sMu = "free"
  /\ serving' = ~ serving
  /\ UNCHANGED <<sessionVars, rmMsgChan, chat, sMu, mMu, peers, dead, ml, sender, clientVars>>

-----------------------------------------------------------------------------
(* startMulticastMessageListener                                           *)

MLTake ==
  /\ ml.at = "idle"
  /\ rmMsgChan # <<>>
  /\ ml' = [at |-> "state", msg |-> Head(rmMsgChan)]
  /\ rmMsgChan' = Tail(rmMsgChan)
  /\ UNCHANGED <<sessionVars, chat, sMu, mMu, serverVars, sender, clientVars>>

\* Under s.mu it compares the sender and reads the state.
MLReadState ==
  /\ ml.at = "state"
  /\ sMu = "free"
  /\ ml' = [ml EXCEPT !.at = "handle"]
  /\ UNCHANGED <<sessionVars, rmMsgChan, chat, sMu, mMu, serverVars, sender, clientVars>>

\* A chat line goes to the clients; a death takes s.mu again.
MLHandle ==
  /\ ml.at = "handle"
  /\ \/ /\ DeathOf[ml.msg] = NoPeer
        /\ Put("application", ml.msg)
        /\ UNCHANGED peers
     \/ /\ DeathOf[ml.msg] # NoPeer
        /\ sMu = "free"
        /\ peers' = peers \ {DeathOf[ml.msg]}
        /\ UNCHANGED chat
  /\ ml' = [at |-> "idle", msg |-> Nothing]
  /\ UNCHANGED <<sessionVars, rmMsgChan, sMu, mMu, serving, dead, sender, clientVars>>

-----------------------------------------------------------------------------
(* startMutlicastSender                                                    *)

SenderTake ==
  /\ sender.at = "idle"
  /\ chat["client"] # <<>>
  /\ sender' = [at |-> "wait", msg |-> Head(chat["client"])]
  /\ chat' = [chat EXCEPT !["client"] = Tail(@)]
  /\ UNCHANGED <<sessionVars, rmMsgChan, sMu, mMu, serverVars, ml, clientVars>>

\* Variant: a line is dropped while the server is neither.
SenderReadStateDrops ==
  /\ sender.at = "wait"
  /\ sMu = "free"
  /\ sender' = IF serving THEN [sender EXCEPT !.at = "send"]
                           ELSE [at |-> "idle", msg |-> Nothing]
  /\ UNCHANGED <<sessionVars, rmMsgChan, chat, sMu, mMu, serverVars, ml, clientVars>>

\* "holding messages until node is a leader or a follower"
SenderReadState ==
  /\ sender.at = "wait"
  /\ sMu = "free"
  /\ serving
  /\ sender' = [sender EXCEPT !.at = "send"]
  /\ UNCHANGED <<sessionVars, rmMsgChan, chat, sMu, mMu, serverVars, ml, clientVars>>

SenderSend ==
  /\ sender.at = "send"
  /\ mMu = "free"
  /\ session' = Append(session, sender.msg)
  /\ sender' = [at |-> "idle", msg |-> Nothing]
  /\ UNCHANGED <<holdBack, arrived, rmMsgChan, chat, sMu, mMu, serverVars, ml, clientVars>>

-----------------------------------------------------------------------------
(* ClientServer                                                            *)

\* The accept loop: a leader that has peers may send the client to one of
\* them, and a server that is neither leader nor follower closes.
Accept(c) ==
  /\ conn[c].at = "new"
  /\ sMu = "free"
  /\ \/ serving /\ conn' = [conn EXCEPT ![c].at = "accepted"]
     \/ (serving => peers # {}) /\ conn' = [conn EXCEPT ![c].at = "closed"]
  /\ UNCHANGED <<sessionVars, rmMsgChan, chat, sMu, mMu, serverVars, ml, sender, seen, knew>>

AddClient(c) ==
  /\ conn[c].at = "accepted"
  /\ conn' = [conn EXCEPT ![c].at = "read"]
  /\ UNCHANGED <<sessionVars, rmMsgChan, chat, sMu, mMu, serverVars, ml, sender, seen, knew>>

\* The client types a line, and handleConn scans it.
TypeLine(c) ==
  LET line == <<c, conn[c].typed + 1>>
  IN  /\ conn[c].at = "read"
      /\ line \in Line
      /\ conn' = [conn EXCEPT ![c] = [at |-> "put1", typed |-> @.typed + 1]]
      /\ knew' = [knew EXCEPT ![line] = Lines(seen[c])]
      /\ UNCHANGED <<sessionVars, rmMsgChan, chat, sMu, mMu, serverVars, ml, sender, seen>>

\* handleConn puts the line on clientMsgChan, then on applicationMsgChan.
PutOrder == [put1 |-> "client", put2 |-> "application"]

PutLine(c) ==
  /\ conn[c].at \in DOMAIN PutOrder
  /\ Put(PutOrder[conn[c].at], <<c, conn[c].typed>>)
  /\ conn' = [conn EXCEPT ![c].at = IF @ = "put1" THEN "put2" ELSE "read"]
  /\ UNCHANGED <<sessionVars, rmMsgChan, sMu, mMu, serverVars, ml, sender, seen, knew>>

\* The connection ends, and handleConn removes the client.
RemoveClient(c) ==
  /\ conn[c].at = "read"
  /\ conn' = [conn EXCEPT ![c].at = "closed"]
  /\ UNCHANGED <<sessionVars, rmMsgChan, chat, sMu, mMu, serverVars, ml, sender, seen, knew>>

Connected(c) == conn[c].at \in {"read", "put1", "put2"}

\* Variant: the line stays in the channel.
FanOutKeeps ==
  /\ chat["application"] # <<>>
  /\ seen' = [c \in Client |-> IF Connected(c) THEN Append(seen[c], Head(chat["application"]))
                                               ELSE seen[c]]
  /\ UNCHANGED <<sessionVars, rmMsgChan, chat, sMu, mMu, serverVars, ml, sender, conn, knew>>

\* sendMessageToConnectedClients
FanOut ==
  /\ chat["application"] # <<>>
  /\ seen' = [c \in Client |-> IF Connected(c) THEN Append(seen[c], Head(chat["application"]))
                                               ELSE seen[c]]
  /\ chat' = [chat EXCEPT !["application"] = Tail(@)]
  /\ UNCHANGED <<sessionVars, rmMsgChan, sMu, mMu, serverVars, ml, sender, conn, knew>>

-----------------------------------------------------------------------------
DeliverStep == DeliverBegin \/ DeliverEnd \/ \E r \in holdBack : Deliver(r)
DeadStep    == DeadRemove \/ DeadAnnounce
MLStep      == MLTake \/ MLReadState \/ MLHandle
SenderStep  == SenderTake \/ SenderReadState \/ SenderSend
ConnStep(c) == AddClient(c) \/ PutLine(c)

Next ==
  \/ \E r \in Remote : Arrive(r)
  \/ DeliverStep \/ DeadStep \/ MLStep \/ SenderStep \/ FanOut \/ ChangeState
  \/ \E p \in Peer : DeadBegin(p)
  \/ \E c \in Client : Accept(c) \/ ConnStep(c) \/ TypeLine(c) \/ RemoveClient(c)

Spec == Init /\ [][Next]_vars

\* Every goroutine runs when it is not blocked.  What comes from outside,
\* datagrams, deaths, clients, need not come; the state may change for ever.
Fairness ==
  /\ WF_vars(DeliverStep) /\ WF_vars(DeadStep) /\ WF_vars(MLStep)
  /\ WF_vars(SenderStep) /\ WF_vars(FanOut)
  /\ \A c \in Client : WF_vars(ConnStep(c))

FairSpec == Spec /\ Fairness

-----------------------------------------------------------------------------
\* The variables have their types, and channels keep to their capacity.
TypeOK ==
  /\ holdBack \subseteq Remote
  /\ session \in Seq(Remote \cup Line \cup {DeadNode})
  /\ rmMsgChan \in Seq(Remote) /\ Len(rmMsgChan) <= RmCap
  /\ chat \in [{"client", "application"} -> Seq(Remote \cup Line)]
  /\ \A ch \in DOMAIN chat : Len(chat[ch]) <= ChatCap
  /\ sMu \in {"free", "dead"} /\ mMu \in {"free", "deliver"}
  /\ serving \in BOOLEAN
  /\ peers \subseteq Peer
  /\ dead \in {"idle", "remove", "announce"}
  /\ ml \in [at : {"idle", "state", "handle"}, msg : Remote \cup {Nothing}]
  /\ sender \in [at : {"idle", "wait", "send"}, msg : Line \cup {Nothing}]
  /\ conn \in [Client -> [at : {"new", "accepted", "read", "put1", "put2", "closed"},
                          typed : 0..MaxLines]]
  /\ seen \in [Client -> Seq(Remote \cup Line)]
  /\ arrived \subseteq Remote
  /\ knew \in [Line -> SUBSET (Remote \cup Line)]

(* A line that answers what its author had read on the screen follows it   *)
(* in the session, so that every other server shows them in this order:    *)
(* handleConn sends a line before it shows it (client.go:145-146), and     *)
(* what other members wrote was handed up before it is shown.              *)
AnswersFollow ==
  \A j \in DOMAIN session :
    session[j] \in Line =>
      knew[session[j]] \subseteq {session[i] : i \in 1..(j - 1)}

(* A client sees no line twice, the lines of one author in the order they  *)
(* were typed, and those of other members in the order the session handed  *)
(* them up.                                                                *)
ShownInOrder ==
  \A c \in Client : \A i, j \in DOMAIN seen[c] :
    i < j =>
      /\ seen[c][i] # seen[c][j]
      /\ seen[c][i] \in Line /\ seen[c][j] \in Line /\ seen[c][i][1] = seen[c][j][1]
           => seen[c][i][2] < seen[c][j][2]
      /\ seen[c][i] \in Remote /\ seen[c][j] \in Remote
           => \E k, l \in DOMAIN session :
                k < l /\ session[k] = seen[c][i] /\ session[l] = seen[c][j]

(* multicast.go:257-259: what starts with "trying to deliver message from  *)
(* multicast" ends with "done delivering message from multicast": a call   *)
(* of DeliverMessages gives m.mu back.                                     *)
DeliveryDone == mMu = "deliver" ~> mMu = "free"

(* As long as the server remains leader or follower, a line that was sent  *)
(* by a client is multicast: neither the bounded channels nor the mutexes  *)
(* stop it.                                                                *)
LineMulticast ==
  <>[]serving =>
    \A c \in Client : \A k \in 1..MaxLines :
      conn[c].typed = k ~> <<c, k>> \in Lines(session)
=============================================================================
