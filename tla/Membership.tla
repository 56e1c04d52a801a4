----------------------------- MODULE Membership -----------------------------
(***************************************************************************)
(* How servers join a leader and how all of them change to a new multicast *)
(* session: InitToBecomeFollower, connectToLeaderHandler,                  *)
(* joinMulticastFromPeerInfo and handleDeadServer of server.go,            *)
(* peerInfoFromLeader and startUnicastMessageListener of server/unicast.go.*)
(*                                                                         *)
(* One server leads throughout.  A message travels by the reliable         *)
(* unicast: in the order in which the calls of send took their numbers,    *)
(* once (module ReliableUnicast says when).  A call that the code makes in *)
(* a goroutine takes its number at any later time.  The port drawn for a   *)
(* session is free, hence a new one.                                       *)
(***************************************************************************)
EXTENDS Naturals, Sequences, FiniteSets

CONSTANTS
  Server,
  Leader,
  None,
  MaxJoins,  \* bound: attempts to join
  MaxFaults  \* bound: crashes, time-outs, and live servers taken for dead

ASSUME LeaderAssumption == Leader \in Server
ASSUME BoundAssumption == MaxJoins \in Nat /\ MaxFaults \in Nat

Joiner == Server \ {Leader}

\* What is sent by unicast, and what the listener holds of it.
ConnectToLeader == [type |-> "ConnectToLeader"]
News == [type : {"PeerInfo", "MulticastSessionChange"}, peers : SUBSET Server, port : Nat \ {0}]
State == {"INIT", "BECOME_FOLLOWER", "FOLLOWER", "LEADER"}
Held == [m : News \cup {ConnectToLeader}, from : Server, state : State]

ASSUME NoneAssumption == None \notin Held

VARIABLES
  state,    \* s.state, assigned by the main loop
  newState, \* what the main loop has received from stateChan, or None
  peers,    \* s.peers
  rm,       \* s.rm: its port, its members, and whether it is open
  join,     \* where the goroutine of the join is, with the message it got
  link,     \* link[s][t]: what s has sent to t by unicast
  taken,    \* what startUnicastMessageListener took from ruMsgChan, from whom,
            \* and the state it read, or None
  handlers, \* the running calls of connectToLeaderHandler
  calls,    \* the goroutines that will send a session change
  mail,     \* the deaths that were multicast
  joins,    \* attempts to join so far
  ports,    \* the last port drawn
  crashed,
  panicked, \* a channel was closed twice
  faults,
  clean,    \* history: the leader took up its last join when nothing else was
            \* under way, and nothing went wrong since
  overlap,  \* history: two calls of connectToLeaderHandler ran at a time
  retried   \* history: the servers that timed out waiting for their peers

serverVars == <<state, newState, peers, rm, join, taken>>
leaderVars == <<handlers, calls, mail, ports>>
faultVars == <<crashed, panicked, faults, clean, overlap, retried>>
vars == <<serverVars, link, leaderVars, joins, faultVars>>

Change(type, list, port) == [type |-> type, peers |-> list, port |-> port]
Session(list, port) == [port |-> port, members |-> list, open |-> TRUE]
At(pc) == [pc |-> pc, info |-> None]

Live == Server \ crashed

NothingOnTheWay ==
  /\ handlers = {} /\ calls = {} /\ mail = {}
  /\ \A s, t \in Live : link[s][t] = <<>>

Resting(s) == taken[s] = None /\ join[s].pc \in {"idle", "joined"}

Quiet == NothingOnTheWay /\ \A s \in Live : Resting(s)

Init ==
  /\ state = [s \in Server |-> IF s = Leader THEN "LEADER" ELSE "INIT"]
  /\ newState = [s \in Server |-> None]
  /\ peers = [s \in Server |-> {s}]
  /\ rm = [s \in Server |-> Session({s}, 0)]
  /\ join = [s \in Server |-> At("idle")]
  /\ link = [s \in Server |-> [t \in Server |-> <<>>]]
  /\ taken = [s \in Server |-> None]
  /\ handlers = {} /\ calls = {} /\ mail = {} /\ joins = 0 /\ ports = 0
  /\ crashed = {} /\ panicked = FALSE /\ faults = 0
  /\ clean = FALSE /\ overlap = FALSE /\ retried = {}

-----------------------------------------------------------------------------
(* The main loop, and s.rm                                                 *)

\* stateChan <- st: the main loop is ready to receive.
ToMain(s, st) == newState[s] = None /\ newState' = [newState EXCEPT ![s] = st]

MainLoop(s) ==
  /\ newState[s] # None
  /\ state' = [state EXCEPT ![s] = newState[s]]
  /\ newState' = [newState EXCEPT ![s] = None]
  /\ UNCHANGED <<peers, rm, join, taken, link, leaderVars, joins, faultVars>>

\* s.rm.Shutdown() closes quit and the sockets.
Shutdown(s) == panicked' = (panicked \/ ~ rm[s].open)

-----------------------------------------------------------------------------
(* A server that joins                                                     *)

\* InitToBecomeFollower, with a broadcast of the leader.
BeginJoin(s) ==
  /\ join[s].pc = "idle" /\ joins < MaxJoins
  /\ ToMain(s, "BECOME_FOLLOWER")
  /\ joins' = joins + 1
  /\ join' = [join EXCEPT ![s] = At("connect")]
  /\ UNCHANGED <<state, peers, rm, taken, link, leaderVars, faultVars>>

SendTo(s, t, m) == link' = [link EXCEPT ![s][t] = Append(@, m)]

\* send returns true: the leader has read the message.
SendConnect(s) ==
  /\ join[s].pc = "connect"
  /\ SendTo(s, Leader, ConnectToLeader)
  /\ join' = [join EXCEPT ![s] = At("wait")]
  /\ UNCHANGED <<state, newState, peers, rm, taken, leaderVars, joins, faultVars>>

Fault ==
  /\ faults < MaxFaults /\ faults' = faults + 1 /\ clean' = FALSE

\* peerInfoFromLeader gives up, or send did: ChangeTo(INIT).
JoinTimesOut(s) ==
  /\ join[s].pc \in {"connect", "wait"}
  /\ Fault
  /\ retried' = retried \cup {s}
  /\ join' = [join EXCEPT ![s] = At("retry")]
  /\ UNCHANGED <<state, newState, peers, rm, taken, link, leaderVars, joins,
                 crashed, panicked, overlap>>

\* BecomeFollowerToInit, which hears the leader's broadcast again.
Retry(s) ==
  /\ join[s].pc = "retry"
  /\ ToMain(s, "INIT")
  /\ join' = [join EXCEPT ![s] = At("idle")]
  /\ UNCHANGED <<state, peers, rm, taken, link, leaderVars, joins, faultVars>>

\* The rest of InitToBecomeFollower: addPeersFromPeerInfo.
AddPeers(s) ==
  /\ join[s].pc = "accepted"
  /\ peers' = [peers EXCEPT ![s] = join[s].info.peers]
  /\ join' = [join EXCEPT ![s].pc = "follow"]
  /\ UNCHANGED <<state, newState, rm, taken, link, leaderVars, joins, faultVars>>

\* BecomeFollowerToFollower
BecomeFollower(s) ==
  /\ join[s].pc = "follow"
  /\ ToMain(s, "FOLLOWER")
  /\ join' = [join EXCEPT ![s].pc = "install"]
  /\ UNCHANGED <<state, peers, rm, taken, link, leaderVars, joins, faultVars>>

\* Variant: the session that was shut down is kept.
InstalledKept(s, info) == [rm[s] EXCEPT !.open = FALSE]

\* The session that joinMulticastFromPeerInfo leaves; one with the same port
\* was shut down and is kept.
Installed(s, info) ==
  IF rm[s].port # info.port THEN Session(info.peers, info.port)
                            ELSE [rm[s] EXCEPT !.open = FALSE]

JoinMulticast(s) ==
  /\ join[s].pc = "install"
  /\ peers' = [peers EXCEPT ![s] = join[s].info.peers]
  /\ Shutdown(s)
  /\ rm' = [rm EXCEPT ![s] = Installed(s, join[s].info)]
  /\ join' = [join EXCEPT ![s] = At("joined")]
  /\ UNCHANGED <<state, newState, taken, link, leaderVars, joins, crashed,
                 faults, clean, overlap, retried>>

-----------------------------------------------------------------------------
(* startUnicastMessageListener                                             *)

Take(s) ==
  \E t \in Server :
    /\ taken[s] = None /\ link[t][s] # <<>>
    /\ taken' = [taken EXCEPT ![s] = [m |-> Head(link[t][s]), from |-> t, state |-> state[s]]]
    /\ link' = [link EXCEPT ![t][s] = Tail(@)]
    /\ UNCHANGED <<state, newState, peers, rm, join, leaderVars, joins, faultVars>>

Done(s) == taken' = [taken EXCEPT ![s] = None]

\* In every state the server changes its peers and its session, under s.mu.
\* The listener of the new session is started after the unlock.
ChangeSession(s) ==
  /\ taken[s] # None /\ taken[s].m.type = "MulticastSessionChange"
  /\ peers' = [peers EXCEPT ![s] = taken[s].m.peers]
  /\ Shutdown(s)
  /\ rm' = [rm EXCEPT ![s] = Session(taken[s].m.peers, taken[s].m.port)]
  /\ Done(s)
  /\ UNCHANGED <<state, newState, join, link, leaderVars, joins, crashed,
                 faults, clean, overlap, retried>>

\* What the switch over the state passes on by uMsgChan.
Heeded(type, st) == \/ st = "BECOME_FOLLOWER" /\ type = "PeerInfo"
                    \/ st = "LEADER" /\ type = "ConnectToLeader"

Drop(s) ==
  /\ taken[s] # None /\ taken[s].m.type # "MulticastSessionChange"
  /\ ~ Heeded(taken[s].m.type, taken[s].state)
  /\ Done(s)
  /\ UNCHANGED <<state, newState, peers, rm, join, link, leaderVars, joins, faultVars>>

\* uMsgChan is unbuffered: peerInfoFromLeader receives what the listener
\* holds, however long it has held it.
GetPeerInfo(s) ==
  /\ taken[s] # None /\ taken[s].m.type = "PeerInfo"
  /\ Heeded("PeerInfo", taken[s].state)
  /\ join[s].pc = "wait"
  /\ join' = [join EXCEPT ![s] = [pc |-> "accepted", info |-> taken[s].m]]
  /\ Done(s)
  /\ UNCHANGED <<state, newState, peers, rm, link, leaderVars, joins, faultVars>>

-----------------------------------------------------------------------------
(* The leader                                                              *)

\* Variant: the list is taken before the new server is entered.
PeerListEarly(s) == peers[Leader]

PeerList(s) == peers[Leader] \cup {s}

\* The leader's monitor starts connectToLeaderHandler, which enters the new
\* server, lists the peers and draws a port.
Connect(s) ==
  /\ taken[Leader] # None /\ taken[Leader].m = ConnectToLeader
  /\ taken[Leader].from = s /\ Heeded("ConnectToLeader", taken[Leader].state)
  /\ ports' = ports + 1
  /\ peers' = [peers EXCEPT ![Leader] = @ \cup {s}]
  /\ handlers' = handlers \cup
       {[from |-> s, pc |-> "send", list |-> PeerList(s), port |-> ports + 1]}
  /\ Done(Leader)
  /\ clean' = /\ NothingOnTheWay
              /\ \A t \in Live \ {s, Leader} : Resting(t)
              /\ taken[s] = None /\ join[s].pc = "wait"
  /\ overlap' = (overlap \/ handlers # {})
  /\ UNCHANGED <<state, newState, rm, join, link, calls, mail, joins, crashed,
                 panicked, faults, retried>>

HandlerGoes(h, pc) == handlers' = (handlers \ {h}) \cup {[h EXCEPT !.pc = pc]}

HandlerSend(h) ==
  /\ h.pc = "send"
  /\ SendTo(Leader, h.from, Change("PeerInfo", h.list, h.port))
  /\ HandlerGoes(h, "sent")
  /\ UNCHANGED <<serverVars, calls, mail, ports, joins, faultVars>>

\* send failed: the server died, or its acknowledgements were too late.
HandlerFails(h) ==
  /\ h.pc = "sent"
  /\ \/ h.from \in crashed /\ UNCHANGED faults
     \/ h.from \in Live /\ faults < MaxFaults /\ faults' = faults + 1
  /\ clean' = FALSE
  /\ peers' = [peers EXCEPT ![Leader] = @ \ {h.from}]
  /\ handlers' = handlers \ {h}
  /\ UNCHANGED <<state, newState, rm, join, taken, link, calls, mail, ports, joins, crashed,
                 panicked, overlap, retried>>

\* Variant: the others are told by the message of a join.
SessionChangeAsPeerInfo(h) == Change("PeerInfo", h.list, h.port)

SessionChange(h) == Change("MulticastSessionChange", h.list, h.port)

\* The new session is made, the others are told by a goroutine each, and
\* s.rm.Shutdown() is called, without s.mu.
HandlerRetire(h) ==
  /\ h.pc = "sent" /\ h.from \notin crashed
  /\ calls' = calls \cup {[to |-> t, m |-> SessionChange(h)] : t \in h.list \ {Leader, h.from}}
  /\ Shutdown(Leader)
  /\ rm' = [rm EXCEPT ![Leader].open = FALSE]
  /\ HandlerGoes(h, "replace")
  /\ UNCHANGED <<state, newState, peers, join, taken, link, mail, ports, joins, crashed,
                 faults, clean, overlap, retried>>

\* s.rm = newMulticastSession, whose listener is then started.
HandlerReplace(h) ==
  /\ h.pc = "replace"
  /\ rm' = [rm EXCEPT ![Leader] = Session(h.list, h.port)]
  /\ handlers' = handlers \ {h}
  /\ UNCHANGED <<state, newState, peers, join, taken, link, calls, mail, ports, joins, faultVars>>

CallSend(c) ==
  /\ SendTo(Leader, c.to, c.m)
  /\ calls' = calls \ {c}
  /\ UNCHANGED <<serverVars, handlers, mail, ports, joins, faultVars>>

\* handleDeadServer, for a server whose heartbeats stopped or were late: the
\* death is multicast to who is in the session.
DeclareDead(s) ==
  /\ s \in peers[Leader]
  /\ \/ s \in crashed /\ UNCHANGED faults
     \/ s \in Live /\ faults < MaxFaults /\ faults' = faults + 1
  /\ peers' = [peers EXCEPT ![Leader] = @ \ {s}]
  /\ rm' = [rm EXCEPT ![Leader].members = @ \ {s}]
  /\ mail' = mail \cup
       IF rm[Leader].open
       THEN {[to |-> t, dead |-> s, port |-> rm[Leader].port, read |-> FALSE] :
               t \in {u \in Live \ {Leader} : rm[u].port = rm[Leader].port /\ rm[u].open}}
       ELSE {}
  /\ clean' = (clean /\ Quiet)
  /\ UNCHANGED <<state, newState, join, taken, link, handlers, calls, ports, joins, crashed,
                 panicked, overlap, retried>>

-----------------------------------------------------------------------------
(* A multicast death at a member                                           *)

\* StartListener: RemoveDeadNode, unless either side has left the session.
ReadDeath(d) ==
  /\ ~ d.read
  /\ IF rm[d.to].port = d.port /\ rm[d.to].open
     THEN /\ rm' = [rm EXCEPT ![d.to].members = @ \ {d.dead}]
          /\ mail' = (mail \ {d}) \cup {[d EXCEPT !.read = TRUE]}
     ELSE mail' = mail \ {d} /\ UNCHANGED rm
  /\ UNCHANGED <<state, newState, peers, join, taken, link, handlers, calls, ports, joins, faultVars>>

\* Retransmission ends with the sender's session.
LoseDeath(d) ==
  /\ ~ d.read /\ (rm[Leader].port # d.port \/ ~ rm[Leader].open)
  /\ mail' = mail \ {d}
  /\ UNCHANGED <<serverVars, link, handlers, calls, ports, joins, faultVars>>

\* startMulticastMessageListener: delete(s.peers, uuid)
HandleDeath(d) ==
  /\ d.read
  /\ peers' = [peers EXCEPT ![d.to] = @ \ {d.dead}]
  /\ mail' = mail \ {d}
  /\ UNCHANGED <<state, newState, rm, join, taken, link, handlers, calls, ports, joins, faultVars>>

Crash(s) ==
  /\ faults < MaxFaults /\ faults' = faults + 1
  /\ crashed' = crashed \cup {s}
  /\ mail' = {d \in mail : d.to # s}
  /\ UNCHANGED <<serverVars, link, handlers, calls, ports, joins, panicked, clean, overlap,
                 retried>>

-----------------------------------------------------------------------------
JoinStep(s) == \/ SendConnect(s) \/ Retry(s) \/ AddPeers(s)
               \/ BecomeFollower(s) \/ JoinMulticast(s)
ListenerStep(s) == Take(s) \/ ChangeSession(s) \/ Drop(s) \/ GetPeerInfo(s)
HandlerStep == \E h \in handlers :
  \/ HandlerSend(h) \/ HandlerRetire(h) \/ HandlerReplace(h)
MailStep == \E d \in mail : ReadDeath(d) \/ LoseDeath(d) \/ HandleDeath(d)

Next ==
  /\ ~ panicked
  /\ \/ \E s \in Joiner \ crashed :
          \/ BeginJoin(s) \/ JoinTimesOut(s) \/ JoinStep(s) \/ Connect(s)
          \/ DeclareDead(s) \/ Crash(s)
     \/ \E s \in crashed : Connect(s) \/ DeclareDead(s)
     \/ \E s \in Live : MainLoop(s) \/ ListenerStep(s)
     \/ HandlerStep \/ (\E h \in handlers : HandlerFails(h))
     \/ (\E c \in calls : CallSend(c)) \/ MailStep

Spec == Init /\ [][Next]_vars

-----------------------------------------------------------------------------
TypeOK ==
  /\ state \in [Server -> State]
  /\ taken \in [Server -> Held \cup {None}]
  /\ newState \in [Server -> {"INIT", "BECOME_FOLLOWER", "FOLLOWER", None}]
  /\ peers \in [Server -> SUBSET Server]
  /\ rm \in [Server -> [port : 0..ports, members : SUBSET Server, open : BOOLEAN]]
  /\ \A h \in handlers : h.from \in Joiner /\ h.port \in 1..ports
  /\ calls \subseteq [to : Joiner, m : [type : {"MulticastSessionChange"},
                                        peers : SUBSET Server, port : 1..ports]]
  /\ mail \subseteq [to : Joiner, dead : Joiner, port : 0..ports, read : BOOLEAN]
  /\ ports \in 0..joins /\ joins \in 0..MaxJoins

(* After a join that the leader took up when nothing else was under way,    *)
(* all servers on its list come to rest in its session, with its members    *)
(* and its peers, whatever sessions earlier joins that ran into each other, *)
(* timed out or lost a server had left them in.                             *)
Agreement ==
  Quiet /\ clean => \A s \in peers[Leader] \cap Live :
                      rm[s] = rm[Leader] /\ rm[s].open /\ peers[s] = peers[Leader]

(* No session is shut down twice, which would stop the process, unless two  *)
(* calls of connectToLeaderHandler ran at a time (server.go:362).           *)
ShutdownOnce == panicked => overlap

(* The unicast listener never holds a peer list that the join has stopped   *)
(* waiting for, which nothing would take from it again: acknowledgements    *)
(* and session changes would stay unread (server/unicast.go:69).  Only a    *)
(* server that timed out before may be caught so.                           *)
ListenerFree ==
  \A s \in Joiner \ retried :
    taken[s] # None /\ Heeded(taken[s].m.type, taken[s].state) =>
      join[s].pc \in {"connect", "wait"}
=============================================================================
